----------------------------- MODULE HDPProofs ------------------------------
(***************************************************************************)
(* HDP labels strongly connected components correctly: proofs for any      *)
(* problem and any number of nodes and actions.                            *)
(***************************************************************************)
EXTENDS HDP, BoundPairProofs, FiniteSetTheorems

\* No call from the k-th on has met a big residual.
Clean(k) == \A j \in k .. Len(frames) : ~frames[j].flag

\* The k-th call is the innermost of those made before y was numbered.
Owns(k, y) ==
  /\ y \in ToSet(nodeStack)
  /\ idx[frames[k].node] <= idx[y]
  /\ k < Len(frames) => idx[y] < idx[frames[k + 1].node]

\* The node the k-th call is on has been looked at up to outcome o only.
Explored(k, y) ==
  {o \in Edges(problem, y, MaxUBAction(bp, y)) :
     y = frames[k].node => o < frames[k].o}

\* Outcome o of y leads to a label, or back to a node on the stack with a
\* number that the call on x knows of.
Accounted(x, y, o) ==
  LET z == problem.next[y][MaxUBAction(bp, y)][o]
  IN  z \in solved \/ (z \in ToSet(nodeStack) /\ low[x] <= idx[z])

\* The part of the greedy envelope that the k-th call has seen.
EnvelopeOf(k) ==
  \A y \in Node : Owns(k, y) =>
    /\ Settled(y)
    /\ y = frames[k].node => frames[k].action = MaxUBAction(bp, y)
    /\ \A o \in Explored(k, y) : Accounted(frames[k].node, y, o)

\* As long as no residual was big, what a call has seen is up to date, and
\* leads to labelled nodes or back to a node that low accounts for.
Envelope == \A k \in DOMAIN frames : Clean(k) => EnvelopeOf(k)

\* Whoever has a number was visited in this trial, and is on the stack until
\* it is labelled.
Numbered ==
  /\ \A n \in Node : idx[n] # PlusInfinity <=> n \in visited
  /\ \A n \in visited : idx[n] < index
  /\ visited \subseteq ToSet(nodeStack) \cup solved
  /\ ToSet(nodeStack) \subseteq visited \cap bp.lookup
  /\ ToSet(nodeStack) \cap solved = {}
  /\ pc \notin {"planFixedTime", "done"} => index = Cardinality(visited)

\* The call frame f has in progress is on node s.
Calls(f, s) == InLoop(f) /\ s = problem.next[f.node][f.action][f.o]

CallChain ==
  /\ pc \in {"planFixedTime", "done", "endTrial"} => frames = <<>>
  /\ pc = "loop" => frames # <<>>
  /\ pc = "call" => /\ callee \in bp.lookup
                    /\ idx[callee] = PlusInfinity
                    /\ frames # <<>> => Calls(Last(frames), callee)
  /\ pc = "done" => visited = {} /\ nodeStack = <<>>
  /\ \A k \in DOMAIN frames :
       /\ frames[k].node \in bp.expanded
       /\ low[frames[k].node] <= idx[frames[k].node]
       /\ k < Len(frames) => Calls(frames[k], frames[k + 1].node)

\* The inductive invariant.  A label is set when the numbers say that a
\* component is complete, so the invariant says what the numbers, the stack
\* and the calls in progress stand for in a trial that is under way.
IInv ==
  /\ TypeOK
  /\ Linked(problem, bp)
  /\ solved \subseteq bp.lookup
  /\ StackDiscipline
  /\ Numbered
  /\ CallChain
  /\ Envelope
  /\ SolvedSound

-----------------------------------------------------------------------------
\* The facts about a state every action lemma starts from ...
LEMMA IInvFacts ==
  ASSUME IInv
  PROVE  /\ problem \in Problem /\ problem.initial \in Node
         /\ bp \in BoundTable /\ Linked(problem, bp)
         /\ bp.lookup \subseteq Node /\ solved \subseteq bp.lookup
BY DEF IInv, TypeOK, BoundTable, Problem

\* ... and about the calls and numbers of the trial under way.
LEMMA TrialFacts ==
  ASSUME IInv
  PROVE  /\ idx \in [Node -> Nat] /\ low \in [Node -> Nat] /\ index \in Nat
         /\ nodeStack \in Seq(Node) /\ ToSet(nodeStack) \subseteq bp.lookup
         /\ ToSet(nodeStack) \subseteq Node
         /\ visited \subseteq Node
         /\ frames \in Seq(Frame) /\ Len(frames) \in Nat
         /\ DOMAIN frames = 1 .. Len(frames)
         /\ \A k \in 1 .. Len(frames) : /\ frames[k] \in Frame
                                        /\ frames[k].node \in Node
                                        /\ frames[k].o \in 0 .. 2
                                        /\ frames[k].node \in ToSet(nodeStack)
<1>1. /\ idx \in [Node -> Nat] /\ low \in [Node -> Nat] /\ index \in Nat
      /\ nodeStack \in Seq(Node) /\ ToSet(nodeStack) \subseteq bp.lookup
      /\ visited \subseteq Node
  BY DEF IInv, TypeOK, Numbered
<1>2. ToSet(nodeStack) \subseteq Node
  BY <1>1, IInvFacts
<1>3. /\ frames \in Seq(Frame) /\ Len(frames) \in Nat
      /\ DOMAIN frames = 1 .. Len(frames)
      /\ \A k \in 1 .. Len(frames) : frames[k] \in Frame
  BY DEF IInv, TypeOK
<1>4. \A k \in 1 .. Len(frames) : frames[k].node \in Node /\ frames[k].o \in 0 .. 2
  BY <1>3 DEF Frame
<1>5. \A k \in DOMAIN frames : frames[k].node \in ToSet(nodeStack)
  BY DEF IInv, StackDiscipline
<1> QED
  BY <1>1, <1>2, <1>3, <1>4, <1>5

\* A node stays settled when neither it nor the nodes its best action leads to
\* change.
LEMMA SettledKept ==
  ASSUME problem \in Problem, bp \in BoundTable, NEW T \in BoundTable,
         problem' = problem, bp' = T,
         NEW s \in Node,
         Settled(s),
         s \in T.expanded,
         T.qub[s] = bp.qub[s],
         T.ub[s] = bp.ub[s],
         \A n \in Successors(problem, s, MaxUBAction(bp, s)) : T.ub[n] = bp.ub[n]
  PROVE  Settled(s)' /\ MaxUBAction(bp', s) = MaxUBAction(bp, s)
<1> DEFINE a == MaxUBAction(bp, s)
<1>1. bp.qub[s] \in [Action -> Int] /\ bp.ub \in [Node -> Int] /\ T.ub \in [Node -> Int]
  BY DEF BoundTable
<1>2. a \in Action
  BY <1>1, MaxActionProperties DEF MaxUBAction
<1>3. MaxUBAction(T, s) = a
  BY DEF MaxUBAction
<1>4. Backup(problem, T.ub, s, a) = Backup(problem, bp.ub, s, a)
  <2> HIDE DEF a
  <2>1. \A n \in Successors(problem, s, a) : T.ub[n] = bp.ub[n]
    BY DEF a
  <2> QED
    BY <1>1, <1>2, <2>1, BackupLocal
<1>5. Residual(T, s) = Residual(bp, s)
  BY DEF Residual
<1> QED
  BY <1>3, <1>4, <1>5 DEF Settled

LEMMA ResidualType ==
  ASSUME NEW T \in BoundTable, NEW s \in Node
  PROVE  Residual(T, s) \in Int
<1>1. T.ub[s] \in Int /\ T.qub[s] \in [Action -> Int]
  BY DEF BoundTable
<1>2. MaxValue(T.qub[s]) \in Int
  BY <1>1, MaxValueType
<1> QED
  BY <1>1, <1>2 DEF Residual, Distance

\* A step that changes the bounds of no labelled node keeps the labels sound.
LEMMA SetBoundsSound ==
  ASSUME IInv, NEW T \in BoundTable, NEW C \in SUBSET Node,
         SetBounds(T), problem' = problem,
         Linked(problem, T),
         bp.lookup \subseteq T.lookup,
         bp.expanded \subseteq T.expanded,
         C \cap solved = {},
         \A n \in bp.lookup \ C : T.ub[n] = bp.ub[n] /\ T.qub[n] = bp.qub[n]
  PROVE  /\ bp' = T
         /\ solved' \in SUBSET Node
         /\ solved' \subseteq T.lookup
         /\ solved \subseteq solved'
         /\ solved' \cap bp.lookup = solved
         /\ SolvedSound'
<1>1. /\ bp' = T
      /\ solved' = solved \cup {n \in T.lookup \ bp.lookup : problem.terminal[n]}
  BY DEF SetBounds
<1>2. /\ solved \subseteq bp.lookup /\ problem \in Problem /\ bp \in BoundTable
      /\ Linked(problem, bp) /\ bp.lookup \subseteq Node /\ T.lookup \subseteq Node
  BY IInvFacts DEF BoundTable
<1>3. ASSUME NEW s \in solved', ~problem'.terminal[s]
      PROVE  Converged(s)'
  <2>1. s \in solved /\ s \in Node
    BY <1>1, <1>2, <1>3
  <2>2. Converged(s)
    BY <1>3, <2>1 DEF IInv, SolvedSound
  <2>3. /\ s \in bp.expanded /\ Settled(s)
        /\ Successors(problem, s, MaxUBAction(bp, s)) \subseteq solved
    BY <2>2 DEF Converged, Settled
  <2>4. /\ s \in T.expanded
        /\ T.ub[s] = bp.ub[s] /\ T.qub[s] = bp.qub[s]
        /\ \A n \in Successors(problem, s, MaxUBAction(bp, s)) : T.ub[n] = bp.ub[n]
    BY <1>1, <1>2, <2>1, <2>3
  <2>5. Settled(s)' /\ MaxUBAction(bp', s) = MaxUBAction(bp, s)
    BY <1>1, <1>2, <2>1, <2>3, <2>4, SettledKept
  <2>6. Successors(problem', s, MaxUBAction(bp', s)) \subseteq solved'
    BY <1>1, <2>3, <2>5
  <2> QED
    BY <2>5, <2>6 DEF Converged, Settled
<1>4. SolvedSound'
  BY <1>3 DEF SolvedSound
<1> QED
  BY <1>1, <1>2, <1>4

-----------------------------------------------------------------------------
\* A caller goes on to its next outcome, and its flag may be raised.
LEMMA FlagRaised ==
  ASSUME NEW c \in Frame, c.o < 2, NEW flag \in BOOLEAN
  PROVE  LET g == [c EXCEPT !.o = @ + 1, !.flag = @ \/ flag]
         IN  /\ g \in Frame /\ g.node = c.node /\ g.action = c.action
             /\ g.o = c.o + 1 /\ g.flag = (c.flag \/ flag)
<1> DEFINE b == c.flag \/ flag
           d == [c EXCEPT !.o = @ + 1]
           g == [c EXCEPT !.o = @ + 1, !.flag = @ \/ flag]
<1>1. DOMAIN c = {"node", "action", "o", "flag"}
  BY DEF Frame
<1>2. g = [d EXCEPT !.flag = @ \/ flag]
  BY Zenon
<1>3. d.flag = c.flag
  BY <1>1, Zenon
<1>4. d \in Frame /\ d.node = c.node /\ d.action = c.action /\ d.o = c.o + 1
  BY DEF Frame
<1>5. b \in BOOLEAN
  OBVIOUS
<1> HIDE DEF d, g
<1>6. g = [d EXCEPT !.flag = b]
  <2>1. [d EXCEPT !.flag = @ \/ flag] = [d EXCEPT !.flag = d.flag \/ flag]
    BY Zenon
  <2> QED
    BY <1>2, <1>3, <2>1, Zenon
<1> HIDE DEF b
<1>7. g \in Frame /\ g.node = d.node /\ g.action = d.action /\ g.o = d.o /\ g.flag = b
  BY <1>4, <1>5, <1>6 DEF Frame
<1> QED
  BY <1>4, <1>7 DEF b, g

\* What a return does to the calls that remain and to their numbers.
LEMMA ReturnFacts ==
  ASSUME NEW calls \in Seq(Frame), NEW s \in Node, NEW flag \in BOOLEAN,
         low \in [Node -> Nat],
         Return(calls, s, flag, low),
         calls # <<>> => InLoop(Last(calls))
  PROVE  /\ frames' \in Seq(Frame)
         /\ Len(frames') = Len(calls) /\ Len(calls) \in Nat
         /\ DOMAIN frames' = 1 .. Len(calls)
         /\ low' \in [Node -> Nat]
         /\ \A n \in Node : low'[n] <= low[n]
         /\ \A k \in 1 .. Len(calls) : /\ frames'[k].node = calls[k].node
                                       /\ frames'[k].action = calls[k].action
         /\ \A k \in 1 .. Len(calls) - 1 : frames'[k] = calls[k]
         /\ calls = <<>> => pc' = "endTrial" /\ frames' = <<>>
         /\ calls # <<>> =>
              /\ pc' = "loop" /\ frames' # <<>>
              /\ frames'[Len(calls)].o = calls[Len(calls)].o + 1
              /\ calls[Len(calls)].flag \/ flag => frames'[Len(calls)].flag
              /\ low'[calls[Len(calls)].node] <= low[s]
<1>1. CASE calls = <<>>
  BY <1>1 DEF Return
<1>2. CASE calls # <<>>
  <2> DEFINE n == Len(calls)
             c == Last(calls)
             g == [c EXCEPT !.o = @ + 1, !.flag = @ \/ flag]
             t == Append(Front(calls), g)
             m == [low EXCEPT ![c.node] = Least(@, low[s])]
  <2>1. pc' = "loop" /\ frames' = t /\ low' = m
    BY <1>2 DEF Return
  <2>2. /\ n \in Nat \ {0} /\ c = calls[n] /\ c \in Frame
        /\ calls \in [1 .. n -> Frame]
    BY <1>2, FrontProperties
  <2>3. /\ g \in Frame /\ g.node = c.node /\ g.action = c.action
        /\ g.o = c.o + 1 /\ g.flag = (c.flag \/ flag)
    <3>1. PICK d \in Frame : d = c
      BY <2>2
    <3>2. d.o < 2
      BY <1>2, <3>1 DEF InLoop
    <3>3. g = [d EXCEPT !.o = @ + 1, !.flag = @ \/ flag]
      BY <3>1
    <3> HIDE DEF c, g
    <3>4. /\ g \in Frame /\ g.node = d.node /\ g.action = d.action
          /\ g.o = d.o + 1 /\ g.flag = (d.flag \/ flag)
      BY <3>2, <3>3, FlagRaised, Zenon
    <3> QED
      BY <3>1, <3>4, Zenon
  <2> HIDE DEF g
  <2>4. /\ t \in Seq(Frame) /\ Len(t) = n /\ DOMAIN t = 1 .. n /\ t[n] = g
        /\ \A k \in 1 .. n - 1 : t[k] = calls[k]
    BY <1>2, <2>3, ReplaceTopProperties
  <2> HIDE DEF t
  <2>5. /\ m \in [Node -> Nat] /\ \A k \in Node : m[k] <= low[k]
        /\ m[c.node] <= low[s]
    <3>1. c.node \in Node
      BY <2>2 DEF Frame
    <3>2. low[s] \in Nat /\ low[c.node] \in Nat
      BY <3>1
    <3>3. /\ Least(low[c.node], low[s]) \in Nat
          /\ Least(low[c.node], low[s]) <= low[c.node]
          /\ Least(low[c.node], low[s]) <= low[s]
      BY <3>2 DEF Least
    <3> QED
      BY <3>1, <3>3
  <2> HIDE DEF m, c
  <2>6. \A k \in 1 .. n : k \in 1 .. n - 1 \/ k = n
    BY <2>2
  <2>7. \A k \in 1 .. n : t[k].node = calls[k].node /\ t[k].action = calls[k].action
    BY <2>2, <2>3, <2>4, <2>6
  <2>8. t # <<>>
    BY <2>2, <2>4
  <2> QED
    BY <1>2, <2>1, <2>2, <2>3, <2>4, <2>5, <2>7, <2>8
<1> QED
  BY <1>1, <1>2

-----------------------------------------------------------------------------
LEMMA InitIInv == Init => IInv
<1> SUFFICES ASSUME Init PROVE IInv
  OBVIOUS
<1>1. problem \in Problem /\ callee \in Node
  BY ProblemsAssumption DEF Init, Problem
<1>2. EmptyTable \in BoundTable
  BY BoundPairAssumption DEF EmptyTable, BoundTable
<1>3. TypeOK
  BY <1>1, <1>2 DEF Init, TypeOK, Location, PlusInfinity
<1>4. Linked(problem, bp) /\ SolvedSound /\ solved \subseteq bp.lookup
  BY DEF Init, Linked, EmptyTable, SolvedSound
<1>5. /\ nodeStack = <<>> /\ frames = <<>> /\ visited = {} /\ pc = "planFixedTime"
      /\ \A n \in Node : idx[n] = PlusInfinity
  BY DEF Init
<1>6. StackDiscipline
  BY <1>5 DEF StackDiscipline, TrialStartsClean
<1>7. Numbered
  BY <1>5, EmptyStack DEF Numbered
<1>8. CallChain /\ Envelope
  BY <1>5 DEF CallChain, Envelope
<1> QED
  BY <1>3, <1>4, <1>6, <1>7, <1>8 DEF IInv

LEMMA PlanFixedTimeIInv == IInv /\ PlanFixedTime => IInv'
<1> SUFFICES ASSUME IInv, PlanFixedTime PROVE IInv'
  OBVIOUS
<1> DEFINE T == GetNodes(problem, bp, {problem.initial})
<1>1. /\ T \in BoundTable
      /\ T.lookup = bp.lookup \cup {problem.initial}
      /\ T.expanded = bp.expanded /\ T.qub = bp.qub
      /\ \A n \in bp.lookup : T.ub[n] = bp.ub[n]
  BY IInvFacts, GetNodesProperties
<1>2. /\ pc = "planFixedTime" /\ SetBounds(T) /\ callee' = problem.initial
      /\ index' = 0 /\ pc' = IF problem.initial \in solved' THEN "done" ELSE "call"
      /\ UNCHANGED <<problem, idx, low, nodeStack, visited, frames>>
  BY DEF PlanFixedTime
<1> HIDE DEF T
<1>3. Linked(problem, T)
  BY <1>1, IInvFacts DEF Linked
<1>4. /\ bp' = T
      /\ solved' \in SUBSET Node /\ solved' \subseteq T.lookup
      /\ solved \subseteq solved' /\ SolvedSound'
  <2>1. {} \in SUBSET Node /\ {} \cap solved = {}
    OBVIOUS
  <2>2. \A n \in bp.lookup \ {} : T.ub[n] = bp.ub[n] /\ T.qub[n] = bp.qub[n]
    BY <1>1
  <2> QED
    BY <1>1, <1>2, <1>3, <2>1, <2>2, SetBoundsSound
<1>5. /\ nodeStack = <<>> /\ visited = {} /\ frames = <<>>
      /\ \A n \in Node : idx[n] = PlusInfinity
  BY <1>2 DEF IInv, StackDiscipline, TrialStartsClean
<1>6. TypeOK'
  BY <1>1, <1>2, <1>4, IInvFacts, TrialFacts DEF IInv, TypeOK, Location
<1>7. StackDiscipline'
  BY <1>2, <1>5 DEF StackDiscipline, TrialStartsClean
<1>8. Numbered'
  BY <1>2, <1>5, EmptyStack, FS_EmptySet DEF Numbered
<1>9. CallChain'
  BY <1>1, <1>2, <1>4, <1>5, IInvFacts DEF CallChain
<1>10. Envelope'
  BY <1>2, <1>5 DEF Envelope
<1> QED
  BY <1>2, <1>3, <1>4, <1>6, <1>7, <1>8, <1>9, <1>10 DEF IInv

-----------------------------------------------------------------------------
\* The innermost of n calls goes on to its next outcome.
Advance(n) ==
  /\ n = Len(frames)
  /\ frames' \in Seq(Frame)
  /\ DOMAIN frames' = 1 .. n /\ Len(frames') = n
  /\ \A k \in 1 .. n : /\ frames'[k].node = frames[k].node
                       /\ frames'[k].action = frames[k].action
                       /\ frames[k].flag => frames'[k].flag
  /\ \A k \in 1 .. n - 1 : frames'[k] = frames[k]
  /\ frames'[n].o = frames[n].o + 1
  /\ low' \in [Node -> Nat]
  /\ \A m \in Node : low'[m] <= low[m]

LEMMA AccountedKept ==
  ASSUME IInv, low' \in [Node -> Nat], \A m \in Node : low'[m] <= low[m],
         UNCHANGED <<problem, bp, idx>>,
         solved \subseteq solved',
         ToSet(nodeStack) \subseteq ToSet(nodeStack)' \cup solved',
         NEW x \in Node, NEW x2 \in Node, low'[x2] <= low[x],
         NEW y, NEW o, Accounted(x, y, o)
  PROVE  Accounted(x2, y, o)'
<1> DEFINE z == problem.next[y][MaxUBAction(bp, y)][o]
<1> HIDE DEF z
<1>1. z \in solved \/ (z \in ToSet(nodeStack) /\ low[x] <= idx[z])
  BY DEF Accounted, z
<1>2. z \in ToSet(nodeStack) => idx[z] \in Nat
  BY TrialFacts
<1>3. low[x] \in Nat /\ low'[x2] \in Nat
  BY TrialFacts
<1>4. z \in solved' \/ (z \in ToSet(nodeStack)' /\ low'[x2] <= idx'[z])
  <2>1. CASE z \in solved
    BY <2>1
  <2>2. CASE z \in ToSet(nodeStack) /\ low[x] <= idx[z]
    <3>1. low'[x2] <= idx[z]
      BY <1>2, <1>3, <2>2
    <3> QED
      BY <2>2, <3>1
  <2> QED
    BY <1>1, <2>1, <2>2
<1> QED
  BY <1>4 DEF Accounted, z

\* When the innermost call goes on to its next outcome, the one it leaves
\* behind leads to a label, or to a node on the stack that low accounts for.
LEMMA AdvanceEnvelope ==
  ASSUME IInv, NEW n \in 1 .. Len(frames), Advance(n),
         UNCHANGED <<problem, bp, solved, idx, nodeStack>>,
         NEW s \in Node, s = frames[n].node,
         NEW i \in 0 .. 2, i = frames[n].o,
         frames[n].action = MaxUBAction(bp, s) /\ i \in Edges(problem, s, MaxUBAction(bp, s))
           => Accounted(s, s, i)'
  PROVE  Envelope'
<1> SUFFICES ASSUME NEW k \in 1 .. n, Clean(k)' PROVE EnvelopeOf(k)'
  BY DEF Envelope, Advance
<1>1. n \in Nat \ {0} /\ n = Len(frames) /\ k \in 1 .. Len(frames) /\ Len(frames') = n
  BY TrialFacts DEF Advance
<1>2. Clean(k)
  <2> SUFFICES ASSUME NEW j \in k .. n PROVE ~frames[j].flag
    BY <1>1 DEF Clean
  <2>1. j \in 1 .. n
    BY <1>1
  <2>2. ~frames'[j].flag
    BY <1>1 DEF Clean
  <2> QED
    BY <2>1, <2>2 DEF Advance
<1>3. EnvelopeOf(k)
  BY <1>1, <1>2, TrialFacts DEF IInv, Envelope
<1>4. PICK x \in Node : x = frames[k].node
  BY <1>1, TrialFacts
<1>5. /\ frames'[k].node = x /\ frames'[k].action = frames[k].action
      /\ k < n => frames'[k] = frames[k] /\ frames'[k + 1].node = frames[k + 1].node
  <2>1. k < n => k \in 1 .. n - 1 /\ k + 1 \in 1 .. n
    BY <1>1
  <2> QED
    BY <1>4, <2>1 DEF Advance
<1>6. ASSUME NEW y \in Node, Owns(k, y)'
      PROVE  /\ Settled(y)'
             /\ y = x => frames[k].action = MaxUBAction(bp, y)
             /\ \A o \in Explored(k, y)' : Accounted(x, y, o)'
  <2>1. Owns(k, y)
    BY <1>1, <1>4, <1>5, <1>6 DEF Owns
  <2>2. /\ Settled(y) /\ (y = x => frames[k].action = MaxUBAction(bp, y))
        /\ \A o \in Explored(k, y) : Accounted(x, y, o)
    BY <1>3, <1>4, <2>1 DEF EnvelopeOf
  <2>3. Settled(y)'
    BY <2>2 DEF Settled
  <2>4. ASSUME NEW o \in Outcome, o \in Explored(k, y)' PROVE Accounted(x, y, o)'
    <3>1. /\ o \in Edges(problem, y, MaxUBAction(bp, y))
          /\ y = x => o < frames'[k].o
      BY <1>5, <2>4 DEF Explored
    <3>2. CASE o \in Explored(k, y)
      <4>1. low' \in [Node -> Nat] /\ \A m \in Node : low'[m] <= low[m]
        BY DEF Advance
      <4>2. Accounted(x, y, o)
        BY <2>2, <3>2
      <4>3. solved \subseteq solved' /\ ToSet(nodeStack) \subseteq ToSet(nodeStack)' \cup solved'
        OBVIOUS
      <4> QED
        BY <4>1, <4>2, <4>3, AccountedKept
    <3>3. CASE o \notin Explored(k, y)
      <4>1. y = x /\ ~(o < frames[k].o) /\ o < frames'[k].o
        BY <1>4, <3>1, <3>3 DEF Explored
      <4>2. k = n
        BY <1>1, <1>5, <4>1
      <4>3. o = i
        <5>1. frames'[n].o = i + 1
          BY DEF Advance
        <5> QED
          BY <4>1, <4>2, <5>1 DEF Outcome
      <4>4. y = s /\ x = s
        BY <1>4, <4>1, <4>2
      <4>5. Accounted(s, s, i)'
        BY <2>2, <3>1, <4>2, <4>3, <4>4
      <4> QED
        BY <4>3, <4>4, <4>5
    <3> QED
      BY <3>2, <3>3
  <2>5. Explored(k, y)' \subseteq Outcome
    BY DEF Explored, Edges
  <2> QED
    BY <2>2, <2>3, <2>4, <2>5
<1> QED
  BY <1>5, <1>6 DEF EnvelopeOf, Accounted

-----------------------------------------------------------------------------
\* After a return the calls that remain are still a chain, on the stack in
\* the order of their numbers.
LEMMA ReturnKeepsChain ==
  ASSUME IInv, NEW calls \in Seq(Frame), NEW s \in Node, NEW flag \in BOOLEAN,
         Len(calls) <= Len(frames),
         \A k \in 1 .. Len(calls) : calls[k] = frames[k],
         calls # <<>> => InLoop(Last(calls)),
         Return(calls, s, flag, low),
         UNCHANGED <<problem, idx>>,
         bp.expanded \subseteq bp'.expanded,
         \A k \in 1 .. Len(calls) : frames[k].node \in ToSet(nodeStack)',
         \A i, j \in DOMAIN nodeStack' :
            i < j => idx[nodeStack'[i]] < idx[nodeStack'[j]]
  PROVE  /\ frames' \in Seq(Frame) /\ low' \in [Node -> Nat]
         /\ pc' \in {"loop", "endTrial"}
         /\ StackDiscipline' /\ CallChain'
<1> DEFINE n == Len(calls)
<1>1. /\ frames' \in Seq(Frame) /\ Len(frames') = n /\ n \in Nat
      /\ DOMAIN frames' = 1 .. n
      /\ low' \in [Node -> Nat]
      /\ \A m \in Node : low'[m] <= low[m]
      /\ \A k \in 1 .. n : frames'[k].node = calls[k].node
      /\ \A k \in 1 .. n - 1 : frames'[k] = calls[k]
      /\ calls = <<>> => pc' = "endTrial" /\ frames' = <<>>
      /\ calls # <<>> => pc' = "loop" /\ frames' # <<>>
  BY TrialFacts, ReturnFacts, Z3
<1>2. pc' \in {"loop", "endTrial"} /\ (pc' = "endTrial" => frames' = <<>>)
      /\ (pc' = "loop" => frames' # <<>>)
  BY <1>1
<1>3. ASSUME NEW k \in 1 .. n
      PROVE  /\ k \in DOMAIN frames /\ frames'[k].node = frames[k].node
             /\ frames'[k].node \in Node
             /\ k < n => /\ frames'[k] = frames[k] /\ k + 1 \in 1 .. n
                         /\ k < Len(frames)
  <2>1. k \in 1 .. Len(frames) /\ (k < n => k \in 1 .. n - 1 /\ k + 1 \in 1 .. n)
    BY <1>1, TrialFacts
  <2>2. k < n => k < Len(frames)
    BY <1>1, TrialFacts
  <2> QED
    BY <1>1, <2>1, <2>2, TrialFacts
<1> HIDE DEF n
<1>4. ASSUME NEW k \in 1 .. n
      PROVE  /\ frames'[k].node \in bp'.expanded
             /\ low'[frames'[k].node] <= idx[frames'[k].node]
             /\ k < n => Calls(frames'[k], frames'[k + 1].node)
  <2> DEFINE x == frames[k].node
  <2>1. x \in Node /\ k \in DOMAIN frames /\ frames'[k].node = x
    BY <1>3
  <2>2. x \in bp.expanded /\ low[x] <= idx[x]
    BY <2>1 DEF IInv, CallChain
  <2>3. k < n => Calls(frames[k], frames[k + 1].node)
    BY <1>3, <2>1 DEF IInv, CallChain
  <2>4. low'[x] <= low[x] /\ low'[x] \in Nat /\ low[x] \in Nat /\ idx[x] \in Nat
    BY <1>1, <2>1, TrialFacts
  <2>5. k < n => frames'[k] = frames[k] /\ frames'[k + 1].node = frames[k + 1].node
    BY <1>3
  <2> HIDE DEF x
  <2>6. low'[x] <= idx[x]
    BY <2>2, <2>4
  <2> QED
    BY <2>1, <2>2, <2>3, <2>5, <2>6
<1>5. CallChain'
  <2>1. \A k \in DOMAIN frames' :
           /\ frames'[k].node \in bp'.expanded
           /\ low'[frames'[k].node] <= idx'[frames'[k].node]
           /\ k < Len(frames') => Calls(frames[k], frames[k + 1].node)'
    BY <1>1, <1>4 DEF Calls
  <2> QED
    BY <1>2, <2>1 DEF CallChain
<1>6. StackDiscipline'
  <2>1. \A k \in DOMAIN frames' : frames'[k].node \in ToSet(nodeStack)'
    BY <1>1, <1>3 DEF n
  <2>2. \A i, j \in DOMAIN frames' : i < j => idx[frames'[i].node] < idx[frames'[j].node]
    BY <1>1, <1>3 DEF IInv, StackDiscipline
  <2>3. TrialStartsClean'
    BY <1>2 DEF TrialStartsClean
  <2> QED
    BY <2>1, <2>2, <2>3 DEF StackDiscipline
<1> QED
  BY <1>1, <1>2, <1>5, <1>6

\* The node just called: a successor of the innermost call's, or the root.
LEMMA CallFacts ==
  ASSUME IInv, pc = "call"
  PROVE  /\ callee \in Node /\ callee \in bp.lookup
         /\ idx[callee] = PlusInfinity
         /\ callee \notin visited /\ callee \notin ToSet(nodeStack)
         /\ index \in Nat /\ index # PlusInfinity
         /\ frames # <<>> => Calls(Last(frames), callee) /\ InLoop(Last(frames))
<1>1. /\ callee \in Node /\ callee \in bp.lookup /\ idx[callee] = PlusInfinity
      /\ frames # <<>> => Calls(Last(frames), callee)
  BY DEF IInv, TypeOK, CallChain
<1>2. callee \notin visited /\ callee \notin ToSet(nodeStack)
  BY <1>1 DEF IInv, Numbered
<1>3. index \in Nat /\ index = Cardinality(visited)
  BY DEF IInv, TypeOK, Numbered
<1>4. index # PlusInfinity
  <2>1. visited \subseteq Node /\ visited # Node
    BY <1>1, <1>2, TrialFacts
  <2>2. Cardinality(visited) <= Cardinality(Node) /\ Cardinality(visited) # Cardinality(Node)
    BY <2>1, NodeCountAssumption, FS_Subset
  <2>3. Cardinality(Node) \in Nat
    BY NodeCountAssumption, FS_CardinalityType
  <2> QED
    BY <1>3, <2>2, <2>3, NodeCountAssumption DEF PlusInfinity
<1> QED
  BY <1>1, <1>2, <1>3, <1>4 DEF Calls

LEMMA CallSolvedIInv == IInv /\ CallSolved => IInv'
<1> SUFFICES ASSUME IInv, CallSolved PROVE IInv'
  OBVIOUS
<1>1. /\ pc = "call" /\ callee \in solved /\ Return(frames, callee, FALSE, low)
      /\ UNCHANGED <<problem, bp, solved, idx, index, nodeStack, visited, callee>>
  BY DEF CallSolved
<1>2. /\ callee \in Node
      /\ frames # <<>> => Calls(Last(frames), callee) /\ InLoop(Last(frames))
  BY <1>1, CallFacts
<1>3. /\ frames' \in Seq(Frame) /\ low' \in [Node -> Nat]
      /\ pc' \in {"loop", "endTrial"}
      /\ StackDiscipline' /\ CallChain'
  <2>1. frames \in Seq(Frame) /\ FALSE \in BOOLEAN /\ Len(frames) <= Len(frames)
    BY TrialFacts
  <2>2. \A k \in 1 .. Len(frames) : frames[k].node \in ToSet(nodeStack)'
    BY <1>1, TrialFacts
  <2>3. \A i, j \in DOMAIN nodeStack' : i < j => idx[nodeStack'[i]] < idx[nodeStack'[j]]
    BY <1>1 DEF IInv, StackDiscipline
  <2>4. UNCHANGED <<problem, idx>> /\ bp.expanded \subseteq bp'.expanded
    BY <1>1
  <2> QED
    BY <1>1, <1>2, <2>1, <2>2, <2>3, <2>4, ReturnKeepsChain
<1>4. Envelope'
  <2>1. CASE frames = <<>>
    BY <1>1, <2>1 DEF Return, Envelope
  <2>2. CASE frames # <<>>
    <3> DEFINE n == Len(frames)
    <3>1. n \in 1 .. Len(frames) /\ Last(frames) = frames[n]
      <4>1. frames \in Seq(Frame)
        BY TrialFacts
      <4>2. Len(frames) \in Nat \ {0} /\ Last(frames) = frames[Len(frames)]
        BY <2>2, <4>1, FrontProperties
      <4> QED
        BY <4>2
    <3>2. Advance(n)
      <4>1. /\ frames' \in Seq(Frame)
            /\ DOMAIN frames' = 1 .. n /\ Len(frames') = n
            /\ \A k \in 1 .. n : /\ frames'[k].node = frames[k].node
                                 /\ frames'[k].action = frames[k].action
            /\ \A k \in 1 .. n - 1 : frames'[k] = frames[k]
            /\ frames'[n].o = frames[n].o + 1
            /\ frames[n].flag => frames'[n].flag
            /\ low' \in [Node -> Nat]
            /\ \A m \in Node : low'[m] <= low[m]
        <5>1. frames \in Seq(Frame) /\ low \in [Node -> Nat]
          BY TrialFacts
        <5>2. PICK flag \in BOOLEAN : flag = FALSE
          OBVIOUS
        <5>3. Return(frames, callee, flag, low)
          BY <1>1, <5>2
        <5> QED
          BY <1>2, <2>2, <5>1, <5>3, ReturnFacts, Z3
      <4>2. \A k \in 1 .. n : frames[k].flag => frames'[k].flag
        <5>1. \A k \in 1 .. n : k \in 1 .. n - 1 \/ k = n
          BY <3>1
        <5> QED
          BY <4>1, <5>1
      <4> QED
        BY <4>1, <4>2 DEF Advance
    <3> HIDE DEF n
    <3>3. PICK s \in Node : s = frames[n].node
      BY <3>1, TrialFacts
    <3>4. PICK i \in 0 .. 2 : i = frames[n].o
      BY <3>1, TrialFacts
    <3>5. ASSUME frames[n].action = MaxUBAction(bp, s) PROVE Accounted(s, s, i)'
      <4>1. callee = problem.next[s][MaxUBAction(bp, s)][i]
        BY <1>2, <2>2, <3>1, <3>3, <3>4, <3>5 DEF Calls
      <4> QED
        BY <1>1, <4>1 DEF Accounted
    <3> QED
      BY <1>1, <3>1, <3>2, <3>3, <3>4, <3>5, AdvanceEnvelope
  <2> QED
    BY <2>1, <2>2
<1>5. TypeOK'
  BY <1>1, <1>3 DEF IInv, TypeOK, Location
<1>6. Numbered'
  BY <1>1, <1>3 DEF IInv, Numbered
<1>7. SolvedSound'
  BY <1>1 DEF IInv, SolvedSound, Converged, Settled
<1> QED
  BY <1>1, <1>3, <1>4, <1>5, <1>6, <1>7 DEF IInv

\* A call that returns true leaves no call without a big residual below it.
LEMMA ReturnTrueEnvelope ==
  ASSUME NEW calls \in Seq(Frame), NEW s \in Node, low \in [Node -> Nat],
         Return(calls, s, TRUE, low),
         calls # <<>> => InLoop(Last(calls))
  PROVE  Envelope'
<1> SUFFICES ASSUME NEW k \in DOMAIN frames' PROVE ~Clean(k)'
  BY DEF Envelope
<1> DEFINE n == Len(calls)
<1>1. /\ frames' \in Seq(Frame) /\ Len(frames') = n /\ n \in Nat
      /\ DOMAIN frames' = 1 .. n
      /\ calls # <<>> => frames'[n].flag
      /\ calls = <<>> => frames' = <<>>
  <2>1. PICK flag \in BOOLEAN : flag = TRUE
    OBVIOUS
  <2>2. Return(calls, s, flag, low) /\ flag
    BY <2>1
  <2>3. /\ frames' \in Seq(Frame) /\ Len(frames') = n /\ n \in Nat
        /\ DOMAIN frames' = 1 .. n
        /\ calls = <<>> => frames' = <<>>
        /\ calls # <<>> => (calls[n].flag \/ flag => frames'[n].flag)
    BY <2>2, ReturnFacts
  <2> QED
    BY <2>2, <2>3
<1>2. calls # <<>> /\ n \in k .. Len(frames')
  BY <1>1
<1>3. frames'[n].flag
  BY <1>1, <1>2
<1> QED
  BY <1>2, <1>3 DEF Clean

\* The table after CacheQ: only the Q values of s have changed, and the best
\* of them is a backup of the bounds as they are.
LEMMA CacheQProperties ==
  ASSUME problem \in Problem, bp \in BoundTable, Linked(problem, bp),
         NEW s \in bp.lookup
  PROVE  LET T == CacheQ(s)
             a == MaxUBAction(T, s)
         IN  /\ T \in BoundTable
             /\ bp.lookup \subseteq T.lookup
             /\ T.expanded = bp.expanded \cup {s}
             /\ Linked(problem, T)
             /\ \A n \in Node \ {s} : T.qub[n] = bp.qub[n]
             /\ \A n \in bp.lookup : T.ub[n] = bp.ub[n]
             /\ a \in Action
             /\ T.qub[s][a] = Backup(problem, T.ub, s, a)
<1>1. CacheQ(s) = Cached(problem, bp, s)
  BY DEF CacheQ, Cached
<1> QED
  BY <1>1, CachedProperties

\* The table after a big residual: the bound of s may have moved too.
LEMMA TakeBestQProperties ==
  ASSUME problem \in Problem, bp \in BoundTable, Linked(problem, bp),
         NEW s \in bp.lookup
  PROVE  LET T == TakeBestQ(CacheQ(s), s)
         IN  /\ T \in BoundTable
             /\ bp.lookup \subseteq T.lookup
             /\ T.expanded = bp.expanded \cup {s}
             /\ Linked(problem, T)
             /\ \A n \in Node \ {s} : T.qub[n] = bp.qub[n]
             /\ \A n \in bp.lookup \ {s} : T.ub[n] = bp.ub[n]
<1> DEFINE U == CacheQ(s)
           v == MaxValue(U.qub[s])
           T == TakeBestQ(U, s)
<1>1. /\ U \in BoundTable
      /\ bp.lookup \subseteq U.lookup
      /\ U.expanded = bp.expanded \cup {s}
      /\ Linked(problem, U)
      /\ \A n \in Node \ {s} : U.qub[n] = bp.qub[n]
      /\ \A n \in bp.lookup : U.ub[n] = bp.ub[n]
  BY CacheQProperties
<1>2. T = [U EXCEPT !.ub[s] = v]
  BY DEF TakeBestQ
<1>3. s \in Node /\ bp.lookup \subseteq Node
  BY DEF BoundTable
<1> HIDE DEF U, T
<1>4. v \in Int
  <2>1. U.qub[s] \in [Action -> Int]
    BY <1>1, <1>3 DEF BoundTable
  <2> QED
    BY <2>1, MaxValueType
<1> HIDE DEF v
<1>5. /\ T \in BoundTable
      /\ T.lookup = U.lookup /\ T.expanded = U.expanded /\ T.qub = U.qub
      /\ \A n \in Node \ {s} : T.ub[n] = U.ub[n]
  BY <1>1, <1>2, <1>3, <1>4 DEF BoundTable
<1>6. Linked(problem, T)
  BY <1>1, <1>5 DEF Linked
<1> QED
  BY <1>1, <1>3, <1>5, <1>6 DEF T, U

\* A step that backs node s up, be it called or finished, and returns true.
LEMMA BackupReturnsTrue ==
  ASSUME IInv, NEW T \in BoundTable, NEW s \in bp.lookup,
         NEW calls \in Seq(Frame), pc \in {"call", "loop"},
         s \notin solved,
         Linked(problem, T),
         bp.lookup \subseteq T.lookup,
         T.expanded = bp.expanded \cup {s},
         \A n \in Node \ {s} : T.qub[n] = bp.qub[n],
         \A n \in bp.lookup \ {s} : T.ub[n] = bp.ub[n],
         SetBounds(T),
         Len(calls) <= Len(frames),
         \A k \in 1 .. Len(calls) : calls[k] = frames[k],
         calls # <<>> => InLoop(Last(calls)),
         Return(calls, s, TRUE, low),
         UNCHANGED <<problem, idx, index, nodeStack, visited, callee>>
  PROVE  IInv'
<1>1. s \in Node /\ low \in [Node -> Nat]
  BY IInvFacts, TrialFacts
<1>2. /\ bp' = T
      /\ solved' \in SUBSET Node /\ solved' \subseteq T.lookup
      /\ solved \subseteq solved' /\ solved' \cap bp.lookup = solved
      /\ SolvedSound'
  <2>1. {s} \in SUBSET Node /\ {s} \cap solved = {}
    BY <1>1
  <2>2. \A n \in bp.lookup \ {s} : T.ub[n] = bp.ub[n] /\ T.qub[n] = bp.qub[n]
    BY IInvFacts
  <2>3. problem' = problem /\ bp.expanded \subseteq T.expanded
    OBVIOUS
  <2> QED
    BY <2>1, <2>2, <2>3, SetBoundsSound
<1>3. /\ frames' \in Seq(Frame) /\ low' \in [Node -> Nat]
      /\ pc' \in {"loop", "endTrial"}
      /\ StackDiscipline' /\ CallChain'
  <2>1. PICK flag \in BOOLEAN : flag = TRUE
    OBVIOUS
  <2>2. \A k \in 1 .. Len(calls) : frames[k].node \in ToSet(nodeStack)'
    <3>1. 1 .. Len(calls) \subseteq 1 .. Len(frames)
      BY TrialFacts
    <3> QED
      BY <3>1, TrialFacts
  <2>3. \A i, j \in DOMAIN nodeStack' : i < j => idx[nodeStack'[i]] < idx[nodeStack'[j]]
    BY DEF IInv, StackDiscipline
  <2>4. UNCHANGED <<problem, idx>> /\ bp.expanded \subseteq bp'.expanded
    BY <1>2
  <2>5. Return(calls, s, flag, low)
    BY <2>1
  <2> QED
    BY <1>1, <2>2, <2>3, <2>4, <2>5, ReturnKeepsChain
<1>4. Envelope'
  BY <1>1, ReturnTrueEnvelope
<1>5. TypeOK'
  BY <1>2, <1>3 DEF IInv, TypeOK, Location
<1>6. Numbered'
  <2>1. ToSet(nodeStack) \cap solved' = {}
    BY <1>2, TrialFacts DEF IInv, Numbered
  <2> QED
    BY <1>2, <1>3, <2>1 DEF IInv, Numbered
<1> QED
  BY <1>2, <1>3, <1>4, <1>5, <1>6 DEF IInv

LEMMA CallBigResidualIInv == IInv /\ CallBigResidual => IInv'
<1> SUFFICES ASSUME IInv, CallBigResidual PROVE IInv'
  OBVIOUS
<1> DEFINE T == TakeBestQ(CacheQ(callee), callee)
<1>1. /\ pc = "call" /\ callee \notin solved /\ SetBounds(T)
      /\ Return(frames, callee, TRUE, low)
      /\ UNCHANGED <<problem, idx, index, nodeStack, visited, callee>>
  BY DEF CallBigResidual
<1>2. callee \in bp.lookup /\ (frames # <<>> => InLoop(Last(frames)))
  BY <1>1, CallFacts
<1>3. /\ T \in BoundTable
      /\ bp.lookup \subseteq T.lookup
      /\ T.expanded = bp.expanded \cup {callee}
      /\ Linked(problem, T)
      /\ \A n \in Node \ {callee} : T.qub[n] = bp.qub[n]
      /\ \A n \in bp.lookup \ {callee} : T.ub[n] = bp.ub[n]
  BY <1>2, IInvFacts, TakeBestQProperties
<1> HIDE DEF T
<1>4. PICK s \in bp.lookup : s = callee
  BY <1>2
<1>5. frames \in Seq(Frame) /\ Len(frames) <= Len(frames)
  BY TrialFacts
<1> QED
  BY <1>1, <1>2, <1>3, <1>4, <1>5, BackupReturnsTrue

\* The innermost call, in its loop, and the calls below it.
LEMMA LoopFacts ==
  ASSUME IInv, pc = "loop"
  PROVE  LET n == Len(frames)
             f == Last(frames)
         IN  /\ n \in 1 .. Len(frames) /\ n \in Nat \ {0} /\ frames # <<>>
             /\ f = frames[n] /\ f \in Frame
             /\ f.node \in Node /\ f.node \in ToSet(nodeStack)
             /\ f.node \in bp.lookup /\ f.node \in bp.expanded
             /\ f.node \notin solved
             /\ low[f.node] <= idx[f.node]
             /\ Front(frames) \in Seq(Frame)
             /\ Len(Front(frames)) = n - 1
             /\ \A k \in 1 .. n - 1 : Front(frames)[k] = frames[k]
             /\ Front(frames) # <<>> => /\ InLoop(Last(Front(frames)))
                                        /\ Last(Front(frames)) = frames[n - 1]
                                        /\ n - 1 \in 1 .. n - 1
                                        /\ Calls(frames[n - 1], f.node)
<1> DEFINE n == Len(frames)
           f == Last(frames)
           c == Front(frames)
<1>1. frames \in Seq(Frame) /\ frames # <<>>
  BY TrialFacts DEF IInv, CallChain
<1>2. /\ n \in Nat \ {0} /\ c \in Seq(Frame) /\ Len(c) = n - 1
      /\ \A k \in 1 .. n - 1 : c[k] = frames[k]
      /\ f = frames[n] /\ f \in Frame
  BY <1>1, FrontProperties
<1>3. n \in 1 .. n /\ n \in DOMAIN frames
  BY <1>2, TrialFacts
<1>4. /\ f.node \in Node /\ f.node \in ToSet(nodeStack) /\ f.node \in bp.lookup
      /\ f.node \in bp.expanded /\ low[f.node] <= idx[f.node]
  BY <1>2, <1>3, TrialFacts DEF IInv, CallChain
<1>5. f.node \notin solved
  BY <1>4 DEF IInv, Numbered
<1>6. ASSUME c # <<>>
      PROVE  /\ n - 1 \in 1 .. n - 1 /\ Last(c) = frames[n - 1]
             /\ Calls(frames[n - 1], f.node)
  <2> HIDE DEF c
  <2>1. Len(c) \in Nat \ {0} /\ Last(c) = c[Len(c)]
    BY <1>2, <1>6, FrontProperties
  <2>2. n - 1 \in 1 .. n - 1 /\ Last(c) = frames[n - 1]
    BY <1>2, <2>1
  <2>3. n - 1 \in DOMAIN frames /\ n - 1 < Len(frames) /\ n - 1 + 1 = n
    BY <1>2, <2>2, TrialFacts
  <2>4. Calls(frames[n - 1], frames[n - 1 + 1].node)
    BY <2>3 DEF IInv, CallChain
  <2> QED
    BY <1>2, <2>2, <2>3, <2>4
<1>7. c # <<>> => InLoop(Last(c))
  BY <1>6 DEF Calls
<1> QED
  BY <1>1, <1>2, <1>3, <1>4, <1>5, <1>6, <1>7

LEMMA FinishUpdateIInv == IInv /\ FinishUpdate => IInv'
<1> SUFFICES ASSUME IInv, FinishUpdate PROVE IInv'
  OBVIOUS
<1> DEFINE f == Last(frames)
           calls == Front(frames)
           T == Update(problem, bp, f.node)
<1>1. /\ pc = "loop" /\ SetBounds(T) /\ Return(calls, f.node, TRUE, low)
      /\ UNCHANGED <<problem, idx, index, nodeStack, visited, callee>>
  BY DEF FinishUpdate
<1>2. /\ f.node \in bp.lookup /\ f.node \notin solved
      /\ calls \in Seq(Frame) /\ Len(calls) <= Len(frames)
      /\ \A k \in 1 .. Len(calls) : calls[k] = frames[k]
      /\ calls # <<>> => InLoop(Last(calls))
  BY <1>1, LoopFacts
<1>3. PICK s \in bp.lookup : s = f.node
  BY <1>2
<1>4. /\ T \in BoundTable
      /\ bp.lookup \subseteq T.lookup
      /\ T.expanded = bp.expanded \cup {s}
      /\ Linked(problem, T)
      /\ \A n \in Node \ {s} : T.qub[n] = bp.qub[n]
      /\ \A n \in bp.lookup \ {s} : T.ub[n] = bp.ub[n]
  BY <1>3, IInvFacts, TableAfterUpdate
<1> HIDE DEF T, f, calls
<1> QED
  BY <1>1, <1>2, <1>3, <1>4, BackupReturnsTrue

\* A successor that has a number is labelled, or on the stack.
LEMMA LoopOutcomeIInv == IInv /\ LoopOutcome => IInv'
<1> SUFFICES ASSUME IInv, LoopOutcome PROVE IInv'
  OBVIOUS
<1> DEFINE n  == Len(frames)
           f  == Last(frames)
           sn == problem.next[f.node][f.action][f.o]
           edge == f.o \in Edges(problem, f.node, f.action)
<1>1. /\ pc = "loop" /\ InLoop(f)
      /\ UNCHANGED <<problem, bp, solved, idx, index, nodeStack, visited>>
      /\ IF edge /\ idx[sn] = PlusInfinity
         THEN /\ callee' = sn
              /\ pc' = "call"
              /\ UNCHANGED <<low, frames>>
         ELSE /\ low' = IF edge /\ sn \in ToSet(nodeStack)
                        THEN [low EXCEPT ![f.node] = Least(@, idx[sn])]
                        ELSE low
              /\ frames' = Append(Front(frames), [f EXCEPT !.o = @ + 1])
              /\ UNCHANGED <<callee, pc>>
  BY DEF LoopOutcome
<1>2. /\ n \in 1 .. Len(frames) /\ n \in Nat \ {0} /\ frames # <<>>
      /\ f = frames[n] /\ f \in Frame
      /\ f.node \in Node /\ f.node \in bp.expanded
      /\ low[f.node] <= idx[f.node]
  BY <1>1, LoopFacts
<1>3. /\ f.action \in Action /\ f.o \in 0 .. 2 /\ f.o < 2
  BY <1>1, <1>2 DEF Frame, InLoop
<1>4. edge => sn \in bp.lookup /\ sn \in Node
  <2>1. edge => sn \in Successors(problem, f.node, f.action)
    BY DEF Successors
  <2>2. Successors(problem, f.node, f.action) \subseteq bp.lookup
    BY <1>2, <1>3, IInvFacts DEF Linked
  <2> QED
    BY <2>1, <2>2, IInvFacts
<1>5. CASE edge /\ idx[sn] = PlusInfinity
  <2>1. callee' = sn /\ pc' = "call" /\ UNCHANGED <<low, frames>>
    BY <1>1, <1>5
  <2>2. TypeOK'
    BY <1>1, <1>4, <1>5, <2>1 DEF IInv, TypeOK, Location
  <2>3. StackDiscipline' /\ Numbered' /\ SolvedSound'
    BY <1>1, <2>1 DEF IInv, StackDiscipline, TrialStartsClean, Numbered,
                      SolvedSound, Converged, Settled
  <2>4. CallChain'
    BY <1>1, <1>4, <1>5, <2>1 DEF IInv, CallChain, Calls
  <2>5. Envelope'
    <3>1. UNCHANGED <<problem, bp, solved, idx, low, nodeStack, frames>>
      BY <1>1, <2>1
    <3> QED
      BY <3>1 DEF IInv, Envelope, Clean, EnvelopeOf, Owns, Settled, Explored,
                  Accounted
  <2> QED
    BY <1>1, <2>2, <2>3, <2>4, <2>5 DEF IInv
<1>6. CASE ~(edge /\ idx[sn] = PlusInfinity)
  <2> DEFINE g == [f EXCEPT !.o = @ + 1]
  <2>1. /\ low' = IF edge /\ sn \in ToSet(nodeStack)
                  THEN [low EXCEPT ![f.node] = Least(@, idx[sn])]
                  ELSE low
        /\ frames' = Append(Front(frames), g)
        /\ UNCHANGED <<callee, pc>>
    BY <1>1, <1>6
  <2>2. /\ g \in Frame /\ g.node = f.node /\ g.action = f.action
        /\ g.o = f.o + 1 /\ g.flag = f.flag
    BY <1>2, <1>3 DEF Frame
  <2> HIDE DEF g
  <2>3. /\ frames' \in Seq(Frame) /\ Len(frames') = n /\ DOMAIN frames' = 1 .. n
        /\ frames'[n] = g /\ \A k \in 1 .. n - 1 : frames'[k] = frames[k]
    <3>1. frames \in Seq(Frame) /\ frames # <<>> /\ g \in Frame
      BY <1>2, <2>2, TrialFacts
    <3>2. frames' = Append(Front(frames), g)
      BY <2>1
    <3> HIDE DEF sn, edge, f
    <3> QED
      BY <3>1, <3>2, ReplaceTopProperties
  <2>4. /\ low' \in [Node -> Nat] /\ \A m \in Node : low'[m] <= low[m]
        /\ edge /\ sn \in ToSet(nodeStack) => low'[f.node] <= idx[sn]
    <3>1. CASE edge /\ sn \in ToSet(nodeStack)
      <4>1. /\ low' = [low EXCEPT ![f.node] = Least(@, idx[sn])]
            /\ sn \in Node
        BY <1>4, <2>1, <3>1
      <4>2. /\ low[f.node] \in Nat /\ idx[sn] \in Nat
        BY <1>2, <4>1, TrialFacts
      <4> DEFINE v == Least(low[f.node], idx[sn])
      <4>3. v \in Nat /\ v <= low[f.node] /\ v <= idx[sn]
        <5> HIDE DEF f, sn
        <5> QED
          BY <4>2 DEF Least
      <4> HIDE DEF v, f, sn, edge
      <4>4. low' = [low EXCEPT ![f.node] = v]
        BY <4>1 DEF v
      <4>5. low \in [Node -> Nat] /\ f.node \in Node
        BY <1>2, TrialFacts
      <4>6. low' \in [Node -> Nat] /\ low'[f.node] = v
        BY <4>3, <4>4, <4>5
      <4>7. \A m \in Node : low'[m] <= low[m]
        BY <4>3, <4>4, <4>5
      <4> QED
        BY <4>3, <4>6, <4>7
    <3>2. CASE ~(edge /\ sn \in ToSet(nodeStack))
      <4>1. low' = low
        BY <2>1, <3>2
      <4>2. low \in [Node -> Nat]
        BY TrialFacts
      <4> HIDE DEF f, sn, edge
      <4> QED
        BY <3>2, <4>1, <4>2
    <3> QED
      BY <3>1, <3>2
  <2>5. \A k \in 1 .. n : /\ frames'[k].node = frames[k].node
                          /\ frames'[k].action = frames[k].action
                          /\ frames[k].flag => frames'[k].flag
    <3>1. \A k \in 1 .. n : k \in 1 .. n - 1 \/ k = n
      BY <1>2
    <3>2. /\ frames'[n].node = frames[n].node /\ frames'[n].action = frames[n].action
          /\ frames[n].flag => frames'[n].flag
      BY <1>2, <2>2, <2>3
    <3> QED
      BY <2>3, <3>1, <3>2
  <2>6. Advance(n)
    BY <1>2, <2>2, <2>3, <2>4, <2>5 DEF Advance
  <2>7. Envelope'
    <3>1. PICK s \in Node : s = frames[n].node
      BY <1>2
    <3>2. PICK i \in 0 .. 2 : i = frames[n].o
      BY <1>2, <1>3
    <3>3. ASSUME frames[n].action = MaxUBAction(bp, s),
                 i \in Edges(problem, s, MaxUBAction(bp, s))
          PROVE  Accounted(s, s, i)'
      <4>1. edge /\ idx[sn] # PlusInfinity
            /\ sn = problem.next[s][MaxUBAction(bp, s)][i]
        BY <1>2, <1>6, <3>1, <3>2, <3>3
      <4>2. sn \in ToSet(nodeStack) \cup solved
        BY <1>4, <4>1 DEF IInv, Numbered
      <4>3. sn \in ToSet(nodeStack) => low'[s] <= idx[sn]
        BY <1>2, <2>4, <3>1, <4>1
      <4> HIDE DEF sn, edge, f
      <4> QED
        BY <1>1, <4>1, <4>2, <4>3 DEF Accounted
    <3> HIDE DEF f, sn, edge, n
    <3>4. UNCHANGED <<problem, bp, solved, idx, nodeStack>>
      BY <1>1
    <3> QED
      BY <1>2, <2>6, <3>1, <3>2, <3>3, <3>4, AdvanceEnvelope
  <2>8. TypeOK'
    BY <1>1, <2>1, <2>3, <2>4 DEF IInv, TypeOK
  <2>9. StackDiscipline'
    <3>1. \A k \in DOMAIN frames' : frames'[k].node \in ToSet(nodeStack)'
      BY <1>1, <1>2, <2>3, <2>5, TrialFacts
    <3>2. \A i, j \in DOMAIN frames' : i < j => idx[frames'[i].node] < idx[frames'[j].node]
      BY <2>3, <2>5, TrialFacts DEF IInv, StackDiscipline
    <3> QED
      BY <1>1, <2>1, <3>1, <3>2 DEF IInv, StackDiscipline, TrialStartsClean
  <2>10. Numbered' /\ SolvedSound'
    BY <1>1, <2>1 DEF IInv, Numbered, SolvedSound, Converged, Settled
  <2>11. CallChain'
    <3>1. frames' # <<>> /\ pc' = "loop"
      BY <1>1, <1>2, <2>1, <2>3
    <3>2. ASSUME NEW k \in 1 .. n
          PROVE  /\ frames'[k].node \in bp.expanded
                 /\ low'[frames'[k].node] <= idx[frames'[k].node]
                 /\ k < n => Calls(frames'[k], frames'[k + 1].node)
      <4> DEFINE x == frames[k].node
      <4>1. k \in DOMAIN frames /\ frames'[k].node = x /\ x \in Node
        BY <2>5, TrialFacts
      <4>2. x \in bp.expanded /\ low[x] <= idx[x]
        BY <4>1 DEF IInv, CallChain
      <4>3. k < n => Calls(frames[k], frames[k + 1].node)
        BY <4>1 DEF IInv, CallChain
      <4>4. k < n => k \in 1 .. n - 1 /\ k + 1 \in 1 .. n
        BY <1>2
      <4>5. k < n => frames'[k] = frames[k] /\ frames'[k + 1].node = frames[k + 1].node
        BY <2>3, <2>5, <4>4
      <4>6. low'[x] <= low[x] /\ low'[x] \in Nat /\ low[x] \in Nat /\ idx[x] \in Nat
        BY <2>4, <4>1, TrialFacts
      <4> HIDE DEF x
      <4>7. low'[x] <= idx[x]
        BY <4>2, <4>6
      <4> QED
        BY <4>1, <4>2, <4>3, <4>5, <4>7
    <3>3. \A k \in DOMAIN frames' :
             /\ frames'[k].node \in bp'.expanded
             /\ low'[frames'[k].node] <= idx'[frames'[k].node]
             /\ k < Len(frames') => Calls(frames[k], frames[k + 1].node)'
      BY <1>1, <2>3, <3>2 DEF Calls
    <3> QED
      BY <3>1, <3>3 DEF CallChain
  <2> QED
    BY <1>1, <2>7, <2>8, <2>9, <2>10, <2>11 DEF IInv
<1> QED
  BY <1>5, <1>6

-----------------------------------------------------------------------------
LEMMA CallEnterIInv == IInv /\ CallEnter => IInv'
<1> SUFFICES ASSUME IInv, CallEnter PROVE IInv'
  OBVIOUS
<1>0. PICK s \in Node : s = callee
  BY CallFacts DEF CallEnter
<1> DEFINE T == CacheQ(s)
           n == Len(frames)
           g == [node |-> s, o |-> 0, flag |-> FALSE, action |-> MaxUBAction(T, s)]
<1>1. /\ pc = "call" /\ s \notin solved /\ ~BigResidual(T, s) /\ SetBounds(T)
      /\ visited' = visited \cup {s}
      /\ nodeStack' = Append(nodeStack, s)
      /\ idx' = [idx EXCEPT ![s] = index]
      /\ low' = [low EXCEPT ![s] = index]
      /\ index' = index + 1
      /\ frames' = Append(frames, g)
      /\ pc' = "loop"
      /\ UNCHANGED <<problem, callee>>
  BY <1>0 DEF CallEnter
<1>2. /\ s \in bp.lookup /\ idx[s] = PlusInfinity
      /\ s \notin visited /\ s \notin ToSet(nodeStack)
      /\ index \in Nat /\ index # PlusInfinity
      /\ frames # <<>> => Calls(Last(frames), s)
  BY <1>0, <1>1, CallFacts
<1>3. /\ T \in BoundTable
      /\ bp.lookup \subseteq T.lookup
      /\ T.expanded = bp.expanded \cup {s}
      /\ Linked(problem, T)
      /\ \A m \in Node \ {s} : T.qub[m] = bp.qub[m]
      /\ \A m \in bp.lookup : T.ub[m] = bp.ub[m]
      /\ MaxUBAction(T, s) \in Action
      /\ T.qub[s][MaxUBAction(T, s)] = Backup(problem, T.ub, s, MaxUBAction(T, s))
  BY <1>2, IInvFacts, CacheQProperties
<1>4. Residual(T, s) <= TargetPrecision
  <2>1. Residual(T, s) \in Int /\ TargetPrecision \in Int
    BY <1>3, ResidualType, HDPAssumption
  <2> QED
    BY <1>1, <2>1 DEF BigResidual
<1> HIDE DEF T
<1>5. /\ bp' = T
      /\ solved' \in SUBSET Node /\ solved' \subseteq T.lookup
      /\ solved \subseteq solved' /\ solved' \cap bp.lookup = solved
      /\ SolvedSound'
  <2>1. {s} \in SUBSET Node /\ {s} \cap solved = {}
    BY <1>1
  <2>2. \A m \in bp.lookup \ {s} : T.ub[m] = bp.ub[m] /\ T.qub[m] = bp.qub[m]
    BY <1>3, IInvFacts
  <2>3. problem' = problem /\ bp.expanded \subseteq T.expanded
    BY <1>1, <1>3
  <2> QED
    BY <1>1, <1>3, <2>1, <2>2, <2>3, SetBoundsSound
<1>6. /\ g \in Frame /\ g.node = s /\ g.o = 0 /\ ~g.flag
      /\ g.action = MaxUBAction(T, s)
  BY <1>3 DEF Frame
<1> HIDE DEF g
<1>7. /\ n \in Nat /\ frames' \in Seq(Frame) /\ Len(frames') = n + 1
      /\ DOMAIN frames' = 1 .. n + 1 /\ frames' # <<>>
      /\ frames'[n + 1] = g /\ \A k \in 1 .. n : frames'[k] = frames[k]
  <2>1. frames \in Seq(Frame)
    BY TrialFacts
  <2> QED
    BY <1>1, <1>6, <2>1, AppendKeeps
<1>8. /\ nodeStack' \in Seq(Node)
      /\ ToSet(nodeStack)' = ToSet(nodeStack) \cup {s}
      /\ Len(nodeStack) \in Nat
      /\ DOMAIN nodeStack = 1 .. Len(nodeStack)
      /\ DOMAIN nodeStack' = 1 .. Len(nodeStack) + 1
      /\ nodeStack'[Len(nodeStack) + 1] = s
      /\ \A i \in 1 .. Len(nodeStack) : nodeStack'[i] = nodeStack[i]
  <2>1. nodeStack \in Seq(Node)
    BY TrialFacts
  <2>2. ToSet(Append(nodeStack, s)) = ToSet(nodeStack) \cup {s}
    BY <2>1, PushProperties
  <2> QED
    BY <1>1, <2>1, <2>2, AppendKeeps
<1>9. /\ idx' \in [Node -> Nat] /\ low' \in [Node -> Nat]
      /\ idx'[s] = index /\ low'[s] = index
      /\ \A m \in Node \ {s} : idx'[m] = idx[m] /\ low'[m] = low[m]
  BY <1>1, <1>2, TrialFacts
<1>10. \A m \in ToSet(nodeStack) :
          /\ m \in Node /\ m # s /\ m \in visited /\ m \in bp.lookup
          /\ idx'[m] = idx[m] /\ low'[m] = low[m] /\ idx[m] < index
  BY <1>2, <1>9, TrialFacts DEF IInv, Numbered
<1>11. \A k \in 1 .. n :
          /\ frames'[k] = frames[k] /\ frames[k].node \in ToSet(nodeStack)
          /\ frames[k].node \in Node
          /\ k < n => frames'[k + 1] = frames[k + 1]
                      /\ frames[k + 1].node \in ToSet(nodeStack)
          /\ k = n => frames'[k + 1].node = s
  <2>1. ASSUME NEW k \in 1 .. n PROVE k < n => k + 1 \in 1 .. n
    BY <1>7
  <2> QED
    BY <1>6, <1>7, <2>1, TrialFacts
<1>12. TypeOK'
  BY <1>1, <1>2, <1>3, <1>5, <1>7, <1>8, <1>9, TrialFacts DEF IInv, TypeOK, Location
<1>13. StackDiscipline'
  <2>1. ASSUME NEW i \in DOMAIN nodeStack', NEW j \in DOMAIN nodeStack', i < j
        PROVE  idx'[nodeStack'[i]] < idx'[nodeStack'[j]]
    <3>1. i \in 1 .. Len(nodeStack) /\ i \in DOMAIN nodeStack /\ i \in Nat
      BY <1>8, <2>1
    <3>2. nodeStack'[i] = nodeStack[i] /\ nodeStack[i] \in ToSet(nodeStack)
      BY <1>8, <3>1 DEF ToSet
    <3>3. CASE j = Len(nodeStack) + 1
      BY <1>8, <1>9, <1>10, <3>2, <3>3
    <3>4. CASE j # Len(nodeStack) + 1
      <4>1. j \in 1 .. Len(nodeStack) /\ j \in DOMAIN nodeStack
        BY <1>8, <2>1, <3>4
      <4>2. nodeStack'[j] = nodeStack[j] /\ nodeStack[j] \in ToSet(nodeStack)
        BY <1>8, <4>1 DEF ToSet
      <4>3. idx[nodeStack[i]] < idx[nodeStack[j]]
        BY <2>1, <3>1, <4>1 DEF IInv, StackDiscipline
      <4> QED
        BY <1>10, <3>2, <4>2, <4>3
    <3> QED
      BY <3>3, <3>4
  <2>2. \A k \in DOMAIN frames' : k \in 1 .. n \/ k = n + 1
    BY <1>7
  <2>3. \A k \in DOMAIN frames' : frames'[k].node \in ToSet(nodeStack)'
    BY <1>6, <1>7, <1>8, <1>11, <2>2
  <2>4. ASSUME NEW i \in DOMAIN frames', NEW j \in DOMAIN frames', i < j
        PROVE  idx'[frames'[i].node] < idx'[frames'[j].node]
    <3>1. i \in 1 .. n /\ i \in DOMAIN frames
      BY <1>7, <2>4, TrialFacts
    <3>2. CASE j = n + 1
      <4>1. frames'[j].node = s /\ idx'[frames'[j].node] = index
        BY <1>6, <1>7, <1>9, <3>2
      <4>2. idx'[frames'[i].node] < index
        BY <1>10, <1>11, <3>1
      <4> QED
        BY <4>1, <4>2
    <3>3. CASE j \in 1 .. n
      <4>1. idx[frames[i].node] < idx[frames[j].node]
        BY <2>4, <3>1, <3>3, TrialFacts DEF IInv, StackDiscipline
      <4> QED
        BY <1>10, <1>11, <3>1, <3>3, <4>1
    <3> QED
      BY <2>2, <3>2, <3>3
  <2>5. TrialStartsClean'
    BY <1>1 DEF TrialStartsClean
  <2> QED
    BY <2>1, <2>3, <2>4, <2>5 DEF StackDiscipline
<1>14. Numbered'
  <2>1. \A m \in Node : idx'[m] # PlusInfinity <=> m \in visited'
    BY <1>1, <1>2, <1>9 DEF IInv, Numbered
  <2>2. \A m \in visited' : idx'[m] < index'
    <3>1. idx'[s] < index + 1
      BY <1>2, <1>9
    <3>2. ASSUME NEW m \in visited PROVE idx'[m] < index + 1
      <4>1. m \in Node /\ m # s /\ idx[m] < index /\ idx[m] \in Nat
        BY <1>2, TrialFacts DEF IInv, Numbered
      <4>2. idx'[m] = idx[m]
        BY <1>9, <4>1
      <4> QED
        BY <1>2, <4>1, <4>2
    <3> QED
      BY <1>1, <3>1, <3>2
  <2>3. visited' \subseteq ToSet(nodeStack)' \cup solved'
    BY <1>1, <1>5, <1>8 DEF IInv, Numbered
  <2>4. ToSet(nodeStack)' \subseteq visited' \cap bp'.lookup
    BY <1>1, <1>2, <1>3, <1>5, <1>8 DEF IInv, Numbered
  <2>5. ToSet(nodeStack)' \cap solved' = {}
    <3>1. ToSet(nodeStack)' \subseteq bp.lookup
      BY <1>2, <1>8, TrialFacts
    <3>2. ToSet(nodeStack)' \cap solved = {}
      BY <1>1, <1>8 DEF IInv, Numbered
    <3> QED
      BY <1>5, <3>1, <3>2
  <2>6. index' = Cardinality(visited')
    <3>1. IsFiniteSet(visited)
      BY NodeCountAssumption, FS_Subset, TrialFacts
    <3>2. index = Cardinality(visited)
      BY <1>1 DEF IInv, Numbered
    <3> QED
      BY <1>1, <1>2, <3>1, <3>2, FS_AddElement
  <2> QED
    BY <2>1, <2>2, <2>3, <2>4, <2>5, <2>6 DEF Numbered
<1>15. CallChain'
  <2>1. ASSUME NEW k \in 1 .. n
        PROVE  /\ frames'[k].node \in bp'.expanded
               /\ low'[frames'[k].node] <= idx'[frames'[k].node]
               /\ k < n + 1 => Calls(frames'[k], frames'[k + 1].node)
    <3>1. /\ k \in DOMAIN frames /\ frames'[k] = frames[k]
          /\ frames[k].node \in ToSet(nodeStack)
      BY <1>11, TrialFacts
    <3>2. frames[k].node \in bp.expanded /\ low[frames[k].node] <= idx[frames[k].node]
      BY <3>1 DEF IInv, CallChain
    <3>3. CASE k < n
      <4>1. Calls(frames[k], frames[k + 1].node)
        BY <3>1, <3>3 DEF IInv, CallChain
      <4> QED
        BY <1>3, <1>5, <1>10, <1>11, <3>1, <3>2, <3>3, <4>1
    <3>4. CASE k = n
      <4>1. frames # <<>> /\ Last(frames) = frames[n]
        <5>1. frames \in Seq(Frame) /\ frames # <<>>
          BY <3>4, TrialFacts
        <5> QED
          BY <5>1, FrontProperties
      <4>2. Calls(frames[k], s) /\ frames'[k + 1].node = s
        BY <1>2, <1>11, <3>4, <4>1
      <4> QED
        BY <1>3, <1>5, <1>10, <3>1, <3>2, <4>2
    <3> QED
      BY <1>7, <3>3, <3>4
  <2>2. /\ frames'[n + 1].node \in bp'.expanded
        /\ low'[frames'[n + 1].node] <= idx'[frames'[n + 1].node]
    BY <1>2, <1>3, <1>5, <1>6, <1>7, <1>9
  <2>3. \A k \in DOMAIN frames' :
           /\ frames'[k].node \in bp'.expanded
           /\ low'[frames'[k].node] <= idx'[frames'[k].node]
           /\ k < Len(frames') => Calls(frames[k], frames[k + 1].node)'
    <3>1. \A k \in DOMAIN frames' : k \in 1 .. n \/ (k = n + 1 /\ ~(k < Len(frames')))
      BY <1>7
    <3>2. Len(frames') = n + 1
      BY <1>7
    <3> QED
      BY <1>1, <2>1, <2>2, <3>1, <3>2 DEF Calls
  <2> QED
    BY <1>1, <1>7, <2>3 DEF CallChain
<1>16. ASSUME NEW k \in 1 .. n + 1, Clean(k)' PROVE EnvelopeOf(k)'
  <2>1. CASE k = n + 1
    <3>1. ASSUME NEW y \in Node, Owns(k, y)' PROVE y = s
      <4>1. y \in ToSet(nodeStack)' /\ index <= idx'[y]
        BY <1>6, <1>7, <1>9, <2>1, <3>1 DEF Owns
      <4>2. y \in ToSet(nodeStack) => idx'[y] < index /\ idx'[y] \in Nat
        BY <1>9, <1>10
      <4> QED
        BY <1>2, <1>8, <4>1, <4>2
    <3>2. Settled(s)' /\ frames'[k].action = MaxUBAction(bp', s)
      <4>1. s \in bp'.expanded
        BY <1>3, <1>5
      <4> QED
        BY <1>1, <1>3, <1>4, <1>5, <1>6, <1>7, <2>1, <4>1 DEF Settled
    <3>3. Explored(k, s)' = {}
      <4>1. frames'[k].node = s /\ frames'[k].o = 0
        BY <1>6, <1>7, <2>1
      <4>2. \A o \in Outcome : ~(o < 0)
        BY DEF Outcome
      <4> QED
        BY <4>1, <4>2 DEF Explored, Edges
    <3> QED
      BY <3>1, <3>2, <3>3 DEF EnvelopeOf
  <2>2. CASE k \in 1 .. n
    <3>1. Clean(k)
      <4> SUFFICES ASSUME NEW j \in k .. n PROVE ~frames[j].flag
        BY DEF Clean
      <4>1. j \in 1 .. n /\ j \in k .. n + 1
        BY <1>7, <2>2
      <4>2. ~frames'[j].flag
        BY <1>7, <1>16, <4>1 DEF Clean
      <4> QED
        BY <1>11, <4>1, <4>2
    <3>2. EnvelopeOf(k)
      BY <2>2, <3>1, TrialFacts DEF IInv, Envelope
    <3>3. PICK x \in ToSet(nodeStack) : x = frames[k].node
      BY <1>11, <2>2
    <3>4. /\ frames'[k] = frames[k] /\ x \in Node /\ x # s
          /\ low'[x] = low[x] /\ idx'[x] = idx[x]
      BY <1>10, <1>11, <2>2, <3>3
    <3>5. ASSUME NEW y \in Node, Owns(k, y)' PROVE y # s /\ Owns(k, y)
      <4>1. /\ y \in ToSet(nodeStack)' /\ idx[x] <= idx'[y]
            /\ idx'[y] < idx'[frames'[k + 1].node]
        BY <1>7, <2>2, <3>3, <3>4, <3>5 DEF Owns
      <4>2. idx'[frames'[k + 1].node] \in Nat /\ idx'[frames'[k + 1].node] <= index
        <5>1. CASE k < n
          <6>1. frames'[k + 1] = frames[k + 1] /\ frames[k + 1].node \in ToSet(nodeStack)
            BY <1>11, <2>2, <5>1
          <6>2. PICK z \in ToSet(nodeStack) : z = frames[k + 1].node
            BY <6>1
          <6>3. z \in Node /\ idx'[z] = idx[z] /\ idx[z] < index
            BY <1>10
          <6>4. idx[z] \in Nat
            BY <6>3, TrialFacts
          <6> QED
            BY <1>2, <6>1, <6>2, <6>3, <6>4
        <5>2. CASE k = n
          <6>1. idx'[frames'[k + 1].node] = index
            BY <1>9, <1>11, <2>2, <5>2
          <6> QED
            BY <1>2, <6>1
        <5> QED
          BY <1>7, <2>2, <5>1, <5>2
      <4>3. y # s
        <5>1. ~(index < idx'[frames'[k + 1].node])
          BY <1>2, <4>2
        <5> QED
          BY <1>9, <4>1, <5>1
      <4>4. y \in ToSet(nodeStack) /\ idx'[y] = idx[y]
        BY <1>8, <1>9, <4>1, <4>3
      <4>5. k < n => idx[y] < idx[frames[k + 1].node]
        BY <1>10, <1>11, <2>2, <4>1, <4>4
      <4> QED
        BY <3>3, <4>1, <4>3, <4>4, <4>5 DEF Owns
    <3>6. ASSUME NEW y \in Node, Owns(k, y)'
          PROVE  /\ Settled(y)'
                 /\ y = x => frames[k].action = MaxUBAction(bp', y)
                 /\ \A o \in Explored(k, y)' : Accounted(x, y, o)'
      <4>1. y # s /\ Owns(k, y) /\ y \in ToSet(nodeStack)
        BY <3>5, <3>6 DEF Owns
      <4>2. /\ Settled(y)
            /\ y = x => frames[k].action = MaxUBAction(bp, y)
            /\ \A o \in Explored(k, y) : Accounted(x, y, o)
        BY <3>2, <3>3, <4>1 DEF EnvelopeOf
      <4>3. Settled(y)' /\ MaxUBAction(bp', y) = MaxUBAction(bp, y)
        <5>1. /\ y \in bp.expanded /\ y \in T.expanded /\ y \in bp.lookup
              /\ T.qub[y] = bp.qub[y] /\ T.ub[y] = bp.ub[y]
          BY <1>3, <1>10, <4>1, <4>2 DEF Settled
        <5>2. MaxUBAction(bp, y) \in Action
          <6>1. bp.qub[y] \in [Action -> Int]
            BY IInvFacts DEF BoundTable
          <6> QED
            BY <6>1, MaxActionProperties DEF MaxUBAction
        <5>3. \A m \in Successors(problem, y, MaxUBAction(bp, y)) : T.ub[m] = bp.ub[m]
          BY <1>3, <5>1, <5>2, IInvFacts DEF Linked
        <5> QED
          BY <1>1, <1>3, <1>5, <4>2, <5>1, <5>3, IInvFacts, SettledKept
      <4>4. ASSUME NEW o \in Explored(k, y)' PROVE Accounted(x, y, o)'
        <5>1. o \in Explored(k, y)
          BY <1>1, <3>4, <4>3, <4>4 DEF Explored
        <5> DEFINE z == problem.next[y][MaxUBAction(bp, y)][o]
        <5>2. z \in solved \/ (z \in ToSet(nodeStack) /\ low[x] <= idx[z])
          BY <4>2, <5>1 DEF Accounted
        <5> HIDE DEF z
        <5>3. z \in solved' \/ (z \in ToSet(nodeStack)' /\ low'[x] <= idx'[z])
          BY <1>5, <1>8, <1>10, <3>4, <5>2
        <5> QED
          BY <1>1, <4>3, <5>3 DEF Accounted, z
      <4> QED
        BY <4>2, <4>3, <4>4
    <3> QED
      BY <3>3, <3>4, <3>6 DEF EnvelopeOf, Accounted
  <2> QED
    BY <1>7, <2>1, <2>2
<1>17. Envelope'
  BY <1>7, <1>16 DEF Envelope
<1> QED
  BY <1>1, <1>3, <1>5, <1>12, <1>13, <1>14, <1>15, <1>17 DEF IInv

-----------------------------------------------------------------------------
\* The innermost call returns without having met a big residual: the call
\* below takes over the nodes it owned, with its number for them.
LEMMA FinishEnvelope ==
  ASSUME IInv, pc = "loop",
         ~InLoop(Last(frames)), ~Last(frames).flag,
         Return(Front(frames), Last(frames).node, FALSE, low),
         UNCHANGED <<problem, bp, idx>>,
         solved \subseteq solved',
         ToSet(nodeStack)' \subseteq ToSet(nodeStack),
         ToSet(nodeStack) \subseteq ToSet(nodeStack)' \cup solved'
  PROVE  Envelope'
<1> DEFINE f == Last(frames)
           calls == Front(frames)
           n == Len(frames)
           m == n - 1
<1>1. /\ n \in Nat \ {0} /\ n \in 1 .. n /\ f = frames[n] /\ f \in Frame
      /\ f.node \in Node /\ f.node \in ToSet(nodeStack) /\ low[f.node] <= idx[f.node]
      /\ calls \in Seq(Frame) /\ Len(calls) = m
      /\ \A k \in 1 .. m : calls[k] = frames[k]
      /\ calls # <<>> => /\ InLoop(Last(calls))
                         /\ m \in 1 .. m
                         /\ Calls(frames[m], f.node)
  BY LoopFacts
<1>2. PICK flag \in BOOLEAN : flag = FALSE
  OBVIOUS
<1>3. Return(calls, f.node, flag, low)
  BY <1>2
<1>4. PICK s \in Node : s = f.node
  BY <1>1
<1> HIDE DEF f, calls
<1>5. /\ Len(frames') = m /\ m \in Nat /\ DOMAIN frames' = 1 .. m
      /\ low' \in [Node -> Nat]
      /\ \A x \in Node : low'[x] <= low[x]
      /\ \A k \in 1 .. m : /\ frames'[k].node = frames[k].node
                           /\ frames'[k].action = frames[k].action
      /\ \A k \in 1 .. m - 1 : frames'[k] = frames[k]
      /\ calls = <<>> => frames' = <<>>
      /\ calls # <<>> => /\ frames'[m].o = frames[m].o + 1
                         /\ frames[m].flag => frames'[m].flag
                         /\ low'[frames[m].node] <= low[s]
  <2>1. low \in [Node -> Nat]
    BY TrialFacts
  <2>2. /\ Len(frames') = Len(calls) /\ Len(calls) \in Nat
        /\ DOMAIN frames' = 1 .. Len(calls)
        /\ low' \in [Node -> Nat]
        /\ \A x \in Node : low'[x] <= low[x]
        /\ \A k \in 1 .. Len(calls) : /\ frames'[k].node = calls[k].node
                                      /\ frames'[k].action = calls[k].action
        /\ \A k \in 1 .. Len(calls) - 1 : frames'[k] = calls[k]
        /\ calls = <<>> => frames' = <<>>
        /\ calls # <<>> => /\ frames'[Len(calls)].o = calls[Len(calls)].o + 1
                           /\ calls[Len(calls)].flag \/ flag => frames'[Len(calls)].flag
                           /\ low'[calls[Len(calls)].node] <= low[s]
    BY <1>1, <1>3, <1>4, <2>1, ReturnFacts
  <2>3. 1 .. m - 1 \subseteq 1 .. m
    BY <1>1
  <2> HIDE DEF m
  <2> QED
    BY <1>1, <2>2, <2>3
<1>6. \A k \in 1 .. m : /\ k \in 1 .. n /\ k + 1 \in 1 .. n /\ k < n
                        /\ k = m \/ (k \in 1 .. m - 1 /\ k + 1 \in 1 .. m)
  BY <1>1
<1>7. ~f.flag /\ ~(f.o < 2) /\ f.o \in 0 .. 2
  BY <1>1 DEF InLoop, f, Frame
<1> HIDE DEF m, n
<1> SUFFICES ASSUME NEW k \in 1 .. m, Clean(k)' PROVE EnvelopeOf(k)'
  BY <1>5 DEF Envelope
<1>8. calls # <<>>
  BY <1>5, <1>6
<1>9. \A j \in k .. m : ~frames[j].flag
  <2> SUFFICES ASSUME NEW j \in k .. m PROVE ~frames[j].flag
    OBVIOUS
  <2>1. j \in 1 .. m
    BY <1>5
  <2>2. ~frames'[j].flag
    BY <1>5 DEF Clean
  <2> QED
    BY <1>5, <1>6, <1>8, <2>1, <2>2
<1>10. Clean(k) /\ Clean(n)
  <2>1. \A j \in k .. n : j \in k .. m \/ j = n
    BY <1>1, <1>5 DEF m
  <2>2. \A j \in n .. n : j = n
    BY <1>1
  <2> QED
    BY <1>1, <1>7, <1>9, <2>1, <2>2 DEF Clean, n
<1>11. EnvelopeOf(k) /\ EnvelopeOf(n)
  BY <1>1, <1>6, <1>10, TrialFacts DEF IInv, Envelope, n
<1>12. PICK x \in Node : x = frames[k].node /\ frames'[k].node = x
  BY <1>5, <1>6, TrialFacts DEF n
<1>13. idx[x] < idx[s]
  BY <1>1, <1>4, <1>6, <1>12, TrialFacts DEF IInv, StackDiscipline, n
<1>14. ASSUME NEW y \in Node, Owns(k, y)'
       PROVE  Owns(k, y) \/ (k = m /\ Owns(n, y))
  <2>1. y \in ToSet(nodeStack) /\ idx[x] <= idx[y] /\ idx[y] \in Nat
    BY <1>12, <1>14, TrialFacts DEF Owns
  <2>2. CASE k \in 1 .. m - 1
    <3>1. k < m /\ k + 1 \in 1 .. m
      BY <1>5, <1>6, <2>2
    <3>2. idx[y] < idx[frames[k + 1].node]
      BY <1>5, <1>14, <3>1 DEF Owns
    <3> QED
      BY <1>12, <2>1, <3>2 DEF Owns
  <2>3. CASE k = m
    <3>1. frames[k + 1].node = s /\ k + 1 = n /\ n = Len(frames) /\ frames[n].node = s
      BY <1>1, <1>4, <2>3 DEF m, n
    <3>2. idx[s] \in Nat
      BY TrialFacts
    <3>3. CASE idx[y] < idx[s]
      BY <1>12, <2>1, <3>1, <3>3 DEF Owns
    <3>4. CASE idx[s] <= idx[y]
      <4>1. ~(n < Len(frames))
        BY <1>1, <3>1
      <4> QED
        BY <2>1, <2>3, <3>1, <3>4, <4>1 DEF Owns
    <3> QED
      BY <2>1, <3>2, <3>3, <3>4
  <2> QED
    BY <1>6, <2>2, <2>3
<1>15. ASSUME NEW y \in Node, NEW z \in Node, NEW o, Accounted(z, y, o),
              z = x \/ (k = m /\ z = s)
       PROVE  Accounted(x, y, o)'
  <2>1. low'[x] <= low[z]
    BY <1>5, <1>8, <1>12, <1>15
  <2> QED
    BY <1>5, <1>15, <2>1, AccountedKept
<1>16. ASSUME NEW y \in Node, Owns(k, y)'
       PROVE  /\ Settled(y)'
              /\ y = x => frames[k].action = MaxUBAction(bp, y)
              /\ \A o \in Explored(k, y)' : Accounted(x, y, o)'
  <2>1. CASE Owns(k, y)
    <3>1. /\ Settled(y)
          /\ y = x => frames[k].action = MaxUBAction(bp, y)
          /\ \A o \in Explored(k, y) : Accounted(x, y, o)
      BY <1>11, <1>12, <2>1 DEF EnvelopeOf
    <3>2. Settled(y)'
      BY <3>1 DEF Settled
    <3>3. ASSUME NEW o \in Outcome, o \in Explored(k, y)' PROVE Accounted(x, y, o)'
      <4>1. CASE o \in Explored(k, y)
        BY <1>15, <3>1, <4>1
      <4>2. CASE o \notin Explored(k, y)
        <5>1. /\ o \in Edges(problem, y, MaxUBAction(bp, y))
              /\ y = x => o < frames'[k].o
          BY <1>12, <3>3 DEF Explored
        <5>2. y = x /\ ~(o < frames[k].o)
          BY <1>12, <4>2, <5>1 DEF Explored
        <5>3. k = m
          BY <1>5, <1>6, <5>1, <5>2
        <5>4. o = frames[k].o
          <6>1. frames[k].o \in 0 .. 2 /\ frames'[k].o = frames[k].o + 1
            BY <1>5, <1>6, <1>8, <5>3, TrialFacts DEF n
          <6> QED
            BY <5>1, <5>2, <6>1 DEF Outcome
        <5>5. s = problem.next[y][MaxUBAction(bp, y)][o]
          BY <1>1, <1>4, <1>8, <1>12, <3>1, <5>2, <5>3, <5>4 DEF Calls
        <5>6. s \in ToSet(nodeStack) /\ low[s] <= idx[s]
          BY <1>1, <1>4
        <5>7. Accounted(s, y, o)
          BY <5>5, <5>6 DEF Accounted
        <5> QED
          BY <1>15, <5>3, <5>7
      <4> QED
        BY <4>1, <4>2
    <3>4. Explored(k, y)' \subseteq Outcome
      BY DEF Explored, Edges
    <3> QED
      BY <3>1, <3>2, <3>3, <3>4
  <2>2. CASE k = m /\ Owns(n, y)
    <3>1. /\ Settled(y)
          /\ \A o \in Explored(n, y) : Accounted(s, y, o)
      BY <1>1, <1>4, <1>11, <2>2 DEF EnvelopeOf
    <3>2. Settled(y)'
      BY <3>1 DEF Settled
    <3>3. y # x
      <4>1. idx[s] <= idx[y] /\ idx[s] \in Nat /\ idx[x] \in Nat /\ idx[y] \in Nat
        BY <1>1, <1>4, <2>2, TrialFacts DEF Owns
      <4> QED
        BY <1>13, <4>1
    <3>4. Explored(n, y) = Edges(problem, y, MaxUBAction(bp, y))
      <4>1. \A o \in Outcome : o < f.o
        BY <1>7 DEF Outcome
      <4> QED
        BY <1>1, <4>1 DEF Explored, Edges
    <3>5. ASSUME NEW o \in Explored(k, y)' PROVE Accounted(x, y, o)'
      <4>1. o \in Edges(problem, y, MaxUBAction(bp, y))
        BY <3>5 DEF Explored
      <4>2. Accounted(s, y, o)
        BY <3>1, <3>4, <4>1
      <4> QED
        BY <1>15, <2>2, <4>2
    <3> QED
      BY <3>2, <3>3, <3>5
  <2> QED
    BY <1>14, <1>16, <2>1, <2>2
<1> QED
  BY <1>5, <1>12, <1>16 DEF EnvelopeOf, Accounted

-----------------------------------------------------------------------------
\* The stack is in the order of the numbers, so the component of s is what is
\* on the stack with the number of s or a higher one.
LEMMA ComponentFacts ==
  ASSUME IInv, NEW s \in ToSet(nodeStack)
  PROVE  LET rest == SubSeq(nodeStack, 1, Len(nodeStack) - Len(Component(s)))
         IN  /\ rest \in Seq(Node)
             /\ ToSet(rest) = {y \in ToSet(nodeStack) : idx[y] < idx[s]}
             /\ ToSet(Component(s)) = {y \in ToSet(nodeStack) : idx[s] <= idx[y]}
             /\ \A i, j \in DOMAIN rest : i < j => idx[rest[i]] < idx[rest[j]]
<1> DEFINE st == nodeStack
           n == Len(st)
           k == CHOOSE i \in DOMAIN nodeStack : nodeStack[i] = s
           c == SubSeq(st, k, n)
           r == SubSeq(st, 1, k - 1)
<1>1. /\ st \in Seq(Node) /\ n \in Nat /\ DOMAIN st = 1 .. n
      /\ st \in [1 .. n -> Node]
      /\ idx \in [Node -> Nat]
  BY TrialFacts
<1>2. \A i, j \in 1 .. n : i < j => idx[st[i]] < idx[st[j]]
  BY <1>1 DEF IInv, StackDiscipline
<1>3. k \in 1 .. n /\ st[k] = s
  BY <1>1 DEF ToSet
<1>4. ToSet(st) = {st[i] : i \in 1 .. n}
  BY <1>1 DEF ToSet
<1>5. Component(s) = c
  BY DEF Component
<1> HIDE DEF st, k
<1>6. /\ c \in Seq(Node) /\ Len(c) = n - k + 1 /\ DOMAIN c = 1 .. n - k + 1
      /\ \A i \in 1 .. n - k + 1 : c[i] = st[k + i - 1]
  BY <1>1, <1>3
<1>7. /\ r \in Seq(Node) /\ Len(r) = k - 1 /\ DOMAIN r = 1 .. k - 1
      /\ \A i \in 1 .. k - 1 : r[i] = st[i]
  BY <1>1, <1>3
<1>8. SubSeq(st, 1, n - Len(c)) = r
  BY <1>1, <1>3, <1>6
<1> HIDE DEF c, r, n
<1>9. ToSet(c) = {st[i] : i \in k .. n}
  <2>1. ASSUME NEW i \in 1 .. n - k + 1 PROVE k + i - 1 \in k .. n
    BY <1>1, <1>3
  <2>2. ASSUME NEW i \in k .. n
        PROVE  i - k + 1 \in 1 .. n - k + 1 /\ k + (i - k + 1) - 1 = i
    BY <1>1, <1>3
  <2>3. \A i \in k .. n : c[i - k + 1] = st[i]
    BY <1>6, <2>2
  <2> QED
    BY <1>6, <2>1, <2>2, <2>3 DEF ToSet
<1>10. ToSet(r) = {st[i] : i \in 1 .. k - 1}
  BY <1>7 DEF ToSet
<1>11. ASSUME NEW i \in 1 .. n
       PROVE  /\ i \in 1 .. k - 1 <=> idx[st[i]] < idx[s]
              /\ i \in k .. n <=> idx[s] <= idx[st[i]]
  <2>1. idx[st[i]] \in Nat /\ idx[st[k]] \in Nat
    BY <1>1, <1>3
  <2>2. i < k => idx[st[i]] < idx[st[k]]
    BY <1>2, <1>3
  <2>3. k < i => idx[st[k]] < idx[st[i]]
    BY <1>2, <1>3
  <2>4. i < k \/ i = k \/ k < i
    BY <1>1, <1>3
  <2> QED
    BY <1>1, <1>3, <2>1, <2>2, <2>3, <2>4
<1>12. 1 .. k - 1 \subseteq 1 .. n /\ k .. n \subseteq 1 .. n
  BY <1>1, <1>3
<1>13. ToSet(r) = {y \in ToSet(st) : idx[y] < idx[s]}
  BY <1>4, <1>10, <1>11, <1>12
<1>14. ToSet(c) = {y \in ToSet(st) : idx[s] <= idx[y]}
  BY <1>4, <1>9, <1>11, <1>12
<1>15. \A i, j \in DOMAIN r : i < j => idx[r[i]] < idx[r[j]]
  BY <1>2, <1>7, <1>12
<1> QED
  BY <1>5, <1>7, <1>8, <1>13, <1>14, <1>15 DEF st, n

\* The innermost call returns and labels its component: what it has seen leads
\* to labels, or to what is on the stack above its node, which is labelled too.
LEMMA FinishLabelIInv == IInv /\ FinishLabel => IInv'
<1> SUFFICES ASSUME IInv, FinishLabel PROVE IInv'
  OBVIOUS
<1> DEFINE f == Last(frames)
           n == Len(frames)
<1>1. /\ pc = "loop" /\ ~InLoop(f) /\ ~f.flag /\ IsComponentRoot(f.node)
      /\ solved' = solved \cup ToSet(Component(f.node))
      /\ nodeStack' = SubSeq(nodeStack, 1, Len(nodeStack) - Len(Component(f.node)))
      /\ Return(Front(frames), f.node, FALSE, low)
      /\ UNCHANGED <<problem, bp, idx, index, visited, callee>>
  BY DEF FinishLabel
<1>2. /\ n \in 1 .. n /\ n \in Nat \ {0} /\ f = frames[n] /\ f \in Frame
      /\ f.node \in Node /\ f.node \in ToSet(nodeStack)
      /\ Front(frames) \in Seq(Frame) /\ Len(Front(frames)) = n - 1
      /\ \A k \in 1 .. n - 1 : Front(frames)[k] = frames[k]
      /\ Front(frames) # <<>> => InLoop(Last(Front(frames)))
  BY <1>1, LoopFacts
<1>3. PICK s \in ToSet(nodeStack) : s = f.node
  BY <1>2
<1> DEFINE C == ToSet(Component(s))
<1>4. /\ nodeStack' \in Seq(Node)
      /\ ToSet(nodeStack)' = {y \in ToSet(nodeStack) : idx[y] < idx[s]}
      /\ C = {y \in ToSet(nodeStack) : idx[s] <= idx[y]}
      /\ \A i, j \in DOMAIN nodeStack' : i < j => idx[nodeStack'[i]] < idx[nodeStack'[j]]
      /\ solved' = solved \cup C
  BY <1>1, <1>3, ComponentFacts
<1>5. low[s] = idx[s]
  BY <1>1, <1>3 DEF IsComponentRoot
<1> HIDE DEF f, n, C
<1>6. /\ idx \in [Node -> Nat] /\ ToSet(nodeStack) \subseteq Node
      /\ ToSet(nodeStack) \subseteq bp.lookup
  BY TrialFacts
<1>7. \A y \in ToSet(nodeStack) : y \in C \/ y \in ToSet(nodeStack)'
  BY <1>4, <1>6
<1>8. C \subseteq ToSet(nodeStack) /\ C \cap ToSet(nodeStack)' = {}
  BY <1>4, <1>6
<1>9. /\ frames' \in Seq(Frame) /\ low' \in [Node -> Nat]
      /\ pc' \in {"loop", "endTrial"}
      /\ StackDiscipline' /\ CallChain'
  <2>1. \A k \in 1 .. n - 1 : frames[k].node \in ToSet(nodeStack)'
    <3> SUFFICES ASSUME NEW k \in 1 .. n - 1 PROVE frames[k].node \in ToSet(nodeStack)'
      OBVIOUS
    <3>1. k \in DOMAIN frames /\ n \in DOMAIN frames /\ k < n
      BY <1>2, TrialFacts DEF n
    <3>2. idx[frames[k].node] < idx[s] /\ frames[k].node \in ToSet(nodeStack)
      BY <1>2, <1>3, <3>1 DEF IInv, StackDiscipline
    <3> QED
      BY <1>4, <3>2
  <2>2. PICK flag \in BOOLEAN : flag = FALSE
    OBVIOUS
  <2>3. Return(Front(frames), s, flag, low) /\ s \in Node
    BY <1>1, <1>3, <1>6, <2>2
  <2>4. n - 1 <= Len(frames)
    BY <1>2 DEF n
  <2> QED
    BY <1>1, <1>2, <1>4, <2>1, <2>3, <2>4, ReturnKeepsChain
<1>10. Envelope'
  <2>1. /\ Return(Front(frames), Last(frames).node, FALSE, low)
        /\ ~InLoop(Last(frames)) /\ ~Last(frames).flag
    BY <1>1 DEF f
  <2>2. /\ ToSet(nodeStack)' \subseteq ToSet(nodeStack) /\ solved \subseteq solved'
        /\ ToSet(nodeStack) \subseteq ToSet(nodeStack)' \cup solved'
    BY <1>4, <1>7
  <2> QED
    BY <1>1, <2>1, <2>2, FinishEnvelope
<1>11. TypeOK'
  BY <1>1, <1>4, <1>6, <1>8, <1>9 DEF IInv, TypeOK, Location
<1>12. Numbered'
  <2>1. ToSet(nodeStack)' \cap solved' = {}
    BY <1>4, <1>8 DEF IInv, Numbered
  <2>2. visited \subseteq ToSet(nodeStack)' \cup solved'
    BY <1>4, <1>7 DEF IInv, Numbered
  <2> QED
    BY <1>1, <1>4, <1>9, <2>1, <2>2 DEF IInv, Numbered
<1>13. SolvedSound'
  <2>1. EnvelopeOf(n)
    <3>1. \A j \in n .. Len(frames) : j = n
      BY <1>2 DEF n
    <3>2. Clean(n)
      BY <1>1, <1>2, <3>1 DEF Clean
    <3> QED
      BY <1>2, <3>2, TrialFacts DEF IInv, Envelope, n
  <2>2. ASSUME NEW y \in C
        PROVE  Settled(y) /\ Successors(problem, y, MaxUBAction(bp, y)) \subseteq solved'
    <3>1. y \in Node /\ y \in ToSet(nodeStack) /\ idx[s] <= idx[y]
      BY <1>4, <1>6, <2>2
    <3>2. Owns(n, y)
      <4>1. ~(n < Len(frames))
        BY <1>2 DEF n
      <4> QED
        BY <1>2, <1>3, <3>1, <4>1 DEF Owns
    <3>3. Settled(y) /\ \A o \in Explored(n, y) : Accounted(s, y, o)
      BY <1>2, <1>3, <2>1, <3>1, <3>2 DEF EnvelopeOf
    <3>4. Explored(n, y) = Edges(problem, y, MaxUBAction(bp, y))
      <4>1. f.o \in 0 .. 2 /\ ~(f.o < 2)
        BY <1>1, <1>2 DEF Frame, InLoop
      <4>2. \A o \in Outcome : o < f.o
        BY <4>1 DEF Outcome
      <4> QED
        BY <1>2, <4>2 DEF Explored, Edges
    <3>5. ASSUME NEW z \in Successors(problem, y, MaxUBAction(bp, y))
          PROVE  z \in solved'
      <4>1. PICK o \in Edges(problem, y, MaxUBAction(bp, y)) :
              z = problem.next[y][MaxUBAction(bp, y)][o]
        BY DEF Successors
      <4>2. z \in solved \/ (z \in ToSet(nodeStack) /\ idx[s] <= idx[z])
        BY <1>5, <3>3, <3>4, <4>1 DEF Accounted
      <4> QED
        BY <1>4, <4>2
    <3> QED
      BY <3>3, <3>5
  <2>3. ASSUME NEW y \in solved
        PROVE  problem.terminal[y] \/ Converged(y)'
    <3>1. problem.terminal[y] \/ Converged(y)
      BY DEF IInv, SolvedSound
    <3>2. solved \subseteq solved' /\ UNCHANGED <<problem, bp>>
      BY <1>1, <1>4
    <3> QED
      BY <3>1, <3>2 DEF Converged, Settled, Residual
  <2>4. ASSUME NEW y \in C PROVE Converged(y)'
    BY <1>1, <2>2 DEF Converged, Settled, Residual
  <2> QED
    BY <1>1, <1>4, <2>3, <2>4 DEF SolvedSound
<1>14. Linked(problem, bp)' /\ (solved \subseteq bp.lookup)'
  BY <1>1, <1>4, <1>6, <1>8, IInvFacts DEF Linked
<1> QED
  BY <1>9, <1>10, <1>11, <1>12, <1>13, <1>14 DEF IInv

LEMMA FinishInsideIInv == IInv /\ FinishInside => IInv'
<1> SUFFICES ASSUME IInv, FinishInside PROVE IInv'
  OBVIOUS
<1> DEFINE f == Last(frames)
           n == Len(frames)
<1>1. /\ pc = "loop" /\ ~InLoop(f) /\ ~f.flag
      /\ Return(Front(frames), f.node, FALSE, low)
      /\ UNCHANGED <<problem, bp, solved, idx, index, nodeStack, visited, callee>>
  BY DEF FinishInside
<1>2. /\ n \in Nat \ {0} /\ f.node \in Node
      /\ Front(frames) \in Seq(Frame) /\ Len(Front(frames)) = n - 1
      /\ \A k \in 1 .. n - 1 : Front(frames)[k] = frames[k]
      /\ Front(frames) # <<>> => InLoop(Last(Front(frames)))
  BY <1>1, LoopFacts
<1>3. /\ frames' \in Seq(Frame) /\ low' \in [Node -> Nat]
      /\ pc' \in {"loop", "endTrial"}
      /\ StackDiscipline' /\ CallChain'
  <2>1. \A k \in 1 .. n - 1 : frames[k].node \in ToSet(nodeStack)'
    <3>1. \A k \in 1 .. n - 1 : k \in 1 .. Len(frames)
      BY <1>2 DEF n
    <3> QED
      BY <1>1, <3>1, TrialFacts
  <2>2. \A i, j \in DOMAIN nodeStack' : i < j => idx[nodeStack'[i]] < idx[nodeStack'[j]]
    BY <1>1 DEF IInv, StackDiscipline
  <2>3. PICK flag \in BOOLEAN : flag = FALSE
    OBVIOUS
  <2>4. PICK s \in Node : s = f.node
    BY <1>2
  <2>5. Return(Front(frames), s, flag, low)
    BY <1>1, <2>3, <2>4
  <2>6. n - 1 <= Len(frames)
    BY <1>2 DEF n
  <2> HIDE DEF f, n
  <2> QED
    BY <1>1, <1>2, <2>1, <2>2, <2>5, <2>6, ReturnKeepsChain
<1>4. Envelope'
  BY <1>1, FinishEnvelope
<1>5. TypeOK'
  BY <1>1, <1>3 DEF IInv, TypeOK, Location
<1>6. Numbered'
  BY <1>1, <1>3 DEF IInv, Numbered
<1>7. SolvedSound'
  BY <1>1 DEF IInv, SolvedSound, Converged, Settled
<1> QED
  BY <1>1, <1>3, <1>4, <1>5, <1>6, <1>7 DEF IInv

\* A trial ends with no call left, and forgets every number it gave.
LEMMA EndTrialIInv == IInv /\ EndTrial => IInv'
<1> SUFFICES ASSUME IInv, EndTrial PROVE IInv'
  OBVIOUS
<1>1. /\ pc = "endTrial" /\ idx' = Forgotten /\ nodeStack' = <<>>
      /\ visited' = {} /\ pc' = "planFixedTime"
      /\ UNCHANGED <<problem, bp, solved, low, index, callee, frames>>
  BY DEF EndTrial
<1>2. idx \in [Node -> Nat] /\ frames = <<>>
  BY <1>1, TrialFacts DEF IInv, CallChain
<1>3. \A n \in Node : idx'[n] = PlusInfinity
  BY <1>1 DEF Forgotten, IInv, Numbered
<1>4. idx' \in [Node -> Nat]
  BY <1>1, <1>2 DEF Forgotten, PlusInfinity
<1>5. TypeOK'
  BY <1>1, <1>4 DEF IInv, TypeOK, Location
<1>6. StackDiscipline'
  BY <1>1, <1>2, <1>3 DEF StackDiscipline, TrialStartsClean
<1>7. Numbered'
  BY <1>1, <1>3, EmptyStack DEF Numbered
<1>8. CallChain' /\ Envelope'
  BY <1>1, <1>2 DEF CallChain, Envelope
<1>9. SolvedSound'
  BY <1>1 DEF IInv, SolvedSound, Converged, Settled
<1> QED
  BY <1>1, <1>5, <1>6, <1>7, <1>8, <1>9 DEF IInv

LEMMA NextIInv == IInv /\ [Next]_vars => IInv'
<1> SUFFICES ASSUME IInv, [Next]_vars PROVE IInv'
  OBVIOUS
<1>1. CASE UNCHANGED vars
  <2>1. TypeOK' /\ StackDiscipline' /\ Numbered' /\ CallChain'
    BY <1>1 DEF vars, IInv, TypeOK, StackDiscipline, TrialStartsClean, Numbered,
                CallChain, Calls
  <2>2. Envelope'
    BY <1>1 DEF vars, IInv, Envelope, Clean, EnvelopeOf, Owns, Settled, Explored,
                Accounted
  <2>3. SolvedSound'
    BY <1>1 DEF vars, IInv, SolvedSound, Converged, Settled
  <2> QED
    BY <1>1, <2>1, <2>2, <2>3 DEF vars, IInv
<1> QED
  BY <1>1, PlanFixedTimeIInv, CallSolvedIInv, CallBigResidualIInv, CallEnterIInv,
     LoopOutcomeIInv, FinishUpdateIInv, FinishLabelIInv, FinishInsideIInv,
     EndTrialIInv DEF Next

LEMMA Invariance == Spec => []IInv
<1> QED
  BY InitIInv, NextIInv, PTL DEF Spec

\* The variables keep their types.
THEOREM TypeCorrect == Spec => []TypeOK
<1>1. IInv => TypeOK
  BY DEF IInv
<1> QED
  BY <1>1, Invariance, PTL

\* Tarjan's indices are used correctly: what they make a component of has
\* converged and leads to labels, for good.
THEOREM LabelsSound == Spec => []SolvedSound
<1>1. IInv => SolvedSound
  BY DEF IInv
<1> QED
  BY <1>1, Invariance, PTL

\* The node of every call in progress is on the stack, in the order of calls
\* and of numbers, and a trial leaves nothing behind for the next.
THEOREM StackIsInOrder == Spec => []StackDiscipline
<1>1. IInv => StackDiscipline
  BY DEF IInv
<1> QED
  BY <1>1, Invariance, PTL

-----------------------------------------------------------------------------
LEMMA NextKeepsProblem == [Next]_vars => problem' = problem
BY DEF Next, vars, PlanFixedTime, CallSolved, CallBigResidual, CallEnter,
       LoopOutcome, FinishUpdate, FinishLabel, FinishInside, EndTrial

\* No step unlabels a solved node, moves its bound or touches its Q values.
LEMMA FrozenStep ==
  ASSUME IInv, [Next]_vars, NEW s \in solved
  PROVE  s \in solved' /\ bp'.ub[s] = bp.ub[s] /\ bp'.qub[s] = bp.qub[s]
<1>1. /\ problem \in Problem /\ bp \in BoundTable /\ Linked(problem, bp)
      /\ problem.initial \in Node /\ s \in bp.lookup /\ s \in Node
  BY IInvFacts
<1>2. CASE PlanFixedTime
  <2>1. {problem.initial} \in SUBSET Node
    BY <1>1
  <2>2. SetBounds(GetNodes(problem, bp, {problem.initial}))
    BY <1>2 DEF PlanFixedTime
  <2> QED
    BY <1>1, <2>1, <2>2, GetNodesProperties DEF SetBounds
<1>3. CASE CallBigResidual \/ CallEnter
  <2> DEFINE T == CacheQ(callee)
  <2>1. pc = "call" /\ callee \notin solved
    BY <1>3 DEF CallBigResidual, CallEnter
  <2>2. callee \in bp.lookup /\ callee \in Node
    BY <2>1, CallFacts
  <2>3. SetBounds(T) \/ SetBounds(TakeBestQ(T, callee))
    BY <1>3 DEF CallBigResidual, CallEnter
  <2>4. /\ T \in BoundTable
        /\ \A n \in Node \ {callee} : T.qub[n] = bp.qub[n]
        /\ \A n \in bp.lookup : T.ub[n] = bp.ub[n]
    BY <1>1, <2>2, CacheQProperties
  <2> HIDE DEF T
  <2>5. /\ TakeBestQ(T, callee).qub = T.qub
        /\ \A n \in Node \ {callee} : TakeBestQ(T, callee).ub[n] = T.ub[n]
    BY <2>4 DEF TakeBestQ, BoundTable
  <2>6. s # callee
    BY <2>1
  <2> QED
    BY <1>1, <2>3, <2>4, <2>5, <2>6 DEF SetBounds
<1>4. CASE FinishUpdate
  <2> DEFINE n == Last(frames).node
  <2>1. SetBounds(Update(problem, bp, n)) /\ pc = "loop"
    BY <1>4 DEF FinishUpdate
  <2>2. n \in bp.lookup /\ n \notin solved
    BY <2>1, LoopFacts
  <2> HIDE DEF n
  <2>3. /\ \A m \in Node \ {n} : Update(problem, bp, n).qub[m] = bp.qub[m]
        /\ \A m \in bp.lookup \ {n} : Update(problem, bp, n).ub[m] = bp.ub[m]
    BY <1>1, <2>2, TableAfterUpdate
  <2> QED
    BY <1>1, <2>1, <2>2, <2>3 DEF SetBounds
<1>5. CASE FinishLabel
  BY <1>5 DEF FinishLabel
<1>6. CASE UNCHANGED <<bp, solved>>
  BY <1>6
<1> QED
  BY <1>2, <1>3, <1>4, <1>5, <1>6
     DEF Next, vars, CallSolved, LoopOutcome, FinishInside, EndTrial

LEMMA InitContract == IInv /\ Init => Contract!Init
BY DEF Init, Contract!Init

\* A step of the solver is one of Labels: it labels the nodes that are new in
\* solved, or it does not concern labels.
LEMMA NextContract == IInv /\ IInv' /\ [Next]_vars => [Contract!Next]_(Contract!vars)
<1> SUFFICES ASSUME IInv, IInv', [Next]_vars PROVE Contract!Next
  OBVIOUS
<1>1. solved \subseteq Node /\ solved' \subseteq Node /\ problem' = problem
  BY NextKeepsProblem DEF IInv, TypeOK
<1>2. \A n \in solved' :
        ~problem.terminal[n] => /\ Settled(n)'
                                /\ Successors(problem, n, MaxUBAction(bp', n)) \subseteq solved'
  BY <1>1 DEF IInv, SolvedSound, Converged
<1>3. Contract!LeaveSolvedAlone
  <2>1. ASSUME NEW n \in solved
        PROVE  /\ n \in solved' /\ n \in Node
               /\ bp'.ub[n] = bp.ub[n]
               /\ MaxUBAction(bp', n) = MaxUBAction(bp, n)
    BY <1>1, FrozenStep DEF MaxUBAction
  <2> QED
    BY <1>1, <1>2, <2>1 DEF Contract!LeaveSolvedAlone
<1>4. CASE solved' = solved
  BY <1>3, <1>4 DEF Contract!Next, Contract!Search
<1>5. CASE solved' # solved
  <2> DEFINE S == solved' \ solved
  <2>1. S \in SUBSET (Node \ solved) /\ solved' = solved \cup S
    BY <1>1, FrozenStep
  <2>2. ASSUME NEW n \in S
        PROVE  /\ [m \in Node |-> problem'.terminal[m] \/ Settled(m)'][n]
               /\ [m \in Node |-> IF problem'.terminal[m] THEN {}
                                 ELSE Successors(problem', m, MaxUBAction(bp', m))][n]
                     \subseteq solved'
    BY <1>1, <1>2
  <2> HIDE DEF S
  <2>3. Contract!Label
    BY <1>3, <2>1, <2>2 DEF Contract!Label
  <2> QED
    BY <2>3 DEF Contract!Next
<1> QED
  BY <1>4, <1>5

\* HDP keeps the contract of a labelling search, as LRTDP does: updates on the
\* way back through the calls never reach a node with a label.
THEOREM LabelsAreFinal == Spec => ImplementsLabels
<1>1. Init => IInv /\ Contract!Init
  BY InitIInv, InitContract
<1> QED
  BY <1>1, Invariance, NextContract, PTL DEF Spec, ImplementsLabels, Contract!Spec
=============================================================================
