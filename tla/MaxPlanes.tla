------------------------------ MODULE MaxPlanes ------------------------------
(***************************************************************************)
(* The lower bound of a POMDP as the maximum of planes (alpha vectors):    *)
(* pomdpBounds/MaxPlanesLowerBound.cc, driven by updates of any of the     *)
(* nodes it was asked about, as a search strategy makes them in some order.*)
(*                                                                         *)
(* Planes are objects that nodes point to and that point back; pruning     *)
(* deletes them while it goes through their list.  A plane is therefore an *)
(* entry of the function plane, whose domain is what is allocated.  A node *)
(* is its belief, a vector of weights over states.                         *)
(***************************************************************************)
EXTENDS Pomdp

CONSTANTS
  Configs,         \* for each problem, the settings it is solved with
  Ceiling,         \* for each problem, see CeilingAssumption
  Leftovers,       \* the ages the first planes may have if nobody sets them
  PruneIncrement,  \* PRUNE_PLANES_INCREMENT; PRUNE_PLANES_FACTOR is 1.1
  MaxBackups       \* bound on the length of a run

\* useMaxPlanesMasking, useMaxPlanesSupportList, useMaxPlanesCache and
\* useMaxPlanesExtraPruning; zmdp.config says which require which.
Config ==
  {c \in [masking : BOOLEAN, supportList : BOOLEAN, cache : BOOLEAN, extraPruning : BOOLEAN] :
     (c.supportList => c.masking) /\ (c.extraPruning => c.cache)}

ASSUME MaxPlanesAssumption ==
         /\ Configs \in [Problems -> Config]
         /\ Leftovers \subseteq [1 .. NumActions -> Int]
         /\ PruneIncrement \in Nat /\ MaxBackups \in Nat

\* What the weights of belief b, for which one goes on with value[c] at the
\* next belief c, are worth after action a, times Den squared.
GoingOn(p, value, b, a) ==
  Total([o \in Observation |->
    LET c == p.next[b][a][o]
    IN  IF c = NoBelief THEN 0
        ELSE Pushed(b, p.trans, p.obs, a, o)[First(c)] * value[c]])

\* A value for each belief that no policy earns more than: it is as high as
\* what any action is worth, if one may go on with these values, and as what
\* it is worth to take the same action for ever.
ASSUME CeilingAssumption ==
         \A n \in Problems :
         LET p == Pomdps[n]
             c == Ceiling[n]
         IN  /\ c \in [Belief -> Int]
             /\ \A b \in p.reachable, a \in Action :
                  /\ Inner(p.blind[a], b) <= c[b]
                  /\ Den * Den * Den * Inner(p.reward[a], b)
                       + p.discount * GoingOn(p, c, b, a) <= Den * Den * Den * c[b]

VARIABLES
  problem,    \* the problem; never changes
  plane,      \* the planes that are allocated, by their identity
  planes,     \* the list of planes
  support,    \* supportList: for each state, the planes defined on it
  touched,    \* beliefs that have a node
  expanded,   \* nodes with Q entries
  lbVal,      \* of each node
  bestPlane,  \* of each node: the plane it points to
  lastSet,    \* of each node: lastSetPlaneNumBackups
  numBackups,
  lastPruneNumPlanes, lastPruneNumBackups,
  pc,         \* where the lower bound is
  node,       \* the node being updated
  file,       \* the lines of the policy file
  candidate, member  \* places in planes of the loops of prunePlanes

vars == <<problem, plane, planes, support, touched, expanded, lbVal, bestPlane,
          lastSet, numBackups, lastPruneNumPlanes, lastPruneNumBackups, pc,
          node, file, candidate, member>>

pomdp  == Pomdps[problem]
config == Configs[problem]

nodeVars  == <<touched, expanded, lbVal, lastSet>>
pruneVars == <<lastPruneNumPlanes, lastPruneNumBackups, candidate, member>>

PlaneId == Nat \ {0}

Plane ==
  [ alpha   : Vector,          \* 0 outside mask
    action  : Action,
    mask    : SUBSET State,    \* empty without masking
    created : Int,             \* numBackupsAtCreation
    back    : [Belief -> Nat] ]  \* how often each node is in backPointers

Location ==
  {"start",       \* no node yet
   "idle",        \* between updates
   "update",      \* node has its Q entries, and is about to get a new plane
   "prune",       \* in prunePlanes, called by update
   "finalPrune",  \* in prunePlanes, called by writePolicy
   "written",     \* the policy is written: the run is over
   "read"}        \* another program has read it, to execute it

Pruning == pc \in {"prune", "finalPrune"}

TypeOK ==
  /\ problem \in Problems
  /\ DOMAIN plane \subseteq PlaneId
  /\ plane \in [DOMAIN plane -> Plane]
  /\ planes \in Seq(DOMAIN plane)
  /\ DOMAIN support = State /\ \A i \in State : support[i] \in Seq(DOMAIN plane)
  /\ touched \subseteq Belief
  /\ expanded \subseteq touched
  /\ lbVal \in [Belief -> Int]
  /\ bestPlane \in [Belief -> PlaneId]
  /\ lastSet \in [Belief -> Nat]
  /\ numBackups \in 0 .. MaxBackups
  /\ lastPruneNumPlanes \in Nat
  /\ lastPruneNumBackups \in Nat \cup {-1}
  /\ pc \in Location
  /\ node \in Belief
  /\ Pruning => candidate \in 1 .. Len(planes) + 1 /\ member \in 0 .. candidate

-----------------------------------------------------------------------------
\* Planes and beliefs.

\* A plane may be used at beliefs within its mask.
Applicable(p, b) == config.masking => Support(b) \subseteq plane[p].mask

\* inner_prod(alpha, b), times the sum of the weights of b.
ValueAt(p, b) == Inner(plane[p].alpha, b)

\* The planes that are searched for belief b: its first state's list, or all.
PlanesToCheck(b) == IF config.supportList THEN support[First(b)] ELSE planes

\* The first plane of highest value at b in some places of a list.
BestOf(list, places, b) ==
  list[CHOOSE k \in places :
         \A j \in places :
           /\ ValueAt(list[j], b) <= ValueAt(list[k], b)
           /\ j < k => ValueAt(list[j], b) < ValueAt(list[k], b)]

BestPlane(b) ==
  LET list == PlanesToCheck(b)
  IN  BestOf(list, {k \in DOMAIN list : Applicable(list[k], b)}, b)

\* Mutant of IsOld: planes made in the backup that set the node's plane are
\* not looked at.
IsOldInclusive(p, b) == plane[p].created <= lastSet[b]

\* A plane the node's plane was already compared with.
IsOld(p, b) == plane[p].created < lastSet[b]

\* The best plane for a node; with the cache only what is newer than its own
\* plane is looked at: getPlaneForNode, getBestLBPlaneWithCache.
PlaneForNode(b) ==
  IF ~config.cache THEN BestPlane(b)
  ELSE LET list == <<bestPlane[b]>> \o PlanesToCheck(b)
       IN  BestOf(list, {k \in DOMAIN list :
                           \/ k = 1
                           \/ ~IsOld(list[k], b) /\ Applicable(list[k], b)}, b)

\* Mutant of Mask: a backup is used at every belief, as without masking.
MaskAll(b) == State

\* The states a backup at b is valid for.
Mask(b) == IF config.masking THEN Support(b) ELSE {}

\* What one may expect from state i after action a, if beta has the values of
\* what follows each observation, times Den squared.
Expected(a, beta, i) ==
  Total([o \in Observation |-> Total([j \in State |->
    pomdp.trans[a][i][j] * pomdp.obs[a][j][o] * beta[o][j]])])

\* The plane that backs up action a at node b, with masking on the states of b
\* only.  An observation that cannot be seen from b gets the plane of b, which
\* tells without masking.
BackedUp(b, a) ==
  LET after(o) == pomdp.next[b][a][o]
      choice == [o \in Observation |->
                 plane[PlaneForNode(IF after(o) = NoBelief THEN b ELSE after(o))].alpha]
      beta == Table(choice)
      alpha == [i \in State |->
                  IF config.masking => i \in Support(b)
                  THEN pomdp.reward[a][i]
                         + (pomdp.discount * Expected(a, beta, i)) \div (Den * Den * Den)
                  ELSE 0]
  IN  [ alpha   |-> Table(alpha),
        action  |-> a,
        mask    |-> Mask(b),
        created |-> numBackups,
        back    |-> [c \in Belief |-> 0] ]

\* getNewLBPlane: the plane of the first action whose plane is best at b.
NewPlane(b) ==
  LET betas == {BackedUp(b, a) : a \in Action}
      val(q) == Inner(q.alpha, b)
  IN  CHOOSE q \in betas :
        \A r \in betas : /\ val(r) <= val(q)
                         /\ r.action < q.action => val(r) < val(q)

\* Mutant of Dominates: the masks are not compared.
DominatesUnmasked(p, q) ==
  \A i \in State : plane[p].alpha[i] >= plane[q].alpha[i]

\* mask_dominates: entries outside a mask count as 0.  (Without masking all
\* masks are empty.)
Dominates(p, q) ==
  /\ plane[q].mask \subseteq plane[p].mask
  /\ \A i \in State : plane[p].alpha[i] >= plane[q].alpha[i]

-----------------------------------------------------------------------------
Init ==
  /\ problem \in Problems
  \* BlindLBInitializer: a plane on all states for each action; without the
  \* cache nobody sets its age
  /\ \E ages \in IF config.cache THEN {[p \in 1 .. NumActions |-> 0]} ELSE Leftovers :
       plane = [p \in 1 .. NumActions |->
                  [ alpha |-> pomdp.blind[p - 1], action |-> p - 1,
                    mask |-> IF config.masking THEN State ELSE {},
                    created |-> ages[p], back |-> [b \in Belief |-> 0] ]]
  /\ planes = [k \in 1 .. NumActions |-> k]
  /\ support = [i \in State |-> IF config.supportList THEN planes ELSE <<>>]
  /\ touched = {}
  /\ expanded = {}
  /\ lbVal = [b \in Belief |-> 0]
  /\ bestPlane = [b \in Belief |-> 1]
  /\ lastSet = [b \in Belief |-> 0]
  /\ numBackups = 0
  /\ lastPruneNumPlanes = 0
  /\ lastPruneNumBackups = -1
  /\ pc = "start"
  /\ node = pomdp.initial
  /\ file = <<>>
  /\ candidate = 1
  /\ member = 0

\* Nodes for the beliefs of B that have none: initNodeBound finds the best
\* plane for each, which the node points to if there is a cache.
Touch(B) ==
  LET new  == B \ touched
      best == Table([b \in new |-> BestPlane(b)])
      linked == IF config.cache THEN new ELSE {}
  IN  /\ touched' = touched \cup new
      /\ lbVal' = [b \in Belief |-> IF b \in new THEN ValueAt(best[b], b)
                                    ELSE lbVal[b]]
      /\ bestPlane' = [b \in Belief |-> IF b \in linked THEN best[b] ELSE bestPlane[b]]
      /\ lastSet' = [b \in Belief |-> IF b \in linked THEN numBackups ELSE lastSet[b]]
      /\ plane' = [p \in DOMAIN plane |->
                     [plane[p] EXCEPT !.back =
                        [b \in Belief |-> IF b \in linked /\ best[b] = p
                                          THEN @[b] + 1 ELSE @[b]]]]

\* getRootNode, on the first call of planFixedTime.
TouchRoot ==
  /\ pc = "start"
  /\ Touch({pomdp.initial})
  /\ pc' = "idle"
  /\ UNCHANGED <<problem, planes, support, expanded, numBackups, node, file, pruneVars>>

Terminal(b) == TerminalIn(pomdp, b)

Successors(b) == SuccessorsIn(pomdp, b)

\* A search strategy updates a node it has come to: BoundPair::update gives
\* it its Q entries first, and its successors nodes.
Update(b) ==
  /\ pc = "idle"
  /\ numBackups < MaxBackups
  /\ b \in touched /\ ~Terminal(b)
  /\ Touch(IF b \in expanded THEN {} ELSE Successors(b))
  /\ expanded' = expanded \cup {b}
  /\ node' = b
  /\ pc' = "update"
  /\ UNCHANGED <<problem, planes, support, numBackups, file, pruneVars>>

\* Mutant of Unlinked: the old plane keeps its pointer to the node.
UnlinkedNot(b) == plane

\* setPlaneForNode removes the node from its old plane's backPointers.
Unlinked(b) == [plane EXCEPT ![bestPlane[b]].back[b] = @ - 1]

\* maybePrune, with count planes in the list.
MaybePrune(count) ==
  /\ count > lastPruneNumPlanes + PruneIncrement
  /\ count > (11 * lastPruneNumPlanes) \div 10

\* MaxPlanesLowerBound::update: the node takes the new plane, with the cache
\* unless that is worse than the one it has; the plane is listed in any case.
AddPlane ==
  /\ pc = "update"
  /\ \E new \in {NewPlane(node)} :
       LET id    == NumActions + numBackups + 1
           value == Inner(new.alpha, node)
           taken == config.cache /\ value >= lbVal[node]
           rest  == IF taken THEN Unlinked(node) ELSE plane
       IN  /\ plane' = [p \in DOMAIN plane \cup {id} |->
                          IF p = id
                          THEN [new EXCEPT !.back[node] = IF taken THEN 1 ELSE 0]
                          ELSE rest[p]]
           /\ lbVal' = IF taken \/ ~config.cache THEN [lbVal EXCEPT ![node] = value]
                       ELSE lbVal
           /\ bestPlane' = IF taken THEN [bestPlane EXCEPT ![node] = id] ELSE bestPlane
           /\ lastSet' = IF taken THEN [lastSet EXCEPT ![node] = numBackups] ELSE lastSet
           /\ planes' = Append(planes, id)
           /\ support' = [i \in State |-> IF config.supportList /\ i \in new.mask
                                          THEN Append(support[i], id) ELSE support[i]]
           /\ candidate' = 1
           /\ member' = 0
           /\ IF MaybePrune(Len(planes'))
              THEN pc' = "prune" /\ numBackups' = numBackups
              ELSE pc' = "idle" /\ numBackups' = numBackups + 1
           /\ UNCHANGED <<problem, touched, expanded, lastPruneNumPlanes,
                          lastPruneNumBackups, node, file>>

\* writePolicy with canModifyBounds: prunePlanes whatever the number.
WritePolicy ==
  /\ pc = "idle"
  /\ candidate' = 1
  /\ member' = 0
  /\ pc' = "finalPrune"
  /\ UNCHANGED <<problem, plane, planes, support, nodeVars, bestPlane, numBackups,
                 lastPruneNumPlanes, lastPruneNumBackups, node, file>>

-----------------------------------------------------------------------------
\* The policy file, by the lines that are not skipped when it is read, as those
\* with braces, counts and comments are.
Line ==
  [kind : {"policyType"}] \cup [kind : {"action"}, action : Action]
    \cup [kind : {"entry"}, index : State, value : Int]

\* Mutant of Written: entries that are zero are not written, as in a sparse
\* vector.
WrittenNonZero(p) == {i \in State : (config.masking => i \in p.mask) /\ p.alpha[i] # 0}

\* The states whose entries are written: those within the mask, also if they
\* are zero.
Written(p) == IF config.masking THEN p.mask ELSE State

\* LBPlane::write, at the end of a file that has some lines.
WritePlane(lines, p) ==
  LET upTo[n \in 0 .. Max(State) + 1] ==
        IF n = 0 THEN Append(lines, [kind |-> "action", action |-> p.action])
        ELSE IF n - 1 \in Written(p)
        THEN Append(upTo[n-1], [kind |-> "entry", index |-> n - 1, value |-> p.alpha[n-1]])
        ELSE upTo[n-1]
  IN  upTo[Max(State) + 1]

\* writeToFile
PolicyFile ==
  LET upTo[k \in 0 .. Len(planes)] ==
        IF k = 0 THEN <<[kind |-> "policyType"]>>
        ELSE WritePlane(upTo[k-1], plane[planes[k]])
  IN  upTo[Len(planes)]

\* The list with addLBPlane for the plane that was read.  Its age is not set,
\* but nothing asks for it: who executes a policy does not prune or update.
Added(r) ==
  Append(r.list, [ alpha   |-> r.alpha,
                   action  |-> r.action,
                   mask    |-> r.mask,
                   created |-> 0,
                   back    |-> [b \in Belief |-> 0] ])

\* The list with the plane that is being read, where one is.
Completed(r) == IF r.parseState = 2 THEN Added(r) ELSE r.list

\* One line in readFromFile.  An action begins a plane and ends the one before.
ReadLine(r, line) ==
  CASE line.kind = "policyType" -> [r EXCEPT !.parseState = 1]
    [] line.kind = "action" ->
         [ parseState |-> 2, action |-> line.action, mask |-> {},
           alpha |-> [i \in State |-> 0], list |-> Completed(r) ]
    [] line.kind = "entry" ->
         [r EXCEPT !.alpha[line.index] = line.value, !.mask = @ \cup {line.index}]

ReadLines(lines) ==
  LET after[n \in 0 .. Len(lines)] ==
        IF n = 0 THEN [ parseState |-> 0, action |-> 0, mask |-> {},
                        alpha |-> [i \in State |-> 0], list |-> <<>> ]
        ELSE ReadLine(after[n-1], lines[n])
  IN  after[Len(lines)]

PlanesIn(lines) == Completed(ReadLines(lines))

\* supportList of state i, with the planes of a list.
SupportOf(list, i) ==
  LET upTo[k \in 0 .. Len(list)] ==
        IF k = 0 THEN <<>>
        ELSE IF config.supportList /\ i \in list[k].mask THEN Append(upTo[k-1], k)
        ELSE upTo[k-1]
  IN  upTo[Len(list)]

\* readFromFile, when a BoundPairExec is made in a program that has no nodes
\* (lbVal is still what the solver had).
ReadPolicy ==
  /\ pc = "written"
  /\ \E list \in {PlanesIn(file)} :
       /\ plane' = [k \in DOMAIN list |-> list[k]]
       /\ planes' = [k \in DOMAIN list |-> k]
       /\ support' = [i \in State |-> SupportOf(list, i)]
       /\ lastPruneNumPlanes' = Len(list)
  /\ lastPruneNumBackups' = -1
  /\ touched' = {} /\ expanded' = {}
  /\ bestPlane' = [b \in Belief |-> 1]
  /\ lastSet' = [b \in Belief |-> 0]
  /\ numBackups' = 0
  /\ pc' = "read"
  /\ UNCHANGED <<problem, lbVal, node, file, candidate, member>>

\* The lower bound of taking action a at b and going on with the planes, times
\* the weights of b and Den to the third power.
LookAhead(b, a) ==
  Den * Den * Den * MapThenSumSet(LAMBDA i : b[i] * pomdp.reward[a][i], State)
    + pomdp.discount *
      MapThenSumSet(LAMBDA o :
        IF pomdp.next[b][a][o] = NoBelief THEN 0
        ELSE Inner(plane[BestPlane(pomdp.next[b][a][o])].alpha,
                   Pushed(b, pomdp.trans, pomdp.obs, a, o)), Observation)

\* BoundPair::chooseAction: the first action whose look-ahead is best.
ChooseAction(b) ==
  Min({a \in Action : \A c \in Action : LookAhead(b, c) <= LookAhead(b, a)})

-----------------------------------------------------------------------------
\* prunePlanes, one pass of its loops per step.  The inner loop compares the
\* candidate with the members before it; member is 0 at the outer loop.

Delete(victim) ==
  support' = [i \in State |-> IF config.supportList /\ i \in plane[victim].mask
                              THEN RemoveFirst(support[i], victim)
                              ELSE support[i]]

\* deleteAndForward: nodes that point to the victim now point to the
\* dominator.
Forward(victim, dominator) ==
  LET back == plane[victim].back
  IN  /\ bestPlane' = [b \in Belief |-> IF back[b] > 0 THEN dominator
                                        ELSE bestPlane[b]]
      /\ plane' = [Restrict(plane, DOMAIN plane \ {victim}) EXCEPT
                     ![dominator].back = [b \in Belief |-> @[b] + back[b]]]

pruneUnchanged == <<problem, nodeVars, numBackups, lastPruneNumPlanes,
                    lastPruneNumBackups, pc, node, file>>

Unreferenced(p) == \A b \in Belief : plane[p].back[b] = 0

\* With extra pruning, a candidate no node points to is deleted.
DropUnreferenced ==
  /\ Pruning
  /\ config.extraPruning
  /\ candidate <= Len(planes)
  /\ member = 0
  /\ LET victim == planes[candidate]
     IN  /\ Unreferenced(victim)
         /\ Delete(victim)
         /\ plane' = Restrict(plane, DOMAIN plane \ {victim})
  /\ planes' = RemoveAt(planes, candidate)
  /\ UNCHANGED <<pruneUnchanged, bestPlane, candidate, member>>

EnterMembers ==
  /\ Pruning
  /\ candidate <= Len(planes)
  /\ member = 0
  /\ config.extraPruning => ~Unreferenced(planes[candidate])
  /\ member' = 1
  /\ UNCHANGED <<pruneUnchanged, plane, planes, support, bestPlane, candidate>>

\* Both planes were there when planes were last pruned, and were compared.
Compared(p, q) ==
  /\ plane[p].created <= lastPruneNumBackups
  /\ plane[q].created <= lastPruneNumBackups

InMembers == Pruning /\ member > 0 /\ member < candidate

\* Mutant of Following: memberP is not advanced past a pair that is kept.
FollowingNot(m) == m

Following(m) == m + 1

KeepBoth ==
  /\ InMembers
  /\ LET p == planes[candidate]
         q == planes[member]
     IN  Compared(p, q) \/ (~Dominates(p, q) /\ ~Dominates(q, p))
  /\ member' = Following(member)
  /\ UNCHANGED <<pruneUnchanged, plane, planes, support, bestPlane, candidate>>

DropMember ==
  /\ InMembers
  /\ LET p == planes[candidate]
         q == planes[member]
     IN  /\ ~Compared(p, q)
         /\ Dominates(p, q)
         /\ Delete(q)
         /\ Forward(q, p)
  /\ planes' = RemoveAt(planes, member)
  /\ candidate' = candidate - 1
  /\ UNCHANGED <<pruneUnchanged, member>>

\* The winning member moves to the front of the list.
Promoted(list, m) == <<list[m]>> \o RemoveAt(list, m)

DropCandidate ==
  /\ InMembers
  /\ LET p == planes[candidate]
         q == planes[member]
     IN  /\ ~Compared(p, q)
         /\ ~Dominates(p, q)
         /\ Dominates(q, p)
         /\ Delete(p)
         /\ Forward(p, q)
  /\ planes' = Promoted(RemoveAt(planes, candidate), member)
  /\ member' = 0
  /\ UNCHANGED <<pruneUnchanged, candidate>>

KeepCandidate ==
  /\ Pruning
  /\ member > 0
  /\ member = candidate
  /\ candidate' = candidate + 1
  /\ member' = 0
  /\ UNCHANGED <<pruneUnchanged, plane, planes, support, bestPlane>>

\* The loops are over; update or writePolicy ends.
EndPrune ==
  /\ Pruning
  /\ candidate > Len(planes)
  /\ lastPruneNumPlanes' = Len(planes)
  /\ lastPruneNumBackups' = numBackups
  /\ IF pc = "prune"
     THEN pc' = "idle" /\ numBackups' = numBackups + 1 /\ file' = file
     ELSE pc' = "written" /\ numBackups' = numBackups /\ file' = PolicyFile
  /\ UNCHANGED <<problem, plane, planes, support, nodeVars, bestPlane, node,
                 candidate, member>>

PrunePlanes ==
  \/ DropUnreferenced
  \/ EnterMembers
  \/ KeepBoth
  \/ DropMember
  \/ DropCandidate
  \/ KeepCandidate
  \/ EndPrune

Next ==
  \/ TouchRoot
  \/ \E b \in Belief : Update(b)
  \/ AddPlane
  \/ WritePolicy
  \/ PrunePlanes
  \/ ReadPolicy

Spec == Init /\ [][Next]_vars

\* A prune that has begun goes on.
FairSpec == Spec /\ WF_vars(PrunePlanes)

-----------------------------------------------------------------------------
\* Pointers agree both ways: a node's plane is allocated, and has the node in
\* its backPointers once; no other plane has it.  (setPlaneForNode erases one
\* entry, which must be there.)
PointersAgree ==
  /\ config.cache => \A b \in touched : bestPlane[b] \in DOMAIN plane
  /\ \A p \in DOMAIN plane : \A b \in Belief :
       plane[p].back[b] =
         IF config.cache /\ b \in touched /\ bestPlane[b] = p THEN 1 ELSE 0

\* The list and the support lists hold the allocated planes, each once.
ListsAgree ==
  /\ ToSet(planes) = DOMAIN plane /\ IsInjective(planes)
  /\ \A i \in State :
       /\ ToSet(support[i]) =
            {p \in DOMAIN plane : config.supportList /\ i \in plane[p].mask}
       /\ IsInjective(support[i])

\* A belief that can be reached has a plane, however the planes on all states
\* were pruned: getBestLBPlane asserts to find one.
EveryBeliefCovered ==
  \A b \in pomdp.reachable : \E p \in DOMAIN plane : Applicable(p, b)

\* The bound of a node is never lost: the plane the node points to, or without
\* the cache the best one, may be used there and is worth at least the bound,
\* whatever was pruned; and a belief that has no node yet has a plane.
BoundIsKept ==
  /\ EveryBeliefCovered
  /\ \A b \in touched :
       \E p \in {IF config.cache THEN bestPlane[b] ELSE BestPlane(b)} :
         Applicable(p, b) /\ ValueAt(p, b) >= lbVal[b]

\* What the code keeps in four places agrees, though pruning deletes and moves
\* what it traverses.
HeapSound == TypeOK /\ PointersAgree /\ ListsAgree

\* No plane is above what can be earned, at a belief that can be reached and
\* at which the plane may be used.
LowerBoundSound ==
  \A p \in DOMAIN plane, b \in pomdp.reachable :
    Applicable(p, b) => ValueAt(p, b) <= Ceiling[problem][b]

\* Looking only at newer planes than the node's own finds the best of all.
CacheIsBest ==
  pc = "idle" =>
    \A b \in touched : ValueAt(PlaneForNode(b), b) = ValueAt(BestPlane(b), b)

\* The loops of prunePlanes end though they delete and move what they visit.
PruneEnds == Pruning ~> ~Pruning
=============================================================================
