-------------------------------- MODULE Pomdp --------------------------------
(***************************************************************************)
(* A POMDP as its bounds see it: pomdpCore/Pomdp.cc and CassandraModel.    *)
(* The search runs on the MDP of its beliefs, which are kept as vectors of *)
(* whole weights, so that equal beliefs are one node and values are exact. *)
(***************************************************************************)
EXTENDS Integers, FiniteSets, Sequences, SequencesExt, FiniteSetsExt, Functions

CONSTANTS
  State,        \* states of the POMDP, numbered from 0
  Belief,       \* vectors of weights over State
  NumActions,
  Observation,
  NoBelief,     \* where a belief cannot lead: a NULL edge
  Den,          \* denominator of probabilities and of the discount
  Problems,     \* names of the problem instances
  Pomdps        \* the POMDP of each

\* The function f itself; TLC then evaluates it once, not at every use.
Table(f) == CHOOSE g \in {f} : g = f

Action == 0 .. NumActions - 1
Vector == [State -> Int]

Pomdp ==
  [ initial  : Belief,
    terminal : SUBSET State,
    reward   : [Action -> Vector],
    trans    : [Action -> [State -> [State -> 0 .. Den]]],
    obs      : [Action -> [State -> [Observation -> 0 .. Den]]],
    next     : [Belief -> [Action -> [Observation -> Belief \cup {NoBelief}]]],
    reachable : SUBSET Belief,       \* from initial, by next
    discount : 0 .. Den,
    blind    : [Action -> Vector] ]  \* value of always taking the action

\* The states b gives weight to: the entries of the sparse vector.
Support(b) == {i \in State : b[i] > 0}

\* Its first entry.
First(b) == Min(Support(b))

ASSUME PomdpAssumption ==
         /\ State \subseteq Nat /\ IsFiniteSet(State) /\ IsFiniteSet(Observation)
         /\ Belief \subseteq [State -> Nat] /\ NoBelief \notin Belief
         \* the weights of a belief have no common factor, and its first is 1
         /\ \A b \in Belief : Support(b) # {} /\ b[First(b)] = 1
         /\ NumActions \in Nat \ {0} /\ Den \in Nat \ {0}

ASSUME PomdpsAssumption == Pomdps \in [Problems -> Pomdp]

Closed(p, B) ==
  \A b \in B, a \in Action, o \in Observation : p.next[b][a][o] \in B \cup {NoBelief}

\* The beliefs that can be reached in a problem, and no others: a search may
\* come to them, and so may whoever executes the policy.
ASSUME ReachableAssumption ==
         \A n \in Problems :
           LET p == Pomdps[n]
           IN  /\ p.initial \in p.reachable /\ Closed(p, p.reachable)
               /\ \A B \in SUBSET p.reachable :
                    p.initial \in B /\ Closed(p, B) => B = p.reachable

\* The sum of the values of f.
Total(f) == MapThenSumSet(LAMBDA x : f[x], DOMAIN f)

\* The weights of b after action a and observation o, up to a factor: the
\* entry of getObsProbVector for o is their sum.
Pushed(b, trans, obs, a, o) ==
  Table([j \in State |-> obs[a][j][o] * Total([i \in State |-> b[i] * trans[a][i][j]])])

SameBelief(v, b) ==
  /\ \E i \in State : v[i] > 0
  /\ \A i, j \in State : v[i] * b[j] = v[j] * b[i]

\* getNextBelief normalizes these weights, unless all of them are 0.
ASSUME NextAssumption ==
         \A n \in Problems : \A b \in Pomdps[n].reachable, a \in Action, o \in Observation :
           LET p == Pomdps[n]
               v == Pushed(b, p.trans, p.obs, a, o)
           IN  IF \A i \in State : v[i] = 0 THEN p.next[b][a][o] = NoBelief
               ELSE p.next[b][a][o] # NoBelief /\ SameBelief(v, p.next[b][a][o])

-----------------------------------------------------------------------------
\* inner_prod(v, b), times the sum of the weights of b.
Inner(v, b) == Total([i \in State |-> b[i] * v[i]])

\* getIsTerminalState
TerminalIn(p, b) == Support(b) \subseteq p.terminal

\* getNextBelief for every belief, action and observation.
NextBelief(trans, obs) ==
  Table([b \in Belief |-> Table([a \in Action |-> Table([o \in Observation |->
     LET v == Pushed(b, trans, obs, a, o)
         C == {c \in Belief : SameBelief(v, c)}
     IN  IF C = {} THEN NoBelief ELSE CHOOSE c \in C : TRUE])])])

\* The nodes under b in the search graph.
SuccessorsIn(p, b) ==
  {p.next[b][a][o] : a \in Action, o \in Observation} \ {NoBelief}
=============================================================================
