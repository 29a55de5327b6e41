----------------------------- MODULE MCSawtooth -----------------------------
(***************************************************************************)
(* Sawtooth on the POMDPs of Doors and on one whose game may be over in    *)
(* two ways, and policies whose values its bound must stay above: at most  *)
(* Horizon steps, then a blind one.                                        *)
(***************************************************************************)
EXTENDS Sawtooth, Doors

CONSTANT Horizon

GameBeliefs == Beliefs \cup {Weights(0, 1, 0, 1)}

\* The prize is won (over) or lost (here: middle): a belief may be terminal
\* without being a corner.
GameTrans ==
  Table([a \in Action |->
    IF a \in {0, 1} THEN Stays
    ELSE Table([i \in States |->
           CASE i \in {middle, over} -> Always(i)
             [] i = left  -> Always(IF a = 2 THEN over ELSE middle)
             [] i = right -> Always(IF a = 3 THEN over ELSE middle)])])
GameNext == NextBelief(GameTrans, DriftObs)

Game ==
  [ Instance(320, GameTrans, DriftObs, GameNext) EXCEPT
      !.initial  = Weights(1, 0, 1, 0),
      !.terminal = {middle, over},
      !.reward   = [a \in Action |-> [@[a] EXCEPT ![middle] = 0]],
      !.blind    = [a \in Action |-> [@[a] EXCEPT ![middle] = 0]],
      !.reachable = ReachableFrom(GameNext, {Weights(1, 0, 1, 0)}) ]

AllProblems == DoorsAndDrift \cup {"game"}
PomdpsOfAll == DoorsAndDriftPomdps @@ ("game" :> Game)
AllPomdps == PomdpsOfAll

\* The plans that begin with one action and go on with plans of P.
Longer(p, P) ==
  { [value  |-> Table([i \in State |->
       IF i \in p.terminal THEN 0
       ELSE p.reward[a][i] +
              (p.discount * Expected(p, [action |-> a, after |-> after], i)) \div 8]),
     action |-> a, after |-> after] :
       a \in Action, after \in [Observation -> {plan.value : plan \in P}] }

AtMost(v, w) == \A i \in State : v[i] <= w[i]

\* P, and of the plans in Q one for each value that is not below another.
With(P, Q) ==
  LET values == {plan.value : plan \in P \cup Q}
      best   == {v \in values : \A w \in values : AtMost(v, w) => v = w}
  IN  P \cup {CHOOSE plan \in Q : plan.value = v : v \in best \ {plan.value : plan \in P}}

Blind(p) ==
  {[value |-> p.blind[a], action |-> a, after |-> [o \in Observation |-> p.blind[a]]] :
     a \in Action}

Plans(p) ==
  LET plans[k \in 0 .. Horizon] ==
        IF k = 0 THEN Blind(p) ELSE With(plans[k - 1], Longer(p, plans[k - 1]))
  IN  plans[Horizon]

PlansOfAll == Table([n \in Problems |-> Plans(AllPomdps[n])])
AllPolicies == PlansOfAll
=============================================================================
