-------------------------------- MODULE Doors --------------------------------
(***************************************************************************)
(* Small POMDPs for TLC, with one prize behind a left or a right door: it  *)
(* is at the left, in the middle or at the right, and does not move        *)
(* (Doors) or leaves the middle (Drift); opening the wrong door costs a    *)
(* penalty or nothing.                                                     *)
(***************************************************************************)
EXTENDS Pomdp

left   == 0
middle == 1
right  == 2
over   == 3

States == {left, middle, right, over}

Weights(l, m, r, e) ==
  (left :> l) @@ (middle :> m) @@ (right :> r) @@ (over :> e)

Beliefs ==
  {Weights(1, 1, 1, 0), Weights(1, 0, 1, 0), Weights(0, 1, 1, 0),
   Weights(1, 1, 0, 0), Weights(1, 0, 3, 0), Weights(1, 0, 0, 0),
   Weights(0, 1, 0, 0), Weights(0, 0, 1, 0), Weights(0, 0, 0, 1)}

\* Actions 0 (peek at the left door) and 1 (see below), 2 (open the left
\* door), 3 (open the right door), with a penalty for the wrong door.
Price(penalty) ==
  Table([a \in Action |->
     CASE a = 0 -> Weights(-64, -64, -64, 0)
       [] a = 1 -> Weights(-64, -64, -64, 0)
       [] a = 2 -> Weights(640, -penalty, -2 * penalty, 0)
       [] a = 3 -> Weights(-2 * penalty, -penalty, 640, 0)])

Always(i) == Table([j \in States |-> IF j = i THEN 2 ELSE 0])

\* Peeking says whether the prize is at that side; opening says nothing.
Sees(side) ==
  Table([j \in States |->
           IF j = side THEN (0 :> 0) @@ (1 :> 2) ELSE (0 :> 2) @@ (1 :> 0)])

Nothing == Table([j \in States |-> (0 :> 2) @@ (1 :> 0)])

Opens == Table([i \in States |-> Always(over)])
Stays == Table([i \in States |-> Always(i)])
Leaves == Table([i \in States |-> IF i = middle THEN Weights(1, 0, 1, 0)
                                 ELSE Always(i)])

\* Doors: action 1 peeks at the right door.
DoorsTrans == Table([a \in Action |-> IF a \in {0, 1} THEN Stays ELSE Opens])
DoorsObs ==
  Table([a \in Action |-> CASE a = 0 -> Sees(left) [] a = 1 -> Sees(right)
                            [] OTHER -> Nothing])
DoorsNext == NextBelief(DoorsTrans, DoorsObs)

\* Drift: action 1 waits; a prize in the middle moves to one of the sides.
DriftTrans ==
  Table([a \in Action |-> CASE a = 0 -> Stays [] a = 1 -> Leaves
                            [] OTHER -> Opens])
DriftObs == Table([a \in Action |-> IF a = 0 THEN Sees(left) ELSE Nothing])
DriftNext == NextBelief(DriftTrans, DriftObs)

\* Everything next leads to from the beliefs in B.
RECURSIVE ReachableFrom(_, _)
ReachableFrom(next, B) ==
  LET more == {next[b][a][o] : b \in B, a \in Action, o \in Observation} \ {NoBelief}
  IN  IF more \subseteq B THEN B ELSE ReachableFrom(next, B \cup more)

Instance(penalty, trans, obs, next) ==
  [ initial  |-> Weights(1, 1, 1, 0),
    terminal |-> {over},
    reward   |-> Price(penalty),
    trans    |-> trans,
    obs      |-> obs,
    next     |-> next,
    reachable |-> ReachableFrom(next, {Weights(1, 1, 1, 0)}),
    discount |-> 1,
    blind    |-> Table([a \in Action |->
                          IF a \in {0, 1} THEN Weights(-128, -128, -128, 0)
                          ELSE Price(penalty)[a]]) ]

Doors(penalty) == Instance(penalty, DoorsTrans, DoorsObs, DoorsNext)
Drift(penalty) == Instance(penalty, DriftTrans, DriftObs, DriftNext)

DoorsAndDrift == {"doors", "free doors", "drift", "free drift"}

DoorsAndDriftPomdps ==
  ( "doors" :> Doors(320) @@ "free doors" :> Doors(0)
      @@ "drift" :> Drift(320) @@ "free drift" :> Drift(0) )
=============================================================================
