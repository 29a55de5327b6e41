----------------------------- MODULE MCRaceTrack -----------------------------
(***************************************************************************)
(* Small racetracks: the relaxed heuristic, against the relaxed problem's  *)
(* values computed by value iteration over all states, and then a car      *)
(* driven in every possible way.                                           *)
(***************************************************************************)
EXTENDS RelaxUB, TLC

CONSTANTS
  ProbDen, ErrorProb,
  Unit,        \* the value 1 in fixed point
  Iterations,  \* enough to reach every state and for values to settle
  MaxMove      \* bound of the moves whose lines are compared

VARIABLE car   \* the state of the simulation

Minus == -100000

R == INSTANCE RaceTrack

\* Small track files: a corridor, a bend, and a field with an obstacle between
\* start and finish; with wind, and with a discount; and files that the
\* program refuses.
Property(k, v) == [kind |-> "property", key |-> k, value |-> v]
Comment        == [kind |-> "comment"]
Marker         == [kind |-> "marker"]
Row(cells)     == [kind |-> "row", row |-> Append(cells, "end")]

Properties(discount, wind, useMaxCost) ==
  << Comment, Property("discount", 0), Property("discount", discount),
     Property("errorProbability", ErrorProb), Property("useErrorIsWind", wind),
     Property("useMaxCost", useMaxCost) >>

MaxCost == <<Property("maxCost", 20)>>

Corridor ==
  << Row(<<"@", "@", "@", "@", "@", "@">>), Comment,
     Row(<<"@", "s", " ", " ", "f", "@">>),
     Row(<<"@", "@", "@", "@", "@", "@">>) >>

Bend ==
  << Row(<<"@", "@", "@", "@", "@", "@">>),
     Row(<<"@", "s", " ", " ", " ", "@">>),
     Row(<<"@", "@", "@", "@", " ", "@">>),
     Row(<<"@", "@", "@", "@", " ", "@">>),
     Row(<<"@", "@", "@", "@", "f", "@">>),
     Row(<<"@", "@", "@", "@", "@", "@">>) >>

\* The finish can be reached only around the obstacle.
Field ==
  << Row(<<"@", "@", "@", "@", "@", "@", "@", "@">>),
     Row(<<"@", " ", " ", " ", " ", " ", " ", "@">>),
     Row(<<"@", "s", " ", "@", "@", " ", "f", "@">>),
     Row(<<"@", "s", " ", "@", "@", " ", "f", "@">>),
     Row(<<"@", " ", " ", " ", " ", " ", " ", "@">>),
     Row(<<"@", " ", " ", " ", " ", " ", " ", "@">>),
     Row(<<"@", "@", "@", "@", "@", "@", "@", "@">>) >>

File(map, wind)  == Properties(DiscountDen, wind, 1) \o MaxCost \o <<Marker>> \o map
Discounted(map)  == Properties(DiscountDen - 1, 0, 0) \o <<Marker>> \o map

\* A parameter is missing, or the last row has no end.
Incomplete == Properties(DiscountDen, 0, 1) \o <<Marker>> \o Corridor
Ragged     == File(Front(Corridor), 0) \o <<[Last(Corridor) EXCEPT !.row = Front(@)]>>

-----------------------------------------------------------------------------
\* The tracks, as RelaxUB's problems.

\* The outcomes that can happen, in their order.
Order(prob) == SelectSeq([i \in 1 .. Cardinality(DOMAIN prob) |-> i - 1],
                         LAMBDA o : prob[o] > 0)

\* The edges of the states in S.  (The unions with the empty function have TLC
\* evaluate a function only once.)
EdgesOf(t, S) ==
  [x \in S |->
     [a \in Action |->
        LET order == Order(R!OutcomeProbVector(t, x, a))
        IN  [i \in DOMAIN order |-> R!NextState(t, x, a, order[i])] \o <<>>] @@ <<>>]
  @@ <<>>

Reached(next) == UNION {UNION {ToSet(next[x][a]) : a \in Action} : x \in DOMAIN next}

\* All states of track t, with their edges.
AllEdges(t) ==
  LET next[i \in 0 .. Iterations] ==
        IF i = 0 THEN EdgesOf(t, {R!bogusInitialState})
        ELSE LET prev == next[i - 1]
             IN  prev @@ EdgesOf(t, Reached(prev) \ DOMAIN prev)
  IN  next[Iterations]

ProblemOver(n, t, next) ==
  [ track    |-> n,
    initial  |-> R!bogusInitialState,
    terminal |-> {R!terminalState},
    next     |-> next,
    reward   |-> [x \in DOMAIN next |->
                    [a \in Action |-> Unit * R!Reward(t, x, a)] @@ <<>>] @@ <<>>,
    discount |-> t.discount,
    lower    |-> [x \in DOMAIN next |-> Unit * R!LowerHeuristic(t, x)] @@ <<>>,
    upper    |-> [x \in DOMAIN next |-> Unit * R!UpperHeuristic(t, x)] @@ <<>> ]

Files ==
  <<File(Corridor, 0), File(Bend, 0), File(Field, 0), File(Corridor, 1),
    File(Bend, 1), File(Field, 1), Discounted(Corridor)>>

TrackList == [n \in DOMAIN Files |-> R!ReadTrack(Files[n])] \o <<>>

ASSUME DenominatorAssumption == ProbDen \in Nat \ {0} /\ DiscountDen \in Nat \ {0}
ASSUME TracksRead == \A n \in DOMAIN TrackList : R!IsTrack(TrackList[n])
ASSUME BadFilesRefused == {R!ReadTrack(Incomplete), R!ReadTrack(Ragged)} = {R!REFUSED}

ProblemOf(n) == ProblemOver(n, TrackList[n], AllEdges(TrackList[n]))

Racetracks           == {ProblemOf(n) : n \in 1 .. 6}
DiscountedRacetracks == {ProblemOf(7)}

\* The value of the relaxed problem, by value iteration over all states.
RelaxedValue(p) ==
  LET best(v, x, a) == Max({v[xp] : xp \in ToSet(p.next[x][a])})
      backup(v, x) == Max({p.reward[x][a] + ((p.discount * best(v, x, a)) \div DiscountDen) :
                             a \in Action})
      value[i \in 0 .. Iterations] ==
        IF i = 0 THEN p.lower
        ELSE LET prev == value[i - 1] IN [x \in DOMAIN p.next |-> backup(prev, x)] @@ <<>>
  IN  value[Iterations]

ValuesOfAll   == [p \in Problems |-> RelaxedValue(p)] @@ <<>>
RelaxedValues == ValuesOfAll

\* The track of the problem.
track == TrackList[problem.track]

-----------------------------------------------------------------------------
\* The heuristic is computed when the solver is made; then the model can be
\* driven.
Start == Init /\ car = R!bogusInitialState

\* A step of the simulation: any action, and any outcome it may have, until the
\* car has finished.
PerformAction(a, o) ==
  /\ pc = "done"
  /\ ~R!IsTerminal(car)
  /\ o \in R!Possible(track, car, a)
  /\ car' = R!NextState(track, car, a, o)
  /\ UNCHANGED vars

Initialize == Next /\ UNCHANGED car

Step ==
  \/ Initialize
  \/ \E a \in Action : \E o \in 0 .. R!RT_SLIP + 7 : PerformAction(a, o)

RaceSpec == Start /\ [][Step]_<<vars, car>> /\ WF_vars(Initialize)

-----------------------------------------------------------------------------
Moving(state) == ~R!IsInitial(state) /\ ~R!IsTerminal(state)

\* The cell at k/n of the way of a move, as a set that is empty if the way is
\* there on the edge between two cells.
CellAt(dx, dy, k, n) ==
  LET middle(d) == (2 * k * d + n) \div (2 * n)
      edge(d)   == (2 * k * d + n) % (2 * n) = 0
  IN  IF edge(dx) \/ edge(dy) THEN {} ELSE {<<middle(dx), middle(dy)>>}

\* The cells whose inside the straight line meets: between two edges lies at
\* least 1/(2 |dx| |dy|) of the way, so points at half that distance are in
\* each cell.
CellsOnLine(dx, dy) ==
  LET n == 4 * Max({1, R!Abs(dx)}) * Max({1, R!Abs(dy)})
  IN  UNION {CellAt(dx, dy, k, n) : k \in 0 .. n}

\* "It is not optimized but it is exact": the line plotted for a move has
\* exactly the cells the car passes through, none of them before one that is
\* nearer to where it comes from.
LineExact ==
  pc = "done" /\ R!IsInitial(car) => \A dx, dy \in -MaxMove .. MaxMove :
    LET line == R!LineCells(dx, dy)
    IN  /\ ToSet(line) = CellsOnLine(dx, dy)
        /\ \A i, j \in DOMAIN line : i < j =>
              /\ R!Abs(line[i][1]) <= R!Abs(line[j][1])
              /\ R!Abs(line[i][2]) <= R!Abs(line[j][2])

\* The move that is made is the one that was checked: from one cell to another
\* the car passes only through open cells, before the finish, and it changes
\* its velocity by no more than the command and the wind can.  A car that does
\* not crash or finish is where its velocity takes it.
WayIsOpen ==
  [][Moving(car) /\ Moving(car') =>
       /\ \A c \in CellsOnLine(car'[3], car'[4]) :
             <<car[1] + c[1], car[2] + c[2]>> \in track.open \ track.finish
       /\ car'[1] = car[1] + car'[3] /\ car'[2] = car[2] + car'[4]
       /\ \A i \in {3, 4} :
             R!Abs(car'[i] - car[i]) <= IF track.useErrorIsWind THEN 2 ELSE 1]_<<problem, car>>
=============================================================================
