------------------------------ MODULE RaceTrack ------------------------------
(***************************************************************************)
(* The racetrack domain (mdps/RaceTrack.cc): a car on a grid accelerates   *)
(* by at most one cell per step and direction; the acceleration may fail   *)
(* (slip) or be disturbed (wind); a move that leaves the track sends the   *)
(* car back to the start.                                                  *)
(*                                                                         *)
(* A state is the vector <<x, y, vx, vy>> of the code.                     *)
(***************************************************************************)
EXTENDS Integers, Sequences, SequencesExt, FiniteSetsExt, TLC

CONSTANTS
  ProbDen,      \* denominator of probabilities
  DiscountDen   \* denominator of discounts

-----------------------------------------------------------------------------
\* A file is a sequence of lines: comments, lines of properties, the line that
\* ends these, and the rows of the map.  A row is a sequence of characters, the
\* last of which is the end of the line, unless it is the last row of a file
\* that has no such end.

Kinds(file, from, to, kind) == SelectSeq(SubSeq(file, from, to), LAMBDA l : l.kind = kind)

\* PropertyList::readFromFile: the last value of a key counts.  (A line that is
\* not a key and a value stops the program; files here have none.)
PropertyList(lines) ==
  LET last(key) == Max({i \in DOMAIN lines : lines[i].key = key})
  IN  [key \in {lines[i].key : i \in DOMAIN lines} |-> lines[last(key)].value]

\* The cells with a character of C.
CellsOf(rows, C) ==
  LET width == Len(rows[1])
  IN  {<<i % width, i \div width>> :
         i \in {k \in 0 .. width * Len(rows) - 1 :
                  rows[(k \div width) + 1][(k % width) + 1] \in C}}

\* TrackMap::readFromFile.  Whatever is not "@" is open, the end of a row too.
TrackMap(rows) ==
  [ width  |-> Len(rows[1]),
    height |-> Len(rows),
    open   |-> CellsOf(rows, {" ", "s", "f", "end"}),
    finish |-> CellsOf(rows, {"f"}),
    start  |-> SetToSortSeq(CellsOf(rows, {"s"}),
                            LAMBDA c, d : c[2] < d[2] \/ (c[2] = d[2] /\ c[1] < d[1])) ]

\* A file that the program stops at.
REFUSED == [width |-> 0]

\* RaceTrack::readFromFile.  maxCost is asked for only if it is used.
ReadTrack(file) ==
  LET marker == Min({i \in DOMAIN file : file[i].kind = "marker"})
      plist  == PropertyList(Kinds(file, 1, marker - 1, "property"))
      lines  == Kinds(file, marker + 1, Len(file), "row")
      rows   == [y \in DOMAIN lines |-> lines[y].row]
      needed == {"discount", "errorProbability", "useMaxCost", "useErrorIsWind"}
  IN  IF ~(needed \subseteq DOMAIN plist)
         \/ (plist["useMaxCost"] = 1 /\ "maxCost" \notin DOMAIN plist)
         \/ \E y \in DOMAIN rows : Len(rows[y]) # Len(rows[1])
      THEN REFUSED
      ELSE TrackMap(rows) @@
           [ discount         |-> plist["discount"],
             errorProbability |-> plist["errorProbability"],
             useMaxCost       |-> plist["useMaxCost"] # 0,
             maxCost          |-> IF plist["useMaxCost"] # 0 THEN plist["maxCost"] ELSE -1,
             useErrorIsWind   |-> plist["useErrorIsWind"] # 0 ]

\* A track a car stays on: its border is closed, as in all the program's files
\* (the column of row ends is behind it), and the outcomes of a step have
\* whole probabilities; the wind spreads the error over eight directions.
IsTrack(t) ==
  /\ \A c \in (0 .. t.width - 2) \X (0 .. t.height - 1) :
       c[1] \in {0, t.width - 2} \/ c[2] \in {0, t.height - 1} => c \notin t.open
  /\ t.start # <<>> /\ ProbDen % Len(t.start) = 0
  /\ t.errorProbability \in 0 .. ProbDen /\ t.errorProbability % 8 = 0
  /\ t.discount \in 1 .. DiscountDen
  /\ IF t.useMaxCost THEN t.maxCost \in Nat ELSE t.discount < DiscountDen

bogusInitialState == <<-1, 0, 0, 0>>
terminalState     == <<-2, 0, 0, 0>>

IsInitial(s)  == s[1] = -1
IsTerminal(s) == s[1] = -2

Action == 0 .. 8

RT_NORMAL == 0
RT_FINISH == 1
RT_CRASH  == 2
RT_SLIP   == 3

-----------------------------------------------------------------------------
Abs(n)  == IF n < 0 THEN -n ELSE n
Sign(n) == IF n < 0 THEN -1 ELSE 1

\* Mutant of Column: the cell below a corner is plotted too.
ColumnWithCorner(adx, ady, line, x) ==
  LET eps == line.eps + 2 * ady
      up  == eps >= adx
  IN  [ cells |-> line.cells \o <<<<x, line.y>>>>
                    \o IF up THEN <<<<x, line.y + 1>>>> ELSE <<>>,
        y     |-> IF up THEN line.y + 1 ELSE line.y,
        eps   |-> IF up THEN eps - 2 * adx ELSE eps ]

\* One pass of the plotting loop: the cells of column x that the line goes
\* through, the line being eps/(2 adx) above the middle of cell y at the left
\* edge of the column.
Column(adx, ady, line, x) ==
  LET left == line.eps < adx
      eps  == line.eps + 2 * ady
      up   == eps >= adx
  IN  [ cells |-> line.cells
                    \o (IF left THEN <<<<x, line.y>>>> ELSE <<>>)
                    \o (IF up /\ eps - 2 * adx > -adx
                        THEN <<<<x, line.y + 1>>>> ELSE <<>>),
        y     |-> IF up THEN line.y + 1 ELSE line.y,
        eps   |-> IF up THEN eps - 2 * adx ELSE eps ]

\* The cells that are plotted for a move by <<adx, ady>>, 0 <= ady <= adx,
\* relative to where it begins.
PlottedCells(adx, ady) ==
  LET line[x \in 0 .. adx] ==
        IF x = 0 THEN [cells |-> <<<<0, 0>>>>, y |-> 0, eps |-> ady]
        ELSE IF x = adx THEN [line[x - 1] EXCEPT !.cells = Append(@, <<adx, ady>>)]
        ELSE Column(adx, ady, line[x - 1], x)
  IN  IF adx = 0 THEN <<<<0, 0>>, <<0, 0>>>> ELSE line[adx].cells

\* The same for any move: the plotting loop runs along its longer direction.
LineCells(dx, dy) ==
  IF Abs(dy) > Abs(dx)
  THEN LET cells == PlottedCells(Abs(dy), Abs(dx))
       IN  [i \in DOMAIN cells |-> <<Sign(dx) * cells[i][2], Sign(dy) * cells[i][1]>>]
  ELSE LET cells == PlottedCells(Abs(dx), Abs(dy))
       IN  [i \in DOMAIN cells |-> <<Sign(dx) * cells[i][1], Sign(dy) * cells[i][2]>>]

\* Mutant of FirstHit: only the cell where the car comes to rest counts.
HitAtEnd(t, x0, y0, line) ==
  LET cell == <<x0 + Last(line)[1], y0 + Last(line)[2]>>
  IN  IF cell \in t.finish THEN RT_FINISH
      ELSE IF cell \in t.open THEN RT_NORMAL
      ELSE RT_CRASH

\* What the first cell of a line from <<x0, y0>> that is not plain track is.
FirstHit(t, x0, y0, line) ==
  LET cell(i) == <<x0 + line[i][1], y0 + line[i][2]>>
      hits == {i \in DOMAIN line : cell(i) \in t.finish \/ cell(i) \notin t.open}
  IN  IF hits = {} THEN RT_NORMAL
      ELSE IF cell(Min(hits)) \in t.finish THEN RT_FINISH
      ELSE RT_CRASH

lineType(t, x0, y0, dx, dy) == FirstHit(t, x0, y0, LineCells(dx, dy))

-----------------------------------------------------------------------------
\* The outcomes in which the car is moved: the commanded one, and the slip or
\* the eight directions of the wind.
Moves(t) == {RT_NORMAL} \cup (RT_SLIP .. RT_SLIP + IF t.useErrorIsWind THEN 7 ELSE 0)

dax == <<0, 0, 0, -1, -1, -1, 0, 0, 1, 1, 1>>
day == <<0, 0, 0, -1, 0, 1, -1, 1, -1, 0, 1>>

\* The acceleration in outcome o of action a.
Acceleration(t, a, o) ==
  IF t.useErrorIsWind
  THEN <<(a \div 3) - 1 + dax[o + 1], (a % 3) - 1 + day[o + 1]>>
  ELSE IF o = RT_SLIP THEN <<0, 0>>
  ELSE <<(a \div 3) - 1, (a % 3) - 1>>

\* RT_CHECK_OUTCOME: what a moving outcome leads to.
Checked(t, s, a, o) ==
  LET acc == Acceleration(t, a, o)
  IN  lineType(t, s[1], s[2], s[3] + acc[1], s[4] + acc[2])

\* The probability of outcome o if nothing is hit.
MoveProb(t, o) ==
  IF o = RT_NORMAL THEN ProbDen - t.errorProbability
  ELSE IF t.useErrorIsWind THEN t.errorProbability \div 8
  ELSE t.errorProbability

\* Moves that hit something give their probability to RT_FINISH or RT_CRASH.
MoveMass(t, type) ==
  [o \in Moves(t) \cup {RT_FINISH, RT_CRASH} |->
     IF o \in Moves(t)
     THEN IF type[o] = RT_NORMAL THEN MoveProb(t, o) ELSE 0
     ELSE MapThenSumSet(LAMBDA m : MoveProb(t, m), {m \in Moves(t) : type[m] = o})]

\* The probability of each outcome.  (The unions with the empty function have
\* TLC evaluate a function only once.)
OutcomeProbVector(t, s, a) ==
  IF IsInitial(s) THEN [o \in 0 .. Len(t.start) - 1 |-> ProbDen \div Len(t.start)]
  ELSE IF IsTerminal(s) THEN [o \in {0} |-> ProbDen]
  ELSE MoveMass(t, [o \in Moves(t) |-> Checked(t, s, a, o)] @@ <<>>) @@ <<>>

NextState(t, s, a, o) ==
  IF IsInitial(s) THEN <<t.start[o + 1][1], t.start[o + 1][2], 0, 0>>
  ELSE IF IsTerminal(s) THEN s
  ELSE IF o = RT_FINISH THEN terminalState
  ELSE IF o = RT_CRASH THEN bogusInitialState
  ELSE LET acc == Acceleration(t, a, o)
           vx  == s[3] + acc[1]
           vy  == s[4] + acc[2]
       IN  <<s[1] + vx, s[2] + vy, vx, vy>>

\* Every move costs 1, but the one to the start line only if the problem is
\* discounted.
Reward(t, s, a) ==
  IF IsTerminal(s) \/ (t.discount = DiscountDen /\ IsInitial(s)) THEN 0 ELSE -1

\* The outcomes that can happen.
Possible(t, s, a) ==
  LET prob == OutcomeProbVector(t, s, a)
  IN  {o \in DOMAIN prob : prob[o] > 0}

\* The heuristic bounds, RTLowerBound and RTUpperBound.
LowerHeuristic(t, s) ==
  IF IsTerminal(s) THEN 0
  ELSE IF t.useMaxCost THEN -t.maxCost
  ELSE -(DiscountDen \div (DiscountDen - t.discount))

UpperHeuristic(t, s) == 0
=============================================================================
