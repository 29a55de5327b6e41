----------------------------- MODULE FastParser -----------------------------
(***************************************************************************)
(* The fast parser (parsers/FastParser.cc), which reads a part of the      *)
(* language line by line.  f is what readModelFromStream has so far.       *)
(***************************************************************************)
EXTENDS CassandraModel

\* Before the first line.  numbers holds what sscanf reads into the model.
NewStream ==
  [ part |-> "preamble", set |-> {}, discount |-> Unit,
    states |-> -1, actions |-> -1, observations |-> -1,
    initial |-> NewCVector(0), Rx |-> <<>>, Tx |-> <<>>, Ox |-> <<>> ]

Exit(f) == [f EXCEPT !.part = "failed"]

\* readStartVector.  A POMDP needs a number for every state; a name counts as
\* zero, but there is only one.  An MDP needs a single number.
readStartVector(f, st, expectPomdp) ==
  LET values  == IF st.form = "list" THEN st.values ELSE <<0>>
      entries == [i \in 1 .. f.states |-> [index |-> i - 1, value |-> values[i]]]
      belief  == [size |-> f.states, data |-> SelectSeq(entries, LAMBDA e : e.value > SPARSE_EPS)]
  IN  IF expectPomdp
      THEN IF Len(values) < f.states THEN Exit(f) ELSE [f EXCEPT !.initial = belief]
      ELSE IF st.form # "list" \/ Len(values) # 1 THEN Exit(f)
           ELSE [f EXCEPT !.initial = StateVector(Head(values))]

\* A statement of the preamble.
FastPreamble(f, st, expectPomdp) ==
  LET read == [f EXCEPT !.set = @ \cup {st.kw}]
  IN  CASE st.kw = "discount" -> [read EXCEPT !.discount = st.value]
        [] st.kw = "values" -> IF st.form = "reward" THEN read ELSE Exit(f)
        [] st.kw \in {"states", "actions", "observations"} ->
             IF st.names # <<>> \/ (st.kw = "observations" /\ ~expectPomdp) THEN Exit(f)
             ELSE [read EXCEPT ![st.kw] = st.value]
        [] st.kw = "start" ->
             IF "states" \notin f.set THEN Exit(f) ELSE readStartVector(read, st, expectPomdp)

\* The first statement that is not of the preamble.  What is missing is said,
\* and reading goes on.
EndFastPreamble(f, expectPomdp) ==
  LET matrices(cols) == [a \in Indices(f.actions) |-> NewKMatrix(f.states, cols)]
  IN  [f EXCEPT !.part = "body",
                !.observations = IF expectPomdp THEN @ ELSE -1,
                !.Rx = NewKMatrix(f.states, f.actions),
                !.Tx = matrices(f.states),
                !.Ox = IF expectPomdp THEN matrices(f.observations) ELSE @]

WILDCARD == -1

\* What sscanf accepts: all numbers, but the wildcards of an R statement.
MatchesFormat(st, expectPomdp) ==
  LET n == Len(st.args)
      wildcards == IF st.kw # "R" THEN {} ELSE IF expectPomdp THEN {3, 4} ELSE {3}
  IN  /\ st.form = "list" /\ st.values # <<>>
      /\ n = IF st.kw = "R" /\ expectPomdp THEN 4 ELSE 3
      /\ \A k \in 1 .. n : IF k \in wildcards THEN st.args[k] = WILDCARD ELSE st.args[k] \in Nat

\* A statement of the body.  Rewards are kept out of Unit * Unit, as expected
\* rewards are.
FastBody(f, st, expectPomdp) ==
  LET a == st.args[1]  s == st.args[2]  v == Head(st.values)
  IN  IF ~MatchesFormat(st, expectPomdp) THEN Exit(f)
      ELSE CASE st.kw = "R" -> [f EXCEPT !.Rx = kmatrix_set_entry(@, s, a, v * Unit * Unit)]
             [] st.kw = "T" -> [f EXCEPT !.Tx[a] = kmatrix_set_entry(@, s, st.args[3], v)]
             [] st.kw = "O" -> IF expectPomdp
                               THEN [f EXCEPT !.Ox[a] = kmatrix_set_entry(@, s, st.args[3], v)]
                               ELSE Exit(f)

InPreamble(st) == st.kw \in {"discount", "values", "states", "actions", "observations"}
                    \/ (st.kw = "start" /\ st.form \notin {"include", "exclude"})

FastStatement(f, st, expectPomdp) ==
  LET isBody == st.kw \in {"T", "O", "R"}
      begun  == IF f.part = "preamble" THEN EndFastPreamble(f, expectPomdp) ELSE f
  IN  IF f.part = "preamble" /\ InPreamble(st) THEN FastPreamble(f, st, expectPomdp)
      ELSE IF isBody THEN FastBody(begun, st, expectPomdp)
      ELSE Exit(f)

\* The end of readModelFromStream.
SumsToOne(A, s) == sum(copy_from_column(A, s)) = Unit

FastModel(f, expectPomdp) ==
  LET transposed(ks) == [a \in DOMAIN ks |-> copy(kmatrix_transpose_in_place(ks[a]))] @@ <<>>
      copied(ks) == [a \in DOMAIN ks |-> copy(ks[a])] @@ <<>>
      m == [ discount |-> f.discount, numStates |-> f.states, numActions |-> f.actions,
             numObservations |-> f.observations,
             R |-> copy(f.Rx), T |-> copied(f.Tx), Ttr |-> transposed(f.Tx),
             O |-> copied(f.Ox), initial |-> f.initial ]
  IN  m @@ [isTerminalState |-> checkForTerminalStates(m)]

\* Whether the checks of the end let the model pass.
FastAccepts(f, expectPomdp) ==
  LET m == FastModel(f, expectPomdp)
      rows == [a \in DOMAIN f.Ox |-> copy(kmatrix_transpose_in_place(f.Ox[a]))]
  IN  /\ f.part = "body"
      /\ \A a \in Actions(m), s \in States(m) :
           SumsToOne(m.Ttr[a], s) /\ (expectPomdp => SumsToOne(rows[a], s))
      /\ expectPomdp => sum(m.initial) = Unit
=============================================================================
