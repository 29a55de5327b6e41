------------------------------ MODULE PomdpSpec ------------------------------
(***************************************************************************)
(* The actions of the grammar for model files (parsers/pomdp_spec.y), with *)
(* the table of names (parse_hash.c) and the list of errors (parse_err.c), *)
(* and the model that is made of what they leave (CassandraParser.cc).     *)
(* A file is a sequence of statements, one on a line; p holds the globals. *)
(* An argument of a statement is a number, a name or a wildcard, and       *)
(* probabilities are whole numbers out of Unit.                            *)
(***************************************************************************)
EXTENDS ImmReward, CassandraModel

CONSTANTS
  Names,      \* names of states, actions and observations
  H_string    \* the hash of each

INVALID_STATE == -1
NO_LINE       == -1

ASSUME NamesAssumption == H_string \in [Names -> Nat]

Kinds == {"states", "actions", "observations"}

-----------------------------------------------------------------------------
\* parse_err.c

\* ERR_enter: in the order of the lines, and then as they came.
ERR_enter(p, lineno, errorid) ==
  LET before == {k \in DOMAIN p.errors : p.errors[k].line <= lineno}
  IN  [p EXCEPT !.errors =
         InsertAt(@, Cardinality(before) + 1, [line |-> lineno, id |-> errorid])]

ErrorIf(p, wrong, lineno, errorid) == IF wrong THEN ERR_enter(p, lineno, errorid) ELSE p

\* ERR_dump: whether there are errors, which it prints.
ERR_dump(p) == p.errors # <<>>

-----------------------------------------------------------------------------
\* parse_hash.c

\* Where H_match finds the name in its list.
Matching(p, str, kind) ==
  LET list == p.table[H_string[str]]
  IN  {k \in DOMAIN list : list[k].str = str /\ list[k].type = kind}

\* H_enter, with the error of enterString if the name is there already.
H_enter(p, str, kind, lineno) ==
  IF Matching(p, str, kind) # {} THEN ERR_enter(p, lineno, "DUPLICATE_STRING")
  ELSE [p EXCEPT !.table[H_string[str]] =
                    Append(@, [str |-> str, type |-> kind, number |-> p[kind]]),
                 ![kind] = @ + 1]

H_lookup(p, str, kind) ==
  LET at == Matching(p, str, kind)
  IN  IF at = {} THEN -1 ELSE p.table[H_string[str]][Min(at)].number

-----------------------------------------------------------------------------
\* The preamble

\* initParser, ERR_initialize, H_create and the initial globals of mdp.c.
initParser ==
  [ part |-> "preamble", defined |-> {}, obsSpec |-> FALSE, errors |-> <<>>,
    type |-> "unknown", discount |-> Unit, states |-> 0, actions |-> 0,
    observations |-> 0, table |-> [h \in {H_string[n] : n \in Names} |-> <<>>],
    IP |-> <<>>, IR |-> <<>>, tree |-> NULL,
    belief |-> <<>>, start |-> INVALID_STATE ]

\* param_type: a discount, the kind of values, and how many states, actions or
\* observations there are, or their names.  The kind of values is kept (gValueType)
\* only for writing the model out again.
Preamble(p, st, lineno) ==
  LET enterString(q, name) == H_enter(q, name, st.kw, lineno)
      entered ==
        CASE st.kw = "discount" ->
               ErrorIf([p EXCEPT !.discount = st.value], st.value \notin 0 .. Unit,
                       lineno, "BAD_DISCOUNT_VAL")
          [] st.kw = "values" -> p
          [] st.kw \in Kinds /\ st.names = <<>> ->
               ErrorIf([p EXCEPT ![st.kw] = Max({st.value, 1})], st.value < 1,
                       lineno, "BAD_NUM")
          [] OTHER -> FoldLeft(enterString, p, st.names)
  IN  [entered EXCEPT !.defined = @ \cup {st.kw}]

\* verifyPreamble: what is missing is an error, and is 1 from here on; without
\* observations it is an MDP.
verifyPreamble(p, lineno) ==
  LET missing == SelectSeq(<<"discount", "values", "states", "actions">>,
                           LAMBDA kw : kw \notin p.defined)
      checked == FoldLeft(LAMBDA q, kw : ERR_enter(q, lineno, "MISSING"), p, missing)
      number(kind, default) == IF kind \in p.defined THEN p[kind] ELSE default
  IN  [checked EXCEPT !.states       = number("states", 1),
                      !.actions      = number("actions", 1),
                      !.observations = number("observations", 0),
                      !.type = IF "observations" \in p.defined THEN "pomdp" ELSE "mdp"]

allocateIntermediateMDP(p) ==
  LET matrices == [a \in 0 .. p.actions - 1 |-> newIMatrix(p.states)]
  IN  [p EXCEPT !.IP = matrices,
                !.IR = IF IsPomdp(p) THEN matrices ELSE @,
                !.belief = IF IsPomdp(p) THEN [s \in 0 .. p.states - 1 |-> 0] ELSE @]

-----------------------------------------------------------------------------
\* Arguments and the start

\* The rules for state, action and obs: what is out of range is an error, and 0.
Found(p, kind, arg) == IF arg \in Names THEN H_lookup(p, arg, kind) ELSE arg

IsBad(p, kind, arg) ==
  ~(arg = WILDCARD_SPEC) /\ Found(p, kind, arg) \notin 0 .. p[kind] - 1

Argument(p, kind, arg) ==
  IF arg = WILDCARD_SPEC THEN WILDCARD_SPEC
  ELSE IF IsBad(p, kind, arg) THEN 0 ELSE Found(p, kind, arg)

\* The range from min to max that setMatrixContext sets for an argument.
Selected(arg, number) == IF arg = WILDCARD_SPEC THEN 0 .. number - 1 ELSE {arg}

BadProbs(values) == \E k \in DOMAIN values : values[k] \notin 0 .. Unit

\* The errors of checkMatrix for a list of values.
checkMatrix(p, values, needed, lineno) ==
  ErrorIf(ErrorIf(p, Len(values) < needed, lineno, "TOO_FEW_ENTRIES"),
          Len(values) > needed, lineno, "TOO_MANY_ENTRIES")

setStartStateUniform(p) ==
  IF IsPomdp(p) THEN [p EXCEPT !.belief = [s \in DOMAIN @ |-> Unit \div p.states]] ELSE p

\* A list of probabilities for a POMDP, one number for an MDP.
EnterStart(p, values, lineno) ==
  IF IsPomdp(p)
  THEN LET entered == [p EXCEPT !.belief = [s \in DOMAIN @ |->
                         IF s < Len(values) THEN values[s + 1] ELSE @[s]]]
       IN  checkMatrix(ErrorIf(entered, BadProbs(values), lineno, "BAD_PROB_VAL"),
                       values, p.states, lineno)
  ELSE ErrorIf([p EXCEPT !.start = Head(values)], Len(values) > 1, lineno,
               "TOO_MANY_ENTRIES")

\* start: <name>
EnterStartName(p, name, lineno) ==
  IF IsBad(p, "states", name) THEN ERR_enter(p, lineno, "BAD_STATE_STR")
  ELSE IF IsPomdp(p) THEN [p EXCEPT !.belief[Found(p, "states", name)] = Unit]
  ELSE [p EXCEPT !.start = Found(p, "states", name)]

\* start include, start exclude: setMatrixContext, then enterStartState for
\* each state of the list.
EnterStartStates(p, form, args, lineno) ==
  LET named   == {Argument(p, "states", args[k]) : k \in DOMAIN args}
      bad     == \E k \in DOMAIN args : IsBad(p, "states", args[k])
      checked == ErrorIf(p, bad, lineno, "BAD_STATE")
      inside(s) == (s \in named) = (form = "include")
  IN  IF ~IsPomdp(p) THEN ERR_enter(checked, lineno, "BAD_START_STATE_TYPE")
      ELSE [checked EXCEPT !.belief = [s \in DOMAIN @ |-> IF inside(s) THEN Unit ELSE 0]]

start_state(p, st, lineno) ==
  CASE st.form = "none"    -> setStartStateUniform(p)
    [] st.form = "uniform" -> ErrorIf(setStartStateUniform(p), ~IsPomdp(p), lineno,
                                      "BAD_START_STATE_TYPE")
    [] st.form = "reset"   -> ERR_enter(p, lineno, "BAD_RESET_USAGE")
    [] st.form = "list"    -> EnterStart(p, st.values, lineno)
    [] st.form = "name"    -> EnterStartName(p, Head(st.args), lineno)
    [] st.form \in {"include", "exclude"} ->
         EnterStartStates(p, st.form, st.args, lineno)

\* endStartStates: lists of states are normalised, everything else is checked.
endStartStates(p, form, lineno) ==
  LET total == MapThenSumSet(LAMBDA s : p.belief[s], DOMAIN p.belief)
  IN  IF ~IsPomdp(p) THEN p
      ELSE IF form \in {"include", "exclude"}
      THEN IF total = 0 THEN ERR_enter(p, lineno, "BAD_START_PROB_SUM")
           ELSE [p EXCEPT !.belief = [s \in DOMAIN @ |-> (@[s] * Unit) \div total]]
      ELSE ErrorIf(p, total # Unit, NO_LINE, "BAD_START_PROB_SUM")

NoStart == [kw |-> "start", form |-> "none"]

\* From the end of the preamble up to the end of the start.
EndPreamble(p, st, lineno) ==
  LET ready == allocateIntermediateMDP(verifyPreamble(p, lineno))
  IN  [endStartStates(start_state(ready, st, lineno), st.form, lineno)
         EXCEPT !.part = "body"]

-----------------------------------------------------------------------------
\* The body

ArgumentKinds(kw) ==
  CASE kw = "T" -> <<"actions", "states", "states">>
    [] kw = "O" -> <<"actions", "states", "observations">>
    [] kw = "R" -> <<"actions", "states", "states", "observations">>

\* Only rewards have a sign.
Unsigned(st) == \A k \in DOMAIN st.values : st.values[k] >= 0

\* What the grammar takes after the arguments.
WellFormed(st) ==
  LET n == Len(st.args)
  IN  /\ n \in 1 .. Len(ArgumentKinds(st.kw))
      /\ st.form = "list" =>
           /\ IF n = Len(ArgumentKinds(st.kw)) THEN Len(st.values) = 1 ELSE st.values # <<>>
           /\ st.kw = "R" \/ Unsigned(st)
      /\ st.form # "list" => st.kw # "R" /\ n < 3
      /\ st.form = "identity" => st.kw = "T" /\ n = 1
      /\ st.form = "reset" => st.kw = "O" \/ n = 2

\* What a T or O statement enters in the matrices of its actions: triples of
\* row, column and value.  The reset of an MDP enters only a 1.
Places(p, st, args) ==
  LET width == p[ArgumentKinds(st.kw)[3]]
      n     == Len(args)
      place == (IF n >= 2 THEN Selected(args[2], p.states) ELSE 0 .. p.states - 1)
                 \X (IF n = 3 THEN Selected(args[3], width) ELSE 0 .. width - 1)
      nth(r, c) == CASE n = 3 -> 1 [] n = 2 -> c + 1 [] n = 1 -> r * width + c + 1
  IN  CASE st.form = "list" ->
             {<<rc[1], rc[2], st.values[nth(rc[1], rc[2])]>> :
                rc \in {x \in place : nth(x[1], x[2]) <= Len(st.values)}}
        [] st.form = "uniform" -> {<<rc[1], rc[2], Unit \div width>> : rc \in place}
        [] st.form = "identity" ->
             {<<rc[1], rc[2], IF rc[1] = rc[2] THEN Unit ELSE 0>> : rc \in place}
        [] st.form = "reset" ->
             IF st.kw = "O" THEN {}
             ELSE IF IsPomdp(p) THEN {<<rc[1], rc[2], p.belief[rc[2]]>> : rc \in place}
             ELSE {<<rc[1], p.start, Unit>> : rc \in place}

\* A T or O statement.  In an MDP only the error of checkProbs matters of an O.
enterMatrix(p, st, args, lineno) ==
  LET im     == IF st.kw = "T" THEN "IP" ELSE "IR"
      width  == p[ArgumentKinds(st.kw)[3]]
      needed == CASE Len(args) = 3 -> 1 [] Len(args) = 2 -> width
                  [] Len(args) = 1 -> p.states * width
      entered == [p EXCEPT ![im] = [a \in DOMAIN @ |->
                    IF a \in Selected(args[1], p.actions)
                    THEN AddEntries(@[a], Places(p, st, args)) ELSE @[a]]]
      checked == CASE st.form = "list" ->
                        checkMatrix(ErrorIf(entered, BadProbs(st.values), lineno,
                                            "BAD_PROB_VAL"), st.values, needed, lineno)
                   [] st.form = "reset" -> ErrorIf(entered, st.kw = "O", lineno,
                                                   "BAD_RESET_USAGE")
                   [] OTHER -> entered
  IN  IF st.kw = "O" /\ ~IsPomdp(p) THEN [p EXCEPT !.obsSpec = TRUE] ELSE checked

\* An R statement: setMatrixContext begins a node, its values are entered row
\* by row, checkMatrix ends it.
enterReward(p, st, args, lineno) ==
  LET n      == Len(args)
      arg(k) == IF k <= n THEN args[k] ELSE IF k = 4 /\ ~IsPomdp(p) THEN 0 ELSE NOT_PRESENT
      width  == CASE n = 4 -> 1
                  [] n = 3 -> IF IsPomdp(p) THEN p.observations ELSE 1
                  [] n \in {1, 2} -> IF IsPomdp(p) THEN p.observations ELSE p.states
      rows   == IF n = 1 \/ (n = 2 /\ IsPomdp(p)) THEN p.states ELSE 1
      enter(node, k) ==
        LET row == (k - 1) \div width
            col == (k - 1) % width
        IN  IF IsPomdp(p) THEN enterImmReward(p, node, 0, row, col, st.values[k])
            ELSE enterImmReward(p, node, row, col, 0, st.values[k])
      node   == FoldLeft(enter, newImmReward(p, args[1], arg(2), arg(3), arg(4)),
                         [k \in 1 .. Min({Len(st.values), rows * width}) |-> k])
      tree   == IF p.tree = NULL THEN dtInit ELSE p.tree
  IN  IF n = (IF IsPomdp(p) THEN 1 ELSE 4) THEN ERR_enter(p, lineno, "BAD_REWARD_SYNTAX")
      ELSE checkMatrix([p EXCEPT !.tree = doneImmReward(p, tree, node)],
                       st.values, rows * width, lineno)

\* param_spec
Body(p, st, lineno) ==
  LET kinds   == ArgumentKinds(st.kw)
      args    == [k \in DOMAIN st.args |-> Argument(p, kinds[k], st.args[k])]
      bad     == SelectSeq([k \in DOMAIN st.args |-> k],
                           LAMBDA k : IsBad(p, kinds[k], st.args[k]))
      checked == FoldLeft(LAMBDA q, k : ERR_enter(q, lineno, "BAD_VAL"), p, bad)
  IN  IF st.kw = "R" THEN enterReward(checked, st, args, lineno)
      ELSE enterMatrix(checked, st, args, lineno)

yyerror(p, lineno) == [ERR_enter(p, lineno, "PARSE_ERR") EXCEPT !.part = "failed"]

\* The next statement of a file: the first that is not of the preamble ends it.
Statement(p, st, lineno) ==
  LET isBody == st.kw \in {"T", "O", "R"}
      begun  == IF p.part = "preamble" /\ isBody THEN EndPreamble(p, NoStart, lineno) ELSE p
  IN  IF isBody
      THEN IF WellFormed(st) THEN Body(begun, st, lineno) ELSE yyerror(begun, lineno)
      ELSE IF p.part # "preamble" \/ (st.kw = "start" /\ st.form = "list" /\ ~Unsigned(st))
      THEN yyerror(p, lineno)
      ELSE IF st.kw = "start" THEN EndPreamble(p, st, lineno)
      ELSE Preamble(p, st, lineno)

BadRows(im) == {r \in DOMAIN im : sumIMatrixRowValues(im, r) # Unit}

\* checkProbs, at the end of the file.
checkProbs(p) ==
  LET errors(ims) == MapThenSumSet(LAMBDA a : Cardinality(BadRows(ims[a])), DOMAIN ims)
      enter(q, n, id) == FoldLeft(LAMBDA r, k : ERR_enter(r, NO_LINE, id), q, [k \in 1 .. n |-> k])
      trans == enter(p, errors(p.IP), "BAD_TRANS_PROB_SUM")
      obs   == IF IsPomdp(p) THEN enter(trans, errors(p.IR), "BAD_OBS_PROB_SUM") ELSE trans
  IN  ErrorIf(obs, p.obsSpec /\ ~IsPomdp(p), NO_LINE, "OBS_IN_MDP_PROBLEM")

\* yyparse at the end of the file.
EndOfFile(p, lineno) ==
  checkProbs(IF p.part = "preamble" THEN EndPreamble(p, NoStart, lineno) ELSE p)

-----------------------------------------------------------------------------
\* From the globals of the grammar to a model: mdp.c after the file has been
\* read, and CassandraParser.cc.

\* computeRewards: expected rewards, which are whole numbers out of Unit * Unit.
\* They go through every entry of the packed matrices.
ExpectedReward(p, P, R, a, i) ==
  LET expected(m, row, of(_)) ==
        MapThenSumSet(LAMBDA k : m.mat_val[k] * of(m.col[k]), RowOf(m, row))
      inner(j) == IF IsPomdp(p)
                  THEN expected(R[a], j, LAMBDA z : getImmediateReward(p.tree, a, i, j, z))
                  ELSE Unit * getImmediateReward(p.tree, a, i, j, 0)
  IN  expected(P[a], i, inner)

\* convertMatrices
convertMatrices(p) ==
  LET P == [a \in DOMAIN p.IP |-> transformIMatrix(p.IP[a])] @@ <<>>
      R == [a \in DOMAIN p.IR |-> transformIMatrix(p.IR[a])] @@ <<>>
      rewards == {<<a, i, ExpectedReward(p, P, R, a, i)>> :
                    a \in 0 .. p.actions - 1, i \in 0 .. p.states - 1}
  IN  [P |-> P, R |-> R,
       Q |-> transformIMatrix(AddEntries(newIMatrix(p.actions), rewards))]

\* copy of a packed matrix to a kmatrix (sla_cassandra.h), row by row.
CopyMatrix(A, numColumns) ==
  LET rowOf(k) == CHOOSE r \in DOMAIN A.row_start : k \in RowOf(A, r)
  IN  canonicalize([size1 |-> A.num_rows, size2 |-> numColumns,
                    data  |-> [k \in DOMAIN A.col |->
                                 [r |-> rowOf(k), c |-> A.col[k], value |-> A.mat_val[k]]]])

\* readModelFromFile, after readMDP.
readModelFromFile(p, expectPomdp) ==
  LET c == convertMatrices(p)
      Tk(a) == CopyMatrix(c.P[a], p.states)
      m == [ discount |-> p.discount, numStates |-> p.states, numActions |-> p.actions,
             numObservations |-> IF expectPomdp THEN p.observations ELSE -1,
             R   |-> copy(kmatrix_transpose_in_place(CopyMatrix(c.Q, p.states))),
             T   |-> [a \in DOMAIN c.P |-> copy(Tk(a))] @@ <<>>,
             Ttr |-> [a \in DOMAIN c.P |-> copy(kmatrix_transpose_in_place(Tk(a)))] @@ <<>>,
             O   |-> IF expectPomdp
                     THEN [a \in DOMAIN c.R |-> copy(CopyMatrix(c.R[a], p.observations))] @@ <<>>
                     ELSE <<>>,
             initial |-> IF expectPomdp THEN ToSparse(p.belief) ELSE StateVector(p.start) ]
  IN  m @@ [isTerminalState |-> checkForTerminalStates(m)]
=============================================================================
