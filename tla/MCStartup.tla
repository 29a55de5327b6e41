----------------------------- MODULE MCStartup -----------------------------
(***************************************************************************)
(* Command lines, config files and model files for Startup, and what the   *)
(* model that is read must say.  The declared meaning of a file is written *)
(* as a question: which statement speaks last of a place, and what it says *)
(* there; the parsers go through the file and enter values instead.        *)
(***************************************************************************)
EXTENDS Startup

CONSTANTS x, y, z   \* names

MCNames == {x, y, z}

\* Two of the names are in the same list of the table.
MCH_string == [n \in MCNames |-> IF n = z THEN 1 ELSE 0]

-----------------------------------------------------------------------------
\* The settings

MCDefaultFields ==
  [ command |-> "none", simulatorModel |-> "none", searchStrategy |-> "frtdp",
    modelType |-> "-", lowerBoundRepresentation |-> "-", upperBoundRepresentation |-> "-",
    maintainLowerBound |-> "-", maintainUpperBound |-> "1", policyOutputFile |-> "-",
    useFastModelParser |-> "0", debugLevel |-> "0", maxHorizon |-> "-1",
    useWeakUpperBoundHeuristic |-> "0", runTimeActionSelection |-> "-",
    customMDPNumStates |-> "5" ]

MCOptions ==
  LET option == [ searchStrategy |-> "--searchStrategy", modelType |-> "--modelType",
                  lowerBoundRepresentation |-> "--lowerBoundRepresentation",
                  upperBoundRepresentation |-> "--upperBoundRepresentation",
                  maintainLowerBound |-> "--maintainLowerBound",
                  maintainUpperBound |-> "--maintainUpperBound",
                  policyOutputFile |-> "--policyOutputFile",
                  useFastModelParser |-> "--useFastModelParser",
                  debugLevel |-> "--debugLevel", maxHorizon |-> "--maxHorizon",
                  useWeakUpperBoundHeuristic |-> "--useWeakUpperBoundHeuristic",
                  runTimeActionSelection |-> "--runTimeActionSelection",
                  customMDPNumStates |-> "--customMDPNumStates" ]
  IN  [w \in Range(option) |-> CHOOSE f \in DOMAIN option : option[f] = w] @@
        ("--noSuchField" :> "noSuchField")

MCDefaultAliases ==
  ("bench" :> <<"benchmark">>) @@ ("-d" :> <<"--debugLevel", "1">>)
    @@ ("-f" :> <<"--useFastModelParser", "1">>)
    @@ ("-l" :> <<"--lowerBoundRepresentation">>)
    @@ ("-o" :> <<"--policyOutputFile">>) @@ ("-s" :> <<"--searchStrategy">>)
    @@ ("-u" :> <<"--upperBoundRepresentation">>)

\* -m is an alias only in a config file.
MCAliasOrder == <<"-d", "-f", "-l", "-m", "-o", "-s", "-u", "bench">>

MCPartOf ==
  {<<"-d", "--debugLevel">>, <<"-f", "-file">>, <<"-l", "--lowerBoundRepresentation">>,
   <<"-s", "--searchStrategy">>, <<"-u", "--upperBoundRepresentation">>,
   <<"-u", "--useFastModelParser">>, <<"-u", "--useWeakUpperBoundHeuristic">>,
   <<"bench", "benchmark">>}

MCNumerals == ("0" :> 0) @@ ("1" :> 1) @@ ("2" :> 2) @@ ("3" :> 3) @@ ("5" :> 5) @@ ("-1" :> -1)

MCExtension ==
  ("m.pomdp" :> "pomdp") @@ ("m.mdp" :> "mdp") @@ ("x.racetrack" :> "racetrack")
    @@ ("model" :> "") @@ ("custom" :> "custom") @@ ("-file" :> "")

\* One option each.
OptionWords ==
  {<<"-s", s>> : s \in {"hsvi", "rtdp", "script", "dfs"}}
    \cup {<<"--searchStrategy", "lrtdp">>, <<"-l", "point">>, <<"-l", "convex">>,
          <<"-u", "point">>, <<"--upperBoundRepresentation", "sawtooth">>,
          <<"--maintainLowerBound", "0">>, <<"--maintainLowerBound", "1">>,
          <<"--maintainUpperBound", "0">>, <<"--runTimeActionSelection", "upper">>,
          <<"--runTimeActionSelection", "lower">>, <<"-o", "policy">>, <<"-o", "none">>,
          <<"-f">>, <<"-d">>, <<"-d", "2">>, <<"--modelType", "custom">>,
          <<"--useWeakUpperBoundHeuristic", "1">>, <<"--noSuchField", "1">>, <<"--">>, <<>>}

Line(isAlias, f, v) == [alias |-> isAlias, field |-> f, value |-> v]

ConfigFiles ==
  {<<>>, <<Line(FALSE, "searchStrategy", "hsvi")>>,
   <<Line(FALSE, "noSuchField", "1"), Line(FALSE, "searchStrategy", "hsvi")>>,
   <<Line(TRUE, "-m", <<"--maxHorizon">>), Line(FALSE, "command", "solve"),
     Line(FALSE, "simulatorModel", "m.mdp")>>}

-----------------------------------------------------------------------------
\* Model files

Values(kind) == [kw |-> "values", form |-> kind]
Said(kw, v) == [kw |-> kw, value |-> v, names |-> <<>>]
Named(kw, names) == [kw |-> kw, value |-> 0, names |-> names]
List(kw, args, values) == [kw |-> kw, form |-> "list", args |-> args, values |-> values]
Form(kw, args, form) == [kw |-> kw, form |-> form, args |-> args, values |-> <<>>]

Sizes == <<Said("states", 2), Said("actions", 2)>>

PreambleOf(d, sizes) == <<Said("discount", d), Values("reward")>> \o sizes
CostPreambleOf(d, sizes) == <<Said("discount", d), Values("cost")>> \o sizes

PomdpSizes    == Sizes \o <<Said("observations", 2)>>
PomdpPreamble == PreambleOf(2, PomdpSizes)
MdpPreamble   == PreambleOf(2, Sizes)

\* The transitions, as both parsers take them or with all of the grammar.  The
\* second state is absorbing in some of them.
ToTheSecond ==
  <<List("T", <<0, 0, 1>>, <<4>>), List("T", <<0, 1, 1>>, <<4>>),
    List("T", <<1, 1, 1>>, <<4>>), List("T", <<1, 0, 1>>, <<3>>),
    List("T", <<1, 0, 0>>, <<1>>)>>

PlainT ==
  {ToTheSecond,
   <<List("T", <<0, 0, 1>>, <<4>>), List("T", <<0, 1, 1>>, <<4>>),
     List("T", <<1, 0, 1>>, <<4>>), List("T", <<1, 1, 1>>, <<4>>)>>,
   <<List("T", <<0, 0, 0>>, <<1>>), List("T", <<0, 0, 1>>, <<4>>),
     List("T", <<0, 1, 0>>, <<4>>), List("T", <<0, 0, 0>>, <<0>>),
     List("T", <<1, 0, 0>>, <<4>>), List("T", <<1, 1, 0>>, <<2>>),
     List("T", <<1, 1, 1>>, <<2>>)>>,
   <<List("T", <<0, 0, 0>>, <<4>>), List("T", <<1, 1, 1>>, <<4>>)>>}

GrammarT ==
  {<<Form("T", <<-1>>, "identity"), List("T", <<0, 0>>, <<1, 3>>)>>,
   <<Form("T", <<-1>>, "uniform"), List("T", <<1, -1, 0>>, <<0>>),
     List("T", <<1, -1, 1>>, <<4>>)>>,
   <<List("T", <<0>>, <<3, 1, 0, 4>>), Form("T", <<1>>, "identity"),
     Form("T", <<1, 0>>, "reset")>>,
   <<List("T", <<-1, -1>>, <<4, 0>>), Form("T", <<1, 1>>, "uniform"),
     List("T", <<0, 0>>, <<0, 4>>)>>,
   <<Form("T", <<-1>>, "identity"), List("T", <<0, 2, 1>>, <<4>>)>>,
   <<Form("T", <<-1>>, "identity"), List("T", <<0, 1>>, <<1, 2, 1>>)>>,
   <<Form("T", <<0>>, "identity"), List("T", <<1>>, <<5, 0, 0, 4>>)>>,
   <<Form("T", <<0>>, "identity"), Form("T", <<1, 0, 0>>, "uniform")>>}

PlainO ==
  {<<List("O", <<0, 0, 0>>, <<4>>), List("O", <<0, 1, 1>>, <<4>>),
     List("O", <<1, 0, 0>>, <<3>>), List("O", <<1, 0, 1>>, <<1>>),
     List("O", <<1, 1, 1>>, <<4>>)>>}

GrammarO ==
  {<<Form("O", <<-1>>, "uniform"), List("O", <<1, 0>>, <<4, 0>>)>>,
   <<List("O", <<-1>>, <<1, 3, 3, 1>>), List("O", <<-1, 1, 1>>, <<4>>),
     List("O", <<0, 1, 0>>, <<0>>), List("O", <<1, 1, 0>>, <<0>>)>>,
   <<Form("O", <<-1>>, "uniform"), List("O", <<1, 0, 1>>, <<4>>)>>,
   <<Form("O", <<-1>>, "uniform"), Form("O", <<0>>, "reset")>>}

\* Rows that sum to 1 with an entry below 0; that of the third T comes first in
\* its column and last in its row.
NegativeT ==
  {ToTheSecond \o <<List("T", <<0, 0, 0>>, <<-4>>), List("T", <<0, 0, 1>>, <<8>>)>>,
   ToTheSecond \o <<List("T", <<1, 1, 0>>, <<5>>), List("T", <<1, 1, 1>>, <<-1>>)>>,
   ToTheSecond \o <<List("T", <<0, 0, 0>>, <<5>>), List("T", <<0, 0, 1>>, <<-1>>)>>}

NegativeO ==
  {o \o <<List("O", <<0, 1, 0>>, <<-1>>), List("O", <<0, 1, 1>>, <<5>>)>> : o \in PlainO}

OnTheFirst(wild) ==
  <<List("R", <<0, 0>> \o wild, <<-2>>), List("R", <<1, 0>> \o wild, <<-1>>)>>

PlainR(wild) ==
  {OnTheFirst(wild),
   <<List("R", <<1, 1>> \o wild, <<3>>), List("R", <<0, 0>> \o wild, <<2>>),
     List("R", <<0, 0>> \o wild, <<5>>)>>}

PomdpR ==
  {<<List("R", <<-1, -1, -1, -1>>, <<-1>>), List("R", <<-1, 1, -1, -1>>, <<0>>),
     List("R", <<0, -1, 1, 0>>, <<2>>)>>,
   <<List("R", <<0, 0, 1>>, <<3, 1>>), List("R", <<1, -1>>, <<1, 2, 3, -1>>),
     List("R", <<1, 1, 0, 1>>, <<0>>), List("R", <<-1, 0, -1, 0>>, <<-2>>)>>,
   <<List("R", <<0>>, <<1, 2, 3, 4>>), List("R", <<0, 0, 0, 0>>, <<1>>)>>}

MdpR ==
  {<<List("R", <<-1, -1, -1>>, <<-1>>), List("R", <<-1, 1, -1>>, <<0>>)>>,
   <<List("R", <<0, 0>>, <<3, 1>>), List("R", <<1>>, <<1, 2, 3, -1>>),
     List("R", <<1, 1, 0>>, <<0>>)>>,
   <<List("R", <<0, 0, 1, 1>>, <<1>>)>>}

PomdpStarts ==
  {List("start", <<>>, <<2, 2>>), List("start", <<>>, <<0, 4>>),
   List("start", <<>>, <<-1, 4>>), List("start", <<>>, <<-1, 5>>),
   List("start", <<>>, <<3, 2>>), List("start", <<>>, <<4>>),
   Form("start", <<>>, "uniform"), Form("start", <<>>, "reset"),
   Form("start", <<1>>, "include"), Form("start", <<1>>, "exclude"),
   Form("start", <<0, 1>>, "exclude"), Form("start", <<z>>, "name")}

MdpStarts ==
  {List("start", <<>>, <<0>>), List("start", <<>>, <<1>>), List("start", <<>>, <<1, 0>>),
   Form("start", <<0>>, "include"), Form("start", <<>>, "uniform")}

\* Names instead of numbers; the first one names a state and an action.
NamedPreamble == PreambleOf(2, <<Named("actions", <<x, z>>), Named("states", <<x, y>>)>>)

NamedBodies ==
  {<<Form("T", <<x>>, "identity"), List("T", <<z, x>>, <<0, 4>>),
     List("T", <<z, y, 1>>, <<4>>), List("R", <<z, x, y>>, <<2>>)>>,
   <<Form("T", <<-1>>, "identity"), List("R", <<y, x, y>>, <<2>>)>>}

\* Preambles that are not complete, not in order, or not right.
OddPreambles ==
  {PreambleOf(5, Sizes), PreambleOf(2, <<Said("states", 0), Said("actions", 2)>>),
   PreambleOf(2, <<Named("states", <<x, x>>), Said("actions", 2)>>),
   <<Said("discount", 2)>> \o Sizes,
   CostPreambleOf(2, Tail(Sizes))}

\* All files with one part of each kind.
FilesOf(preambles, starts, ts, os, rs) ==
  {p \o s \o t \o o \o r : p \in preambles, s \in starts, t \in ts, o \in os, r \in rs}

One(statements) == {<<st>> : st \in statements}

PomdpStart == <<List("start", <<>>, <<2, 2>>)>>
MdpStart   == <<List("start", <<>>, <<0>>)>>

SmallPomdp == PomdpPreamble \o PomdpStart \o ToTheSecond
                \o (CHOOSE o \in PlainO : TRUE) \o OnTheFirst(<<-1, -1>>)
SmallMdp   == MdpPreamble \o MdpStart \o ToTheSecond \o OnTheFirst(<<-1>>)

PomdpFiles ==
  FilesOf({PomdpPreamble}, {<<>>, PomdpStart}, PlainT \cup GrammarT, PlainO \cup GrammarO,
          PlainR(<<-1, -1>>) \cup PomdpR)
    \cup FilesOf({PomdpPreamble}, One(PomdpStarts), {ToTheSecond} \cup
                 {t \in GrammarT : Last(t).form = "reset"}, PlainO, PlainR(<<-1, -1>>))
    \cup FilesOf({PomdpPreamble}, {PomdpStart}, NegativeT \cup {ToTheSecond},
                 PlainO \cup NegativeO, PlainR(<<-1, -1>>))
    \cup FilesOf({CostPreambleOf(2, PomdpSizes)}, {PomdpStart}, PlainT, PlainO,
                 PlainR(<<-1, -1>>) \cup PomdpR)
    \cup {PomdpPreamble \o PomdpStart \o <<Said("discount", 2)>>}

MdpFiles ==
  FilesOf({MdpPreamble}, One(MdpStarts), PlainT \cup GrammarT, {<<>>}, PlainR(<<-1>>) \cup MdpR)
    \cup FilesOf({NamedPreamble}, {<<Form("start", <<n>>, "name")>> : n \in MCNames},
                 NamedBodies, {<<>>}, {<<>>})
    \cup FilesOf({PreambleOf(4, Sizes), MdpStart \o MdpPreamble}, {MdpStart}, PlainT, {<<>>},
                 PlainR(<<-1>>))
    \cup FilesOf({MdpPreamble}, {MdpStart}, NegativeT, {<<>>}, PlainR(<<-1>>))
    \cup FilesOf({CostPreambleOf(2, Sizes)}, {MdpStart}, PlainT, {<<>>},
                 PlainR(<<-1>>) \cup MdpR)
    \cup {MdpPreamble \o MdpStart \o <<Form("T", <<-1>>, "identity"), st>> \o
            <<List("R", <<0, 0, -1>>, <<1>>)>> :
              st \in {Form("O", <<-1>>, "uniform"), Said("discount", 2)}}

\* Three states; the last one is reached after at most two steps.
ChainFiles ==
  {PreambleOf(d, <<Said("states", 3), Said("actions", 2)>>) \o MdpStart \o
     <<List("T", <<0>>, <<0, 4, 0, 0, 0, 4, 0, 0, 4>>), List("T", <<1, -1>>, <<0, 0, 4>>),
       List("T", <<1, 0>>, <<0, 1, 3>>), List("R", <<-1, -1, -1>>, <<r>>),
       List("R", <<-1, 2, -1>>, <<0>>), List("R", <<1, 1, -1>>, <<q>>)>> :
     d \in {2, 4}, r \in {-2, 0, 1}, q \in {-3, 2}}

OddFiles == FilesOf(OddPreambles, {MdpStart}, {<<Form("T", <<-1>>, "identity")>>}, {<<>>},
                    PlainR(<<-1>>))

-----------------------------------------------------------------------------
\* Command lines with their files

Run(arguments, lines, ends, contents) ==
  [args |-> arguments, config |-> lines, terminated |-> ends, file |-> contents]

FileOf(model) == CASE model = "m.pomdp" -> SmallPomdp [] model = "m.mdp" -> SmallMdp
                   [] OTHER -> <<>>

Models == {"m.pomdp", "m.mdp", "x.racetrack", "model", "custom"}

OptionRuns ==
  {Run(a \o b \o <<"solve", m>>, <<>>, TRUE, FileOf(m)) :
     a \in OptionWords, b \in OptionWords, m \in Models}

CommandRuns ==
  {Run(a \o c, <<>>, TRUE, FileOf(Last(<<"none">> \o c))) :
     a \in {<<>>, <<"-o", "-file">>, <<"-s", "lrtdp">>, <<"-m">>, <<"--maxHorizon", "2">>},
     c \in {<<>>, <<"solve">>, <<"evaluate", "m.mdp">>, <<"solve", "m.mdp", "m.mdp">>}
             \cup {<<"benchmark", m>> : m \in Models}}
    \cup {Run(<<"--modelType", "custom", "--customMDPNumStates", n, "solve", "model">>,
              <<>>, TRUE, <<>>) : n \in {"1", "2", "5"}}

ConfigRuns ==
  {Run(a, c, ends, SmallMdp) :
     a \in {<<>>, <<"solve", "m.mdp">>, <<"-m", "2">>, <<"-s", "rtdp", "benchmark", "m.mdp">>,
            <<"-m", "5", "-s", "lrtdp">>},
     c \in ConfigFiles, ends \in BOOLEAN}

FileRuns ==
  {Run(a \o <<"solve", "m.pomdp">>, <<>>, TRUE, f) : a \in {<<>>, <<"-f">>}, f \in PomdpFiles}
    \cup {Run(a \o <<"solve", "m.mdp">>, <<>>, TRUE, f) :
            a \in {<<>>, <<"-f">>, <<"--maxHorizon", "1">>}, f \in MdpFiles}
    \cup {Run(<<"--maxHorizon", n, "solve", "m.mdp">>, <<>>, TRUE, f) :
            n \in {"-1", "2", "3"}, f \in ChainFiles}
    \cup {Run(<<"--maxHorizon", n, "solve", "m.pomdp">>, <<>>, TRUE,
              PomdpPreamble \o PomdpStart \o t \o (CHOOSE o \in PlainO : TRUE) \o r) :
            n \in {"1", "2"}, t \in PlainT, r \in PlainR(<<-1, -1>>)}
    \cup {Run(<<"solve", "m.mdp">>, <<>>, TRUE, f) : f \in OddFiles}

\* Rewards for all outcomes of an action, and zeros among them later on.
ZeroRewardRuns ==
  {Run(<<"solve", "m.mdp">>, <<>>, TRUE,
       MdpPreamble \o MdpStart \o t \o
         <<List("R", <<-1, -1, -1>>, <<1>>), List("R", <<1>>, <<2, 0, 3, 0>>)>>) :
     t \in PlainT}
    \cup {Run(<<"solve", "m.pomdp">>, <<>>, TRUE,
              PomdpPreamble \o PomdpStart \o t \o (CHOOSE o \in PlainO : TRUE) \o
                <<List("R", <<0, -1, -1, -1>>, <<1>>), List("R", <<0, 1>>, <<0, 2, 3, 0>>)>>) :
            t \in PlainT}

MCTasks == OptionRuns \cup CommandRuns \cup ConfigRuns \cup FileRuns

-----------------------------------------------------------------------------
\* What a file says

SaidOf(kw) == Last(SelectSeq(task.file, LAMBDA st : st.kw = kw))

NumberOf(kind) ==
  LET st == SaidOf(kind) IN IF st.names = <<>> THEN st.value ELSE Len(st.names)

Numbered(kind, arg) ==
  IF arg \notin MCNames THEN arg
  ELSE LET names == SaidOf(kind).names
       IN  (CHOOSE i \in DOMAIN names : names[i] = arg) - 1

StatesSaid  == 0 .. NumberOf("states") - 1
ActionsSaid == 0 .. NumberOf("actions") - 1
ObsSaid     == 0 .. (IF expectPomdp THEN NumberOf("observations") - 1 ELSE 0)

\* The kinds of the arguments of a statement.
KindsSaid(kw) ==
  CASE kw = "T" -> <<"actions", "states", "states">>
    [] kw = "O" -> <<"actions", "states", "observations">>
    [] kw = "R" -> IF expectPomdp THEN <<"actions", "states", "states", "observations">>
                   ELSE <<"actions", "states", "states">>

\* Whether a statement speaks of a place.
SpeaksOf(st, kw, place) ==
  /\ st.kw = kw
  /\ \A k \in DOMAIN st.args :
       st.args[k] = -1 \/ Numbered(KindsSaid(kw)[k], st.args[k]) = place[k]

\* The start: a distribution, or a state.
StartSaid ==
  IF ~ \E k \in DOMAIN task.file : task.file[k].kw = "start"
  THEN [s \in StatesSaid |-> Unit \div Cardinality(StatesSaid)]
  ELSE LET st == SaidOf("start")
           chosen == CASE st.form = "uniform" -> StatesSaid
                       [] st.form = "include" -> {Numbered("states", a) : a \in ToSet(st.args)}
                       [] st.form = "exclude" ->
                            StatesSaid \ {Numbered("states", a) : a \in ToSet(st.args)}
                       [] st.form = "name" -> {Numbered("states", Head(st.args))}
                       [] st.form = "list" -> {Head(st.values)}
       IN  IF expectPomdp /\ st.form = "list" THEN [s \in StatesSaid |-> st.values[s + 1]]
           ELSE [s \in StatesSaid |-> IF s \in chosen THEN Unit \div Cardinality(chosen) ELSE 0]

\* What it says there: its values are given in the order of the arguments that
\* it leaves out.
SaysOf(st, kw, place) ==
  LET size(k) == IF (kw = "O" /\ k = 3) \/ k = 4 THEN Cardinality(ObsSaid)
                 ELSE Cardinality(StatesSaid)
      nth == FoldLeft(LAMBDA n, k : n * size(k) + place[k], 0,
                      [j \in 1 .. Len(place) - Len(st.args) |-> j + Len(st.args)])
  IN  CASE st.form = "list"     -> st.values[nth + 1]
        [] st.form = "uniform"  -> Unit \div size(3)
        [] st.form = "identity" -> IF place[2] = place[3] THEN Unit ELSE 0
        [] st.form = "reset"    -> StartSaid[place[3]]

\* The last statement that speaks of a place counts; of the others none does.
LastSays(kw, place) ==
  LET speaking == SelectSeq(task.file, LAMBDA st : SpeaksOf(st, kw, place))
  IN  IF speaking = <<>> THEN 0 ELSE SaysOf(Last(speaking), kw, place)

SumOver(S, value(_)) == MapThenSumSet(value, S)

TSaid == [p \in ActionsSaid \X StatesSaid \X StatesSaid |-> LastSays("T", p)] @@ <<>>

OSaid == [p \in ActionsSaid \X StatesSaid \X ObsSaid |->
            IF expectPomdp THEN LastSays("O", p) ELSE Unit] @@ <<>>

RewardSaid(T, O, a, s) ==
  SumOver(StatesSaid, LAMBDA t : T[a, s, t] *
    SumOver(ObsSaid, LAMBDA o : O[a, t, o] *
      LastSays("R", IF expectPomdp THEN <<a, s, t, o>> ELSE <<a, s, t>>)))

-----------------------------------------------------------------------------
\* A distribution, or what the fast parser takes for one: it sums the entries of
\* a row and no more (FastParser.cc:298-307, 325-335), while the grammar refuses
\* negative ones.
Row(P, S) ==
  /\ SumOver(S, LAMBDA e : P[e]) = Unit
  /\ params.useFastModelParser \/ \A e \in S : P[e] >= 0

\* A model that is accepted is the one that the file declares: sizes and
\* discount, transitions and their transpose, observations, expected rewards
\* and the start, with the last statement for a place counting (but see
\* LastRewardCounts for zeros among the rewards of a matrix); but of a file that
\* gives costs the rewards are left out, because the code takes costs as they
\* stand for rewards (pomdp_spec.y:257-262).  Its rows sum to 1, and with the Cassandra
\* parser they are distributions; with the fast parser a row may have negative
\* entries, which are kept, and a start's negative entries count as 0
\* (FastParser.cc:404).  Exactly the states that no action leaves and no action
\* is rewarded in are terminal.  Both parsers (CassandraParser.cc, mdp.c,
\* pomdp_spec.y, imm-reward.c, decision-tree.c, FastParser.cc), on files with a
\* complete preamble.
ModelIsDeclared ==
  (stage = "construct" /\ params.modelType \in {"pomdp", "mdp"}) =>
    \E T \in {TSaid} : \E O \in {OSaid} :
      LET R == [a \in ActionsSaid |-> [s \in StatesSaid |-> RewardSaid(T, O, a, s)] @@ <<>>]
                 @@ <<>>
          start == [s \in StatesSaid |->
                      IF params.useFastModelParser THEN Max({0, StartSaid[s]}) ELSE StartSaid[s]]
      IN  /\ problem.discount = SaidOf("discount").value
          /\ problem.numStates = NumberOf("states") /\ problem.numActions = NumberOf("actions")
          /\ expectPomdp => problem.numObservations = NumberOf("observations")
          /\ \A a \in ActionsSaid, s \in StatesSaid :
               /\ Row([t \in StatesSaid |-> T[a, s, t]], StatesSaid)
               /\ \A t \in StatesSaid : /\ Get(problem.T[a], s, t) = T[a, s, t]
                                        /\ Get(problem.Ttr[a], t, s) = T[a, s, t]
               /\ expectPomdp =>
                    /\ Row([o \in ObsSaid |-> O[a, s, o]], ObsSaid)
                    /\ \A o \in ObsSaid : Get(problem.O[a], s, o) = O[a, s, o]
               /\ SaidOf("values").form = "reward" => Get(problem.R, s, a) = R[a][s]
          /\ \A s \in StatesSaid :
               problem.isTerminalState[s] <=>
                 \A a \in ActionsSaid : T[a, s, s] = Unit /\ R[a][s] = 0
          /\ Row(start, StatesSaid)
          /\ IF expectPomdp THEN ToDense(problem.initial) = start
             ELSE start[StateOf(problem.initial)] = Unit

\* The last value in a file for a reward is the one that is correct, as the
\* head of imm-reward.c says (imm-reward.c:79-87).
LastRewardCounts ==
  (stage = "construct" /\ params.modelType \in {"pomdp", "mdp"}) =>
    \E T \in {TSaid} : \E O \in {OSaid} :
      \A a \in ActionsSaid, s \in StatesSaid : Get(problem.R, s, a) = RewardSaid(T, O, a, s)

\* Every belief over two states whose weights are from 0 to 2.
Beliefs == {ToSparse([s \in Indices(problem.numStates) |-> IF s = 0 THEN i ELSE j]) :
              i \in 0 .. 2, j \in 0 .. 2} \ {NewCVector(problem.numStates)}

\* What the search asks of a model is what its matrices say: outcomes are the
\* successors of a state, each with its probability; the probability of an
\* observation and the belief after it are those of Bayes' rule, though the
\* code takes them from transposed and packed columns
\* (GenericDiscreteMDP.cc:62-112, Pomdp.cc:68-115).
SearchSeesModel ==
  (stage = "construct" /\ params.modelType \in {"pomdp", "mdp"}) =>
    LET T(a, s, t) == Get(problem.T[a], s, t)
        O(a, t, o) == Get(problem.O[a], t, o)
        S == States(problem)
        weight(b, a, t, o) == O(a, t, o) * SumOver(S, LAMBDA s : ValueAt(b.data, s) * T(a, s, t))
    IN  \A a \in Actions(problem) :
          IF ~expectPomdp
          THEN \A s \in S :
                 LET probs == getOutcomeProbVector(problem, StateVector(s), a)
                     next(o) == StateOf(getNextState(problem, StateVector(s), a, o))
                 IN  /\ {<<next(o), probs[o]>> : o \in DOMAIN probs}
                          = {<<t, T(a, s, t)>> : t \in {u \in S : T(a, s, u) # 0}}
                     /\ IsInjective([o \in DOMAIN probs |-> next(o)])
          ELSE \A b \in Beliefs :
                 LET probs == getObsProbVector(problem, b, a)
                 IN  /\ \A o \in DOMAIN probs :
                          LET next == getNextBelief(problem, b, a, o)
                          IN  /\ \A t \in S : ValueAt(next.data, t) = weight(b, a, t, o)
                              /\ probs[o] = sum(next)
                     /\ getBeliefReward(problem, b, a)
                          = SumOver(S, LAMBDA s : ValueAt(b.data, s) * Get(problem.R, s, a))
                     /\ getIsTerminalBelief(problem, b)
                          <=> \A s \in S : ValueAt(b.data, s) = 0 \/ problem.isTerminalState[s]

\* The vectors of a model, all of the same length.
VectorsOf(m) ==
  {copy_from_column(m.Ttr[0], s) : s \in States(m)}
    \cup {copy_from_column(m.T[1], s) : s \in States(m)}
    \cup {copy_from_column(m.R, a) : a \in Actions(m)}

\* All operations on two sparse vectors, place by place.
PairIsDense(u, v) ==
  LET d == ToDense(u)  e == ToDense(v)  I == DOMAIN d
      same(w, value(_)) == ToDense(w) = [i \in I |-> value(i)]
      dot == SumOver(I, LAMBDA i : d[i] * e[i])
  IN  /\ same(add(u, v), LAMBDA i : d[i] + e[i])
      /\ same(subtract(u, v), LAMBDA i : d[i] - e[i])
      /\ same(emult(u, v), LAMBDA i : d[i] * e[i])
      /\ inner_prod(u, v) = dot /\ DenseInnerProd(d, v) = dot
      /\ \A eps \in 0 .. 1 : dominates(u, v, eps) <=> \A i \in I : d[i] >= e[i] - eps
      /\ norm_1(u) = SumOver(I, LAMBDA i : Abs(d[i]))
      /\ norm_inf(u) = Max({Abs(d[i]) : i \in I})
      /\ u.data = ToSparse(d).data
      /\ mask_copy(u, mask_set_all(u.size)) = u
      /\ same(mask_copy(u, mask_set_to_one(v)), LAMBDA i : IF e[i] # 0 THEN d[i] ELSE 0)
      /\ mask_copy_dense(d, mask_set_to_one(v)) = mask_copy(u, mask_set_to_one(v))
      /\ mask_dominates(u, v, 0, mask_set_to_one(u), mask_set_to_one(v)) <=>
           \A i \in I : (e[i] # 0 => d[i] # 0) /\ d[i] >= e[i]

\* All products with a matrix.
ProductsAreDense(A, v) ==
  LET d == ToDense(v)
      product  == [r \in Indices(A.size1) |->
                     SumOver(DOMAIN d, LAMBDA i : Get(A, r, i) * d[i])] @@ <<>>
      transposed == [c \in Indices(A.size2) |->
                       SumOver(DOMAIN d, LAMBDA i : Get(A, i, c) * d[i])] @@ <<>>
  IN  /\ MultDense(A, v) = product
      /\ mult(A, v) = ToSparse(product) /\ MultSparse(A, v) = ToSparse(product)
      /\ DenseTimes(d, A) = transposed /\ SparseTimes(v, A) = ToSparse(transposed)
      /\ \A c \in Indices(A.size2) :
           ToDense(emult_column(A, c, v)) = [i \in DOMAIN d |-> Get(A, i, c) * d[i]]

\* A large matrix with few entries, some of them entered twice.
FewEntries == {<<0, 0, 2>>, <<0, 0, -1>>, <<3, 0, 1>>, <<1, 3, 2>>, <<0, 3, 0>>}

LargeIsDense ==
  \A p \in FewEntries, q \in FewEntries, i \in 0 .. 3 :
    LET K == kmatrix_set_entry(kmatrix_set_entry(NewKMatrix(4, 4), p[1], p[2], p[3]),
                               q[1], q[2], q[3])
        at(r, c) == IF <<r, c>> = <<q[1], q[2]>> THEN q[3]
                    ELSE IF <<r, c>> = <<p[1], p[2]>> THEN p[3] ELSE 0
        A == copy(K)
    IN  /\ \A r \in 0 .. 3, c \in 0 .. 3 :
             /\ Get(A, r, c) = at(r, c)
             /\ Get(copy(kmatrix_transpose_in_place(K)), c, r) = at(r, c)
        /\ ProductsAreDense(A, push_back(NewCVector(4), i, 3))

\* The operations on sparse vectors and matrices give what the same operations
\* give on dense ones, on the columns of every model that is read and on large
\* matrices with few entries, where products are computed in another way; and
\* of two entries for the same place the later one counts (sla.h:456-1150).
SparseIsDense ==
  stage = "construct" =>
    /\ LargeIsDense
    /\ params.modelType \in {"pomdp", "mdp"} =>
         \A u \in VectorsOf(problem) :
           /\ \A v \in VectorsOf(problem) : PairIsDense(u, v)
           /\ \A a \in Actions(problem) : ProductsAreDense(problem.Ttr[a], u)

-----------------------------------------------------------------------------
\* The states that are left within k steps for good, whatever is done.
RECURSIVE AbsorbedWithin(_)
AbsorbedWithin(k) ==
  IF k = 0 THEN {s \in States(problem) : problem.isTerminalState[s]}
  ELSE LET absorbed == AbsorbedWithin(k - 1)
       IN  {s \in States(problem) : s \in absorbed \/
              \A a \in Actions(problem), t \in States(problem) :
                Get(problem.T[a], s, t) > 0 => t \in absorbed}

\* One step of dynamic programming with some of the actions, in whole numbers:
\* the result counts out of Unit ^ 2 times what v counts out of, which is n.
Backup(choices, v, n) ==
  [s \in States(problem) |->
     IF problem.isTerminalState[s] THEN 0
     ELSE Max({Unit * Unit * n * Get(problem.R, s, a) +
                 problem.discount * SumOver(States(problem),
                                            LAMBDA t : Get(problem.T[a], s, t) * v[t]) :
                 a \in choices})] @@ <<>>

RECURSIVE ValueAfter(_, _)
ValueAfter(choices, k) ==
  IF k = 0 THEN [s \in States(problem) |-> 0]
  ELSE Backup(choices, ValueAfter(choices, k - 1), Unit ^ (2 * (k - 1)))

\* Whether l, out of n, is below the optimal value with some of the actions,
\* and u above it.  With a horizon in which the model is absorbed that value is
\* known; without one, a bound that its own backup does not cross is good.
Below(l, n, choices) ==
  IF params.maxHorizon = -1
  THEN \A s \in States(problem) : Unit * Unit * l[s] <= Backup(choices, l, n)[s]
  ELSE AbsorbedWithin(params.maxHorizon) = States(problem) =>
         \A s \in States(problem) :
           l[s] * Unit ^ (2 * params.maxHorizon) <= n * ValueAfter(choices, params.maxHorizon)[s]

Above(u, n, choices) ==
  IF params.maxHorizon = -1
  THEN \A s \in States(problem) : Backup(choices, u, n)[s] <= Unit * Unit * u[s]
  ELSE AbsorbedWithin(params.maxHorizon) = States(problem) =>
         \A s \in States(problem) :
           n * ValueAfter(choices, params.maxHorizon)[s] <= u[s] * Unit ^ (2 * params.maxHorizon)

\* No transition has a negative probability, as the fast parser would let it.
Stochastic ==
  \A a \in Actions(problem), s \in States(problem), t \in States(problem) :
    Get(problem.T[a], s, t) >= 0

\* The custom model's optimal value, out of Certain - 1.
CustomValue(at) == -Certain * (problem.numStates - 1 - at)

\* The bounds that a search begins with enclose the optimal value, if the rows of
\* the transitions are distributions: those of a generic MDP, with a discount or with the hint that the model is absorbed in
\* so many steps; the vector of a POMDP that blind policies begin with, which
\* one action achieves; and those of the custom model, whose moves stay in its
\* row (GenericDiscreteMDP.cc:117-179, BlindLBInitializer.cc:50-98,
\* CustomMDP.cc:98-267).
InitialBoundsHold ==
  stage = "started" =>
    CASE params.modelType = "mdp" /\ Stochastic ->
           LET n == getLongTermFactor(problem, params.maxHorizon)[2]
               bound(b) == [s \in States(problem) |->
                              IF problem.isTerminalState[s] THEN 0 ELSE b]
           IN  /\ Below(bound(globalLowerBound(problem, params.maxHorizon)), n, Actions(problem))
               /\ Above(bound(globalUpperBound(problem, params.maxHorizon)), n, Actions(problem))
      [] params.modelType = "pomdp" /\ Stochastic ->
           LET n == getLongTermFactor(problem, params.maxHorizon)[2]
               alpha == initBlindWorstCase(problem, params.maxHorizon)
           IN  \E a \in Actions(problem) : Below(alpha, n, {a})
      [] params.modelType = "custom" ->
           LET N == problem.numStates
           IN  \A at \in 0 .. N - 1 :
                 /\ CustomLowerBound(N) * (Certain - 1) <= CustomValue(at)
                 /\ CustomValue(at) <= CustomUpperBound
                 /\ Certain * CustomValue(at) =
                      Max({LET probs == CustomOutcomeProbVector(N, at, a)
                               next(o) == CustomNextState(N, at, a, o - 1)
                           IN  Certain * (Certain - 1) * CustomReward(N, at, a)
                                 + SumOver(DOMAIN probs,
                                           LAMBDA o : probs[o] * CustomValue(next(o))) :
                             a \in CustomActions})
                 /\ \A a \in CustomActions :
                      \A o \in DOMAIN CustomOutcomeProbVector(N, at, a) :
                        CustomNextState(N, at, a, o - 1) \in 0 .. N - 1
      [] OTHER -> TRUE
=============================================================================
