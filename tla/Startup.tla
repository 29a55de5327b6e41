------------------------------ MODULE Startup ------------------------------
(***************************************************************************)
(* A run of zmdp up to its first trial: the settings, the model that is    *)
(* read with one of the two parsers or is written by hand, the objects     *)
(* that are made (main/solverUtils.cc), and the initial bounds.            *)
(***************************************************************************)
EXTENDS Settings, PomdpSpec, FastParser

VARIABLES
  position,   \* how many statements of the file were read
  reading,    \* what the parser has of the model so far
  problem     \* the model

vars == <<task, stage, words, turn, aliases, fields, params, position, reading, problem>>

-----------------------------------------------------------------------------
\* The hand-written MDP (mdps/CustomMDP.cc): a row of n positions, whose last
\* one is the goal.  Its states are vectors of length one, too; probabilities
\* are whole numbers out of Certain.
ACTION_MOVE_LEFT  == 0
ACTION_MOVE_RIGHT == 1

CustomActions == {ACTION_MOVE_LEFT, ACTION_MOVE_RIGHT}

Certain == 10

NewCustomMDP(n) == [initial |-> 0, numStates |-> n, discountIsOne |-> TRUE]

CustomIsTerminal(n, x) == x = n - 1

\* Whether moving fails for certain.
Stays(n, x, a) == CustomIsTerminal(n, x) \/ (x = 0 /\ a = ACTION_MOVE_LEFT)

CustomOutcomeProbVector(n, x, a) ==
  IF Stays(n, x, a) THEN <<Certain>> ELSE <<Certain - 1, 1>>

\* The first outcome is a success, the second one a slip.
CustomNextState(n, x, a, o) ==
  LET dx == IF a = ACTION_MOVE_LEFT THEN -1 ELSE 1
      successDX == IF x = 0 /\ a = ACTION_MOVE_LEFT THEN 0 ELSE dx
  IN  IF CustomIsTerminal(n, x) THEN n - 1 ELSE IF o = 0 THEN x + successDX ELSE x

CustomReward(n, x, a) == IF CustomIsTerminal(n, x) THEN 0 ELSE -1

CustomLowerBound(n) == -100 * n

CustomUpperBound == 0

-----------------------------------------------------------------------------
expectPomdp == params.modelType = "pomdp"

Init ==
  /\ SettingsInit
  /\ position = 0 /\ reading = <<>> /\ problem = <<>>

-----------------------------------------------------------------------------
\* The constructors of Pomdp and GenericDiscreteMDP choose a parser.
Open ==
  /\ stage = "open" /\ params.modelType # "custom"
  /\ stage' = "read"
  /\ reading' = IF params.useFastModelParser THEN NewStream ELSE initParser
  /\ UNCHANGED <<task, words, turn, aliases, fields, params, position, problem>>

\* The constructor of CustomMDP.
MakeCustomMDP ==
  /\ stage = "open" /\ params.modelType = "custom"
  /\ stage' = "construct"
  /\ problem' = NewCustomMDP(getInt("customMDPNumStates"))
  /\ UNCHANGED <<task, words, turn, aliases, fields, params, position, reading>>

\* The next statement, unless the parser gave up.
ReadStatement ==
  /\ stage = "read" /\ reading.part # "failed" /\ position < Len(task.file)
  /\ position' = position + 1
  /\ reading' = IF params.useFastModelParser
                THEN FastStatement(reading, task.file[position'], expectPomdp)
                ELSE Statement(reading, task.file[position'], position')
  /\ UNCHANGED <<task, stage, words, turn, aliases, fields, params, problem>>

\* The program stops.
Refuse == stage' = "exit" /\ UNCHANGED <<reading, problem>>

\* The end of readModelFromStream.
EndFast ==
  IF FastAccepts(reading, expectPomdp)
  THEN stage' = "construct" /\ problem' = FastModel(reading, expectPomdp) /\ UNCHANGED reading
  ELSE Refuse

\* The end of readMDP, and what is made of its globals.  Without a statement
\* for rewards an assertion of dtGet fails.
EndCassandra ==
  \E p \in {EndOfFile(reading, position + 1)} :
    IF ERR_dump(p) \/ p.tree = NULL THEN Refuse
    ELSE /\ stage' = "construct"
         /\ problem' = readModelFromFile(p, expectPomdp)
         /\ reading' = p

EndReading ==
  /\ stage = "read" /\ (reading.part = "failed" \/ position = Len(task.file))
  /\ IF reading.part = "failed" THEN Refuse
     ELSE IF params.useFastModelParser THEN EndFast ELSE EndCassandra
  /\ UNCHANGED <<task, words, turn, aliases, fields, params, position>>

Construct ==
  /\ stage = "construct"
  /\ ConstructSolverObjects(expectPomdp /\ problem.discount >= Unit)
  /\ UNCHANGED <<position, reading, problem>>

\* initialize of the bounds that are maintained: that of a generic MDP stops
\* the program if there is no bound.
Initialize ==
  /\ stage = "initialize"
  /\ stage' = IF params.modelType = "mdp"
                   /\ getLongTermFactor(problem, params.maxHorizon) = UNBOUNDED
              THEN "exit" ELSE "started"
  /\ UNCHANGED <<task, words, turn, aliases, fields, params, position, reading, problem>>

Setting ==
  /\ ReadConfig \/ ProcessArgs \/ SetValues
  /\ UNCHANGED <<position, reading, problem>>

Expanding == (ReplaceString \/ NextAlias) /\ UNCHANGED <<position, reading, problem>>

\* The program went on to its first trial, or to the evaluation of a policy
\* (module Program), or it stopped.
Over == stage \in {"started", "evaluate", "exit"} /\ UNCHANGED vars

Next == Setting \/ Expanding \/ Open \/ MakeCustomMDP \/ ReadStatement \/ EndReading
          \/ Construct \/ Initialize \/ Over

\* One process, which nothing waits for; the steps of other kinds are finitely
\* many in any run.
Spec == Init /\ [][Next]_vars /\ WF_vars(Expanding)

\* The replacement of aliases ends, whatever the arguments, for aliases that do
\* not occur in their own values (zmdpConfig.cc:50-56, 218-232).
ExpansionEnds == stage = "expand" ~> stage # "expand"
=============================================================================
