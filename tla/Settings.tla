------------------------------ MODULE Settings ------------------------------
(***************************************************************************)
(* From the command line to the objects of a run: the configuration        *)
(* (common/zmdpConfig.cc), main in main/zmdp.cc, and the parameters of the *)
(* solver (main/solverUtils.cc).  The first pass of main over the options  *)
(* has been made: a config file is given by its lines.                     *)
(***************************************************************************)
EXTENDS Integers, Sequences, SequencesExt, FiniteSetsExt

CONSTANTS
  DefaultFields,   \* the fields of the embedded zmdp.config
  DefaultAliases,  \* the words of each of its aliases
  AliasOrder,      \* all words that are aliases, in alphabetical order
  PartOf,          \* pairs of such a word and a longer word that contains it
  Options,         \* the field of an option, which begins with two dashes
  Numerals,        \* the numbers that words stand for
  Extension,       \* the type of model that the end of a file name says
  Tasks            \* command lines, with a config file and the model's file

VARIABLES
  task,       \* [args, config, terminated, file]: never changes
  stage,      \* where the program is
  words,      \* the arguments, while aliases are replaced in them
  turn,       \* the pass over the aliases and the alias that is replaced
  aliases,
  fields,     \* cmap
  params      \* SolverParams, and the bounds that are made

settingsVars == <<task, stage, words, turn, aliases, fields, params>>

NumPasses == 3

\* A value that contains its own alias is replaced for ever; there is none.
ASSUME AliasAssumption ==
  /\ \A f \in DOMAIN DefaultAliases : f \notin ToSet(DefaultAliases[f])
  /\ \A t \in Tasks : \A k \in DOMAIN t.config :
       t.config[k].alias => t.config[k].field \notin ToSet(t.config[k].value)

-----------------------------------------------------------------------------
\* main, up to the command line

SettingsInit ==
  /\ task \in Tasks
  /\ stage = "config"
  /\ words = <<>> /\ turn = [pass |-> 1, at |-> 1]
  /\ aliases = DefaultAliases
  /\ fields = DefaultFields
  /\ params = <<>>

\* The lines of a stream that getline ends with a newline; the one that the
\* end of the file ends is not looked at.
ReadLines == IF task.terminated THEN task.config ELSE Front(task.config)

\* readFromFile, where no new fields are allowed any more.  (A line that lacks a
\* value stops the program; files here have none.)
ReadConfig ==
  /\ stage = "config"
  /\ LET plain   == SelectSeq(ReadLines, LAMBDA l : ~l.alias)
         unknown == \E k \in DOMAIN plain : plain[k].field \notin DOMAIN fields
         set(map, l) == (l.field :> l.value) @@ map
     IN  /\ stage'   = IF unknown THEN "exit" ELSE "expand"
         /\ fields'  = IF unknown THEN fields ELSE FoldLeft(set, fields, plain)
         /\ aliases' = FoldLeft(set, aliases, SelectSeq(ReadLines, LAMBDA l : l.alias))
  /\ words' = task.args
  /\ UNCHANGED <<task, turn, params>>

\* Mutant of Matches: a word is replaced in the middle of another one.
MatchesPart(word, field) == word = field \/ <<field, word>> \in PartOf

\* Whether replace_string finds the padded field at a word.
Matches(word, field) == word = field

Occurrences(field) == {k \in DOMAIN words : Matches(words[k], field)}

\* expandAliases: the first occurrence is replaced, until there is none.
ReplaceString ==
  /\ stage = "expand"
  /\ turn.at <= Len(AliasOrder) /\ AliasOrder[turn.at] \in DOMAIN aliases
  /\ Occurrences(AliasOrder[turn.at]) # {}
  /\ LET k == Min(Occurrences(AliasOrder[turn.at]))
     IN  words' = SubSeq(words, 1, k - 1) \o aliases[AliasOrder[turn.at]]
                    \o SubSeq(words, k + 1, Len(words))
  /\ UNCHANGED <<task, stage, turn, aliases, fields, params>>

\* The next alias that occurs; after the last one the next pass.
NextAlias ==
  /\ stage = "expand"
  /\ \/ turn.at > Len(AliasOrder) \/ AliasOrder[turn.at] \notin DOMAIN aliases
     \/ Occurrences(AliasOrder[turn.at]) = {}
  /\ LET later == {k \in turn.at + 1 .. Len(AliasOrder) :
                     AliasOrder[k] \in DOMAIN aliases /\ Occurrences(AliasOrder[k]) # {}}
     IN  IF later # {}
         THEN turn' = [turn EXCEPT !.at = Min(later)] /\ UNCHANGED stage
         ELSE /\ turn' = [pass |-> turn.pass + 1, at |-> 1]
              /\ stage' = IF turn.pass = NumPasses THEN "args" ELSE stage
  /\ UNCHANGED <<task, words, aliases, fields, params>>

\* processArgs: options with their arguments, and all other words.
processArgs ==
  LET start == [option |-> "", past |-> FALSE, fields |-> fields, rest |-> <<>>, ok |-> TRUE]
      step(r, w) ==
        IF r.option # "" THEN [r EXCEPT !.option = "", !.fields = (r.option :> w) @@ @,
                                        !.ok = @ /\ r.option \in DOMAIN fields]
        ELSE IF w = "--" /\ ~r.past THEN [r EXCEPT !.past = TRUE]
        ELSE IF w \in DOMAIN Options /\ ~r.past THEN [r EXCEPT !.option = Options[w]]
        ELSE [r EXCEPT !.rest = Append(@, w)]
  IN  FoldLeft(step, start, words)

\* The second half of main: command, model and where the policy goes.
ProcessArgs ==
  /\ stage = "args"
  /\ LET r == processArgs
         n == Len(r.rest)
         command == IF n >= 1 THEN r.rest[1] ELSE r.fields["command"]
         model   == IF n >= 2 THEN r.rest[2] ELSE r.fields["simulatorModel"]
         policy  == IF r.fields["policyOutputFile"] # "-" THEN r.fields["policyOutputFile"]
                    ELSE IF command = "solve" THEN "out.policy" ELSE "none"
         ok == r.ok /\ r.option = "" /\ n <= 2
                 /\ command \in {"solve", "benchmark", "evaluate"} /\ model # "none"
     IN  /\ stage'  = IF ~ok THEN "exit" ELSE IF command = "evaluate" THEN "evaluate"
                      ELSE "values"
         /\ fields' = IF ok THEN [r.fields EXCEPT !["command"] = command,
                                                  !["simulatorModel"] = model,
                                                  !["policyOutputFile"] = policy]
                      ELSE fields
  /\ UNCHANGED <<task, words, turn, aliases, params>>

-----------------------------------------------------------------------------
\* solverUtils.cc

\* getInt and getBool: a word that is not a number is 0.
getInt(field) == IF fields[field] \in DOMAIN Numerals THEN Numerals[fields[field]] ELSE 0
getBool(field) == getInt(field) # 0

\* The tables of getEnum; "-" stands for -1, that is, to be inferred.
EnumTable ==
  [ searchStrategy |-> {"frtdp", "hsvi", "rtdp", "lrtdp", "hdp", "script"},
    modelType |-> {"-", "pomdp", "mdp", "racetrack", "custom"},
    lowerBoundRepresentation |-> {"-", "point", "convex"},
    upperBoundRepresentation |-> {"-", "point", "sawtooth"},
    maintainLowerBound |-> {"-", "0", "1"},
    runTimeActionSelection |-> {"-", "lower", "upper"} ]

\* inferMissingValues: the type of the model and the representations.
InferredModelType ==
  IF fields["modelType"] # "-" THEN fields["modelType"] ELSE Extension[fields["simulatorModel"]]

\* Mutant of Representation: the option is not looked at.
RepresentationInferred(field, ofPomdp, modelType) ==
  IF modelType = "pomdp" THEN ofPomdp ELSE "point"

Representation(field, ofPomdp, modelType) ==
  IF fields[field] # "-" THEN fields[field]
  ELSE IF modelType = "pomdp" THEN ofPomdp ELSE "point"

\* SolverParams::setValues
SetValues ==
  /\ stage = "values"
  /\ LET type  == InferredModelType
         lower == Representation("lowerBoundRepresentation", "convex", type)
         upper == Representation("upperBoundRepresentation", "sawtooth", type)
         policy == fields["policyOutputFile"]
         ok == /\ \A f \in DOMAIN EnumTable : fields[f] \in EnumTable[f]
               /\ type \in EnumTable.modelType
               /\ type # "pomdp" => lower # "convex" /\ upper # "sawtooth"
     IN  IF ok
         THEN /\ stage' = IF type = "racetrack" THEN "construct" ELSE "open"
              /\ params' = [ searchStrategy |-> fields["searchStrategy"],
                             modelType |-> type,
                             lowerBoundRepresentation |-> lower,
                             upperBoundRepresentation |-> upper,
                             maintainLowerBound |-> fields["maintainLowerBound"],
                             maintainUpperBound |-> getBool("maintainUpperBound"),
                             policyOutputFile |-> IF policy = "none" THEN "NULL" ELSE policy,
                             useFastModelParser |-> getBool("useFastModelParser"),
                             maxHorizon |-> getInt("maxHorizon"),
                             runTimeActionSelection |-> fields["runTimeActionSelection"] ]
         ELSE stage' = "exit" /\ UNCHANGED params
  /\ UNCHANGED <<task, words, turn, aliases, fields>>

\* What a search strategy needs.
lowerBoundRequired(strategy) == strategy \in {"frtdp", "hsvi"}
upperBoundRequired(strategy) == strategy # "script"

\* The bound that actions are selected by.
ActionSelection(p, maintainLower) ==
  IF p.runTimeActionSelection # "-" THEN p.runTimeActionSelection
  ELSE IF maintainLower THEN "lower" ELSE "upper"

\* constructSolverObjects, for a problem with this discount; TRUE if it is one.
ConstructSolverObjects(undiscounted) ==
  LET p == params
      lower == IF p.maintainLowerBound = "-" THEN lowerBoundRequired(p.searchStrategy)
               ELSE p.maintainLowerBound = "1"
      upper == p.maintainUpperBound
      by    == ActionSelection(p, lower)
      ok == /\ ~(p.modelType = "pomdp" /\ undiscounted /\ p.maxHorizon = -1)
            /\ lowerBoundRequired(p.searchStrategy) => lower
            /\ upperBoundRequired(p.searchStrategy) => upper
            /\ lower \/ upper
            /\ IF by = "lower" THEN lower ELSE upper
      writes == lower /\ p.lowerBoundRepresentation = "convex"
      strong == p.modelType = "racetrack" /\ ~getBool("useWeakUpperBoundHeuristic")
      made ==
        [ maintainLowerBound |-> IF lower THEN "1" ELSE "0",
          runTimeActionSelection |-> by,
          policyOutputFile |-> IF writes THEN p.policyOutputFile ELSE "NULL",
          dualPointBounds |-> lower /\ upper /\ p.lowerBoundRepresentation = "point"
                                /\ p.upperBoundRepresentation = "point",
          lowerBound |-> IF lower THEN p.lowerBoundRepresentation ELSE "NULL",
          upperBound |-> IF upper THEN p.upperBoundRepresentation ELSE "NULL",
          strongUpperBound |-> strong ]
  IN  /\ stage'  = IF ok THEN "initialize" ELSE "exit"
      /\ params' = IF ok THEN made @@ p ELSE p
      /\ UNCHANGED <<task, words, turn, aliases, fields>>

-----------------------------------------------------------------------------
\* What the user asked for: the value after the last option for a field, by its
\* name or by its alias.
Spelled ==
  [field \in {Options[w] : w \in DOMAIN Options} |->
     {w \in DOMAIN Options : Options[w] = field}
       \cup {a \in DOMAIN DefaultAliases :
               Len(DefaultAliases[a]) = 1 /\ DefaultAliases[a][1] \in DOMAIN Options
                 /\ Options[DefaultAliases[a][1]] = field}] @@ <<>>

Asked(field) ==
  {task.args[k + 1] : k \in {j \in 1 .. Len(task.args) - 1 :
     task.args[j] \in Spelled[field]
       /\ \A i \in j + 1 .. Len(task.args) : task.args[i] \notin Spelled[field]}}

\* What the user asks for on the command line is what a run is started with, or
\* it is not started; only the output of a policy may be dropped, with a
\* warning (zmdpConfig.cc:207-275, solverUtils.cc:105-452).
ChoicesHonoured ==
  stage = "started" =>
    \A f \in (DOMAIN EnumTable) \cup {"policyOutputFile"} : \A v \in Asked(f) \ {"-"} :
      params[f] = v \/ (f = "policyOutputFile" /\ params[f] = "NULL")
=============================================================================
