------------------------------ MODULE MCProgram ------------------------------
(***************************************************************************)
(* The program on small problems, with sessions of up to three commands.   *)
(***************************************************************************)
EXTENDS Program, Tracks

\* A tree, on which the outcomes of n1 and n2 end the trial, and a problem
\* whose risky action falls back to the start.
Tree  == Track(goal, goal, -8, 4, [n \in Node |-> 0])
Slope == Track(n0, n1, -3, 3, [n \in Node |-> 0])

ProgramProblems == {Tree, Slope}

\* Another simulator: the outcomes lead where they did, the odds differ.
OtherOdds(p) == [p EXCEPT !.next[n0][0] = [o \in Outcome |-> p.next[n0][0][1 - o]]]

ProgramSimulators(p) == {p, OtherOdds(p)}

Never == 1000

Command(command, strategy, policy, log, backups, time, regret) ==
  [ command                   |-> command,
    searchStrategy            |-> strategy,
    policyOutputFile          |-> policy,
    useLogBackups             |-> log,
    terminateNumBackups       |-> backups,
    terminateWallclockSeconds |-> time,
    terminateRegretBound      |-> regret,
    firstEpoch                |-> 0,
    useEvaluationCache        |-> TRUE ]

Logged   == Command("solve", "rtdp", TRUE, TRUE, Never, 3, 1)
Endless  == Command("solve", "rtdp", TRUE, FALSE, Never, Never, 1)
Limited  == Command("solve", "rtdp", TRUE, FALSE, 5, Never, 1)
Bench    == Command("benchmark", "rtdp", TRUE, FALSE, Never, 5, 1)
Scripted == Command("solve", "script", FALSE, FALSE, Never, Never, 1)
Evaluated == Command("evaluate", "rtdp", FALSE, FALSE, Never, Never, 1)
Uncached == [Evaluated EXCEPT !.useEvaluationCache = FALSE]

FirstCommands == {Logged, Endless, Limited, Bench}
AllCommands   == FirstCommands \cup {Scripted, Evaluated, Uncached}

\* A logged run is repeated, a policy is evaluated, an interrupted benchmark
\* is started again.
NextCommands(setting, cutOff) ==
  CASE setting = Logged -> {Scripted}
    [] setting = Limited -> {Evaluated}
    [] setting = Bench -> IF cutOff THEN {Bench} ELSE {Uncached}
    [] OTHER -> {}

\* Every trial has ended, in a tree of which every branch was sampled.
SampledTree ==
  LET sampled == DOMAIN ev.count
      into(si) == {e \in sampled : ev.cache.Q[<<e[1], e[2]>>][e[3]] = si}
  IN  /\ \A i \in DOMAIN ev.trials :
           \E e \in {Last(ev.trials[i])} :
             ev.model.terminal[ev.cache.nodeTable[ev.cache.Q[<<e.cn, e.a>>][e.o]]]
      /\ \A e \in sampled : AllSampled(e[1], e[2])
      /\ into(1) = {}
      /\ \A si \in DOMAIN ev.cache.nodeTable :
           ~ev.model.terminal[ev.cache.nodeTable[si]] => Cardinality(into(si)) <= 1

\* The weights turn samples into an expectation: when every outcome of a tree
\* was sampled, however often each, the mean reward of the batch is the exact
\* value of the policy that is evaluated.
ReweightingExact ==
  evaluator = "collate" /\ ev.useCache /\ ev.identical /\ SampledTree =>
    \A p \in {Scaled(ev.model, RewardUnit)} :
      BatchReward = NumTrialsPerBatch * PolicyValue(p, ev.policy)[p.initial]
=============================================================================
