--------------------------- MODULE PolicyEvaluator ---------------------------
(***************************************************************************)
(* The evaluation of a policy by simulation (exec/PolicyEvaluator.cc):     *)
(* batches of trials over a cache of the simulated model (mdps/CacheMDP),  *)
(* which also remembers the action taken in each state, and counts how     *)
(* often each outcome was sampled to weigh the rewards of the batch; or    *)
(* without the cache (doBatchSimple), which then only numbers the states.  *)
(*                                                                         *)
(* An evaluation is a record in one variable.  The executed policy is a    *)
(* function from states to actions: the bounds do not change meanwhile.    *)
(***************************************************************************)
EXTENDS CacheMDP

CONSTANTS
  EvaluationTrials,  \* evaluationTrialsPerEpoch
  MaxBatches,        \* 30 in the code
  MaxSteps,          \* evaluationMaxStepsPerTrial; 0 is no limit
  RewardUnit         \* the value 1 of a reward in the fixed point of a batch

ASSUME EvaluatorAssumption ==
         /\ {EvaluationTrials, MaxBatches, RewardUnit} \subseteq Nat \ {0}
         /\ MaxSteps \in Nat

VARIABLES
  ev,        \* the evaluation
  evaluator  \* where it is: "idle", "batch", "trial", "collate" or "finished"

evaluatorVars == <<ev, evaluator>>

Smaller(x, y) == IF x <= y THEN x ELSE y

NumBatches        == Smaller(EvaluationTrials, MaxBatches)
NumTrialsPerBatch == EvaluationTrials \div NumBatches

\* How often outcome o of action a was sampled in state number si.
Count(count, si, a, o) ==
  IF <<si, a, o>> \in DOMAIN count THEN count[<<si, a, o>>] ELSE 0

\* model is what is simulated, planner the model of the executed policy.  A
\* state number is in the domain of userInt once an action is remembered.
NewEvaluation(model, planner, policy, assumeIdenticalModels, useEvaluationCache) ==
  [ model     |-> model,
    planner   |-> planner,
    policy    |-> policy,
    identical |-> assumeIdenticalModels,
    useCache  |-> useEvaluationCache,
    cache     |-> NewCache(model),
    userInt   |-> <<>>,
    count     |-> <<>>,
    trials    |-> <<>>,
    simState  |-> 1,
    state     |-> planner.initial,
    rewards   |-> <<>> ]

StartEvaluation(model, planner, policy, identical, useCache) ==
  /\ ev' = NewEvaluation(model, planner, policy, identical, useCache)
  /\ evaluator' = "batch"

\* Pass 0 clears the counts; the first trial starts.
StartBatch ==
  /\ evaluator = "batch"
  /\ ev' = [ev EXCEPT !.count = <<>>,
                      !.trials = <<<<>>>>,
                      !.simState = 1,
                      !.state = ev.planner.initial]
  /\ evaluator' = "trial"

\* Mutant of ActionAt: the first action remembered serves for all states.
ActionAtFirst ==
  IF ev.useCache /\ 1 \in DOMAIN ev.userInt THEN ev.userInt[1] ELSE ev.policy[ev.state]

\* The action is chosen where the state was met first and then remembered.
ActionAt ==
  IF ev.useCache /\ ev.simState \in DOMAIN ev.userInt
  THEN ev.userInt[ev.simState]
  ELSE ev.policy[ev.state]

SimulatedState == ev.cache.nodeTable[ev.simState]

Steps == Len(Last(ev.trials))

AtTerminal == Steps > 0 /\ ev.model.terminal[SimulatedState]

\* The executive is set to the next state, or works it out with its own model.
Advance(cache, a, o) ==
  IF ev.identical THEN cache.nodeTable[cache.Q[<<ev.simState, a>>][o]]
                  ELSE ev.planner.next[ev.state][a][o]

\* Pass 1: outcome o of action a is simulated.
Step(a, o) ==
  LET si    == ev.simState
      cache == GetQ(ev.cache, ev.model, si, a)
  IN  /\ evaluator = "trial"
      /\ ~AtTerminal
      /\ Steps < MaxSteps \/ MaxSteps = 0
      /\ a = ActionAt
      /\ o \in Edges(ev.model, SimulatedState, a)
      /\ ev' = [ev EXCEPT
                  !.userInt  = @ @@ (si :> a),
                  !.cache    = cache,
                  !.count    = (<<si, a, o>> :> Count(@, si, a, o) + 1) @@ @,
                  !.trials   = Append(Front(@),
                                 Append(Last(@), [cn |-> si, a |-> a, o |-> o])),
                  !.simState = cache.Q[<<si, a>>][o],
                  !.state    = Advance(cache, a, o)]
      /\ UNCHANGED evaluator

\* A trial ends in a terminal state or after MaxSteps.
EndOfTrial ==
  /\ evaluator = "trial"
  /\ \/ AtTerminal
     \/ Steps = MaxSteps /\ MaxSteps # 0
  /\ IF Len(ev.trials) < NumTrialsPerBatch
     THEN /\ ev' = [ev EXCEPT !.trials = Append(@, <<>>),
                              !.simState = 1,
                              !.state = ev.planner.initial]
          /\ UNCHANGED evaluator
     ELSE /\ evaluator' = "collate"
          /\ UNCHANGED ev

\* Pass 2: whether the sampled outcomes of an action are all it has.
AllSampled(si, a) ==
  \A o \in Outcome : ev.cache.Q[<<si, a>>][o] # 0 => Count(ev.count, si, a, o) > 0

Samples(si, a) == Count(ev.count, si, a, 0) + Count(ev.count, si, a, 1)

\* A value times the weight of outcome o: its probability over its share of
\* the samples, if all outcomes were sampled.
Weighted(si, a, o, value) ==
  IF ev.useCache /\ AllSampled(si, a)
  THEN (ev.model.prob[ev.cache.nodeTable[si]][a][o] * Samples(si, a) * value)
         \div (ProbDen * Count(ev.count, si, a, o))
  ELSE value

\* Pass 3: the reward of a trial, from its end to its start.
TrialReward(trial) ==
  LET from[j \in 1 .. Len(trial) + 1] ==
        IF j > Len(trial) THEN 0
        ELSE LET e == trial[j]
             IN  RewardUnit * ev.model.reward[ev.cache.nodeTable[e.cn]][e.a]
                   + (ev.model.discount * Weighted(e.cn, e.a, e.o, from[j + 1]))
                       \div DiscountDen
  IN  from[1]

BatchReward ==
  LET upTo[i \in 0 .. Len(ev.trials)] ==
        IF i = 0 THEN 0 ELSE upTo[i - 1] + TrialReward(ev.trials[i])
  IN  upTo[Len(ev.trials)]

Collate ==
  /\ evaluator = "collate"
  /\ ev' = [ev EXCEPT !.rewards = Append(@, BatchReward)]
  /\ evaluator' = IF Len(ev'.rewards) < NumBatches THEN "batch" ELSE "finished"

EvaluatorStep ==
  \/ StartBatch
  \/ \E a \in Action, o \in Outcome : Step(a, o)
  \/ EndOfTrial
  \/ Collate
=============================================================================
