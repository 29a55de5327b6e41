# Verification of ZMDP

ZMDP is a solver for Markov decision processes (MDPs) and partially observable
ones (POMDPs).  It searches forward from an initial state, keeps an upper and a
lower bound on the value of every state it has met, and tightens them by local
backups until the root's bounds are close enough or the user stops it.  This
directory holds TLA+ models of the program from its command line to the policy
it leaves, TLC configurations that check them on small instances, and theorems
with proofs checked by TLAPS.

The program is sequential, so what is hard in it is not the interleaving of
threads.  It is that **every value is stale most of the time**: Q entries are
cached, labels are set from residuals that were computed one node at a time,
priorities describe successors as they were, planes and points are shared
between nodes that do not know of each other, and the sampled outcomes of a
trial decide in which of very many orders these are refreshed.  Around the
search there are files that are replaced while a user may press ctrl-C, a log
that another run repeats, and two parsers whose tables must say the same.

All paths are relative to `src/` of the repository (so `search/LRTDP.cc` is
`src/search/LRTDP.cc`).

## 1. Inventory

| Component | State | Operations | Hard behaviour | What makes it correct |
|---|---|---|---|---|
| MDP interface, search graph (`common/MDPModel.h`, `bounds/MDPCache.*`, `bounds/BoundPairCore.*`) | hash table of nodes, Q entries with outcomes and cached bounds | `getNode`, `getMaxUBAction`, `getSimulatedOutcome`, node handlers | NULL edges, ties between actions | a node is made once, with valid initial bounds |
| Bound pair with point bounds (`bounds/BoundPair.cc`, `bounds/Point*Bound.cc`) | `lbVal`, `ubVal`, cached Q values | `getRootNode`, `expand`, `update`, `chooseAction`, `writePolicy` | lazy update of cached Q values; nodes made in the middle of an update | bounds bracket the optimum; the lazy update is exact; the executed policy is worth its bound |
| Search core (`search/RTDPCore.cc`, `common/Solver.h`) | trial and backup counts, log of backups | `planInit`, `planFixedTime`, `finishLogging` | anytime calls until a strategy says it is done | the strategy becomes done; what is left is of the final bounds |
| RTDP (`search/RTDP.cc`) | the call stack of a trial | `trialRecurse` | ends only at terminal nodes | as the core |
| LRTDP (`search/LRTDP.cc`) | solved labels, two node stacks | `trialRecurse`, `checkSolved`, `cacheQ`, `updateInternal` | labels over cycles, residuals against values put back | labels are right and stay right |
| HDP (`search/HDP.cc`) | labels, Tarjan's numbers, lowlinks, stack | `trialRecurse`, `doTrial` | Tarjan's algorithm interleaved with updates | as LRTDP; numbers clean between trials |
| FRTDP (`search/FRTDP.cc`) | a priority per node, depth limit, quality sums | `update`, `getMaxPrioOutcome`, `trialRecurse`, `doTrial` | priorities are stale; depth limit must grow | a precise root in the end; the assertion holds |
| HSVI (`search/HSVI.cc`) | the trial's target | `update`, `trialRecurse`, `doTrial` | trials without depth limit | a precise root in the end |
| MaxPlanes bound (`pomdpBounds/MaxPlanesLowerBound.cc`, `BlindLBInitializer.cc`) | heap of planes, list, support lists, back pointers, ages; the policy file | `initNodeBound`, `update`, `getPlaneForNode`, `prunePlanes`, `deleteAndForward`, `writeToFile`, `readFromFile` | deletion while traversing, raw pointers from nodes, two kinds of skipped work | no dangling pointer, no bound lost, no belief uncovered, the file delivers what was promised |
| Sawtooth bound (`pomdpBounds/SawtoothUpperBound.cc`, `FastInfUBInitializer.cc`, `FullObsUBInitializer.cc`) | points, support lists, corner points | `getValue`, `update`, `setUBForNode`, `addPoint`, `prune` | points added after a prune in the same backup; corners that move | a valid bound that never rises |
| Relaxed heuristic (`bounds/RelaxUBInitializer.cc`) | its own graph with two bounds | `trialRecurse`, `initialize`, `getValue` | recursion without a test for goals | ends; gives a valid and better bound |
| Solve command (`main/zmdp.cc`, `main/solverUtils.cc`) | flag set by SIGINT, three reasons to stop | `doSolve`, parameter inference, construction | signal at any moment | a policy is written whatever stopped the run; the run is the one asked for |
| Benchmark (`main/TestDriver.cc`) | epochs, policy file and its backup | `batchTestIncremental` | interruption between renaming, writing and deleting | some complete policy survives |
| Execution and evaluation (`exec/*`, `mdps/CacheMDP.cc`, `common/MDPSim.cc`) | simulated state, cached model, counts on edges | `getRewardSamples`, `doBatch`, `advanceToNextState` | actions cached by state; samples weighted | the samples' mean is the policy's value |
| Log and replay (`search/StateLog.cc`, `search/ScriptedUpdater.cc`) | numbers of states, sequence of backups | `getStateId`, `readFromFile`, `doTrial` | numbers by order of first sight | replay repeats the run |
| Configuration (`common/zmdpConfig.cc`, `main/zmdp.config`) | fields, aliases | `readFromStream`, `readFromCommandLine`, `expandAliases` | aliases that contain themselves | later sources win |
| Parsers (`parsers/`) | the globals of the grammar, a table of names, intermediate matrices, the decision tree of rewards | one action per statement, `readModelFromFile`, `readModelFromStream` | wildcards over earlier entries, zeros, two parsers for one language | the model is the one the file declares |
| Models (`mdps/RaceTrack.cc`, `GenericDiscreteMDP.cc`, `CustomMDP.cc`, `pomdpCore/Pomdp.cc`) | none beyond the data read | transitions, rewards, belief updates, initial bounds | outcomes numbered by position in packed columns; the plotted way of a car | what they answer is what the data says |
| Sparse linear algebra (`common/sla.h`) | vectors and matrices in packed form | canonical form, merges, products, masks | merged loops over two index lists | the same as on dense vectors |
| Life survey and rock exploration, time arithmetic, tools, tests, build | | | | |

The components call each other directly: `main` constructs one solver (a
strategy), one bound pair and one model; the strategy calls
`BoundPair::update`, which calls the two bounds and, for nodes that are new, the
strategy's own handler (`getNodeHandler`) by callback; bounds call the model.
The only asynchronous input is SIGINT, which sets a flag.

Everything in this code that is hard to test is listed under "hazards" in
`PROJECT.json`, at its line, with the properties that would catch it going
wrong; those without a property say why.

## 2. Plan

The order was the most important behaviour first; what is left is at the end.

1. *Done.* The value backup and the bound table (`MDP`, `BoundPair`), the lazy
   update as a loop that implements its closed form (`UseCacheLoop`), LRTDP and
   HDP with the soundness of their labels, FRTDP and HSVI with their progress.
   Proofs for the lazy update and for every strategy: labels (`LRTDP`, `HDP`,
   both shown to implement `Labels`), the policy that stays within them,
   priorities (`FRTDP`), bounds (`HSVI`).
2. *Done.* The heap of planes (`MaxPlanes`), with the policy file and the policy
   executed from it; the point set of the other bound (`Sawtooth`).  Proofs that
   pruning corrupts no list and loses no bound, and that one bound stays above
   what any policy can earn and the other below what some policy does.
3. *Done.* `RaceTrack`, from track files on, and `RelaxUB`, the relaxed heuristic
   on it, with the proof that its bounds bracket the relaxed problem's values.
4. *Done.* `Program`: the commands over RTDP and the scripted updater, with
   files, SIGINT, crashes and a second command; `PolicyEvaluator` with
   `CacheMDP`; `StateLog`.  Proofs about the two files, the last evaluation and
   the replay of a log.
5. *Done.* `Startup`: settings, parsers, sparse matrices, initial bounds.
6. *Left, proofs.* For HDP, that the executed policy stays within labels, as for
   LRTDP; the settings.
7. *Left, models.* What section 7 lists.

## 3. Modules

### Problem instances and reference values

* `MDP` - the interface `MDP` as a record (initial state, terminal states,
  rewards, outcome probabilities and successors, discount, heuristic bounds),
  the value backup, and the choice of the first best action.  Doubles are
  fixed-point integers: probabilities over `ProbDen`, discounts over
  `DiscountDen`, and a backup rounds down.  Rounding is monotone, and so are the
  properties' arguments; where rounding can show, the property says by how much.
* `Tracks` - optimal value and value of a policy by value iteration, and the instances: 96 cyclic stochastic shortest-path problems on three nodes
  and a goal with back edges, two discounts and six heuristics (consistent,
  inconsistent and trivial ones), 6 traps where an early stop costs most, and 75
  problems whose greedy envelopes are strongly connected.  `HSVI` uses their
  discounted forms only.
* `Pomdp` - `pomdpCore/Pomdp.cc` as the bounds see it; a belief is a vector of
  whole weights, so that equal beliefs are one node and values are exact.  Which beliefs can be reached, and where the
  weight of the next belief is, are assumptions that TLC evaluates for every problem.
  `Doors` has the instances: a prize behind one of two doors, with noisy
  observations, that stays or drifts.

### Bounds

* `BoundPair` - the table of nodes as one record, with an operator per function:
  `GetNodes` (getNode, initNodeBound), `Expand`, `UpdateBounds` (the simple
  update, the update from cache, the update of both point bounds in one pass),
  `Update`, `MaxUBAction`, `ChooseActionUB/LB`; and what problems and heuristics
  may be asked for (`UniformProblems`, `ValidHeuristics`).
* `UseCacheLoop` - `PointUpperBound::updateUseCache` as a loop, one pass per
  step.  `ImplementsUseCache` says that it computes `UseCache`, the closed form
  that `BoundPair` uses, when it ends, and `EndsAsUseCache` that it does; `Exact`
  that the result is the best fresh value.
* `MaxPlanes` - `MaxPlanesLowerBound`; `Configs` says for each problem which of
  masking, support lists, cache and extra pruning are on.  Without the cache
  nobody sets the ages of the first planes (`Leftovers`).  A
  plane is an entry of the function `plane`, whose domain is what is allocated;
  a node is its belief, a vector of weights; `back` counts how often a node is
  in a plane's `backPointers`.  `Update` is `BoundPair::update` up to the lower
  bound, `AddPlane` is `MaxPlanesLowerBound::update`, each pass of the loops
  of `prunePlanes` is a step.  Any node may be updated at any time, which
  includes the order of every strategy.  `WritePolicy` ends the solver with its
  last prune and the file (`PolicyFile`), and `ReadPolicy` is the evaluator's
  process, which has nothing but that file: masks are made anew from the entries
  that have a line in it, and `ChooseAction` looks one step ahead.  The constant
  `Ceiling` is for each belief a value that no policy exceeds: it is above
  the planes of the blind policies and above its own backups (`CeilingAssumption`,
  which TLC evaluates); `MCMaxPlanes` computes it (`Ceilings`).
* `Sawtooth` - `SawtoothUpperBound` with or without support lists, from the fast
  informed bound (`InitFIB`) on.  A point is an entry of the function `point`;
  a ratio of weights is kept as a pair of numbers and values are rounded up.  An
  update, an expansion that may prune in the middle, and each pass of `prune`
  are steps.  The constant `Policies` holds plans for a number of steps, each with
  its first action, the plans that follow its observations and its value by state;
  the bound has to stay above all of them (`UpperBoundSound`).

### Strategies

* `Labels` - the contract of a labelling search, in four abstract variables: labels
  are set for closed sets of settled nodes, and the values, residuals and greedy
  outcomes of a labelled node never change again.  `LRTDP` and `HDP` instantiate
  it with a refinement mapping (`Contract`), and `ImplementsLabels` says that they
  keep it.  It is what lets a trial stop at a label: `Sound` follows from it.

The strategies have the shape of the code: `pc` is where the solver is, `stack` (or
`frames`) the active calls of `trialRecurse`, and an action is one call, return
or loop pass with everything it does to the bound table.

* `LRTDP` - `TrialStep(o)` backs up a node and follows a sampled outcome;
  `StartCheckSolved`, `CheckNode`, `LabelClosed`, `UpdateClosed`,
  `CheckFailed` are `checkSolved`.
* `HDP` - Tarjan's numbers `idx`, `low`, `index`; calls and returns are steps.
* `FRTDP` - priorities are powers (`PrioScale` times an excess width), since the
  code only compares logarithms; the depth limit is in hundredths.  Like `HSVI` it
  assumes both bounds, since `solverUtils.cc` refuses these strategies without.
* `HSVI` - the uncertainty allowed at a depth, as exact integers.  Its constant
  `Value` names the values of the states, which no backup changes and which the
  heuristics bracket; TLC evaluates this assumption for every problem.
* `RTDP` - the search core with plain RTDP and the scripted updater, as parts of
  `Program`; `StateLog` has the files of a log, by lines.

### The program

* `Program` - `main`, `doSolve`, `doEvaluate` and `batchTestIncremental` over
  `RTDP` and `PolicyEvaluator`.  `files` are the policy file, its backup, the log
  and the bound values; writing a file is two steps (`OpenPolicy`,
  `WritePolicy`), the shell commands `mv` and `rm` one each.  `CtrlC` can happen
  before any step: with a handler it sets the flag, without one the process
  dies where it stands.  `NextCommand` starts another process in the same
  directory, with settings (`Setting`) that `Follow` allows after the last ones.  Time is a counter that a solver call moves by one or two ticks.
* `PolicyEvaluator` - `getRewardSamples`: batches of trials (every outcome may
  be sampled), the three passes of `doBatchCache`, the weights; or, without the
  cache, `doBatchSimple`.  `CacheMDP` is the cached model it runs on.
* `Startup` - a run up to its first trial: `Settings` (the config, aliases,
  command line, inference of parameters, construction), then one of the two
  parsers, statement by statement, then the initial bounds.
  `PomdpSpec` has the actions of the grammar with names and errors,
  `SparseMatrix` and `ImmReward` its matrices and rewards, `FastParser` the other parser, `CassandraModel`
  the model both make and the questions the search asks of it, `Sla` sparse
  vectors and matrices.  What happens after the last line is in `PomdpSpec`, the
  model written by hand (`CustomMDP.cc`) in `Startup`.

### Racetracks and their heuristic

* `RaceTrack` - `ReadTrack` reads a track file (properties, map); then outcomes,
  transitions and rewards.  `Column` is one pass of the plotting loop of
  `TrackMap::lineType`, `LineCells` the plotted cells of a move, `FirstHit` what
  the macro `RT_PLOT` returns at them, `OutcomeProbVector` and `NextState` the
  two functions of that name.  `MCRaceTrack` has files of a corridor, a bend and a
  field with an obstacle, with and without wind, and two that are refused.
* `RelaxUB` - `RelaxUBInitializer` over any problem, given as tables; each call
  and return of `trialRecurse` is a step.  `MCRaceTrack` computes the tables of
  the racetracks, checks the trials on them, and then drives a car as `MDPSim`
  does.  Q entries are always recomputed before they are read, so they are not
  state.  The constant `Relaxed` holds the values of the relaxed problem;
  `MCRaceTrack` computes them by value iteration over all states
  (`RelaxedValue`), and `RelaxedAssumption` says that they solve the problem.

The `MC...` modules instantiate these and add the properties that compare with
reference values.  Properties follow `Next`; operators called *Mutant of X* are
plausible bugs used to show that a property can fail, and take no part in the
specifications.

## 4. Runs

| Run | Question | Bounds, and why they are enough |
|---|---|---|
| `use_cache` | Does the lazy backup find the best fresh value if no value rose, and does its loop end, with what `UseCache` says? | 3 actions, 4 values, all cached and fresh vectors. Three actions give every order of staleness; proved for any number, but for the end itself. |
| `lrtdp` | Are labels right when set, and are they kept as `Labels` says; does the executed policy stay in them and lose little; is the root solved in the end? | 102 problems, all sampled outcomes. A trial may repeat a node `MaxRepeats` = 1 time before it takes an outcome that leads elsewhere. |
| `hdp` | Does Tarjan's labelling keep the same contract; are numbers and stack clean; is the root solved? | 177 problems; three non-terminal nodes allow all shapes of nested and overlapping components the algorithm distinguishes (tree, back and cross edges). |
| `frtdp` | Is the trial's assertion safe, is the executed policy worth its bound, and is the root precise in the end? | 177 problems with values times 4; depth limit starts at 0.70 and is capped at `DepthCap` = 6, more than the longest path without repetition. |
| `hsvi` | Do the bounds bracket the optimum, and is the root precise in the end? | the same with discounts 1/2 and 3/4; `Value` is found by value iteration and checked to be one that no backup changes. |
| `maxplanes` | Does the heap of planes survive updates in any order and pruning; is no plane above what policies can earn; does the policy that is read from the file earn what the root's bound promised? | 4 POMDPs of 4 states, 4 actions, 9 beliefs with the default settings, and three more without masking, without the cache (the first planes have leftover ages, some lower and some higher than any real one), and without masking, lists and cache; `MaxBackups` = 4; a prune whenever there is more than `PruneIncrement` = 1 new plane, so that three prunes and a final one happen (the code's 10 is a constant of performance). The policy earns over `Horizon` = 3 steps, enough to end these games. |
| `sawtooth` | Is the point set's bound above what any policy earns, does it rise nowhere unless a corner's value does, and does it give every node what it reported? | Plans of `Horizon` = 2 steps and a blind policy after them; 4 POMDPs of 4 states and a game with two ends, each with and without support lists, 10 beliefs, 5 backups, prunes in updates and in expansions; up to `MaxIters` = 40 rounds of the initial bounds, which settle sooner. |
| `program` | Does an interrupted benchmark keep a whole policy; are file and last evaluation of the final bounds; does a replay repeat the run; do weighted samples give the policy's value; does an interrupted solve write its policy? | Two problems (a tree and one whose risky action falls back), sessions of up to `MaxProcesses` = 3 commands of seven kinds, ctrl-C and crashes anywhere; up to 5 ticks of time, 5 backups where backups are limited; 7 trials in `MaxBatches` = 2 batches of 3, so that a trial is left over, with up to 3 steps. |
| `racetrack` | Are the plotted cells those the car passes through, and is the move that is made the one that was checked; does the relaxed heuristic stay bracketed and end? | Every move up to `MaxMove` = 6 in each direction (all slopes and their corner cases, steep and flat), compared with points on the geometric line; every drive on 6 tracks; `Iterations` = 14 rounds of value iteration, more than any path needs. |
| `startup` | Is the run the one asked for; is the model the file's; does the search see that model; do sparse operations give what dense ones give; do the first bounds enclose the optimum; does the replacement of aliases end? | More than 5000 command lines: all pairs of options with all extensions, config files, and model files of two states, two actions and two observations with every kind of statement by number, name and wildcard, in an order that lets later ones override, rows and starts with negative entries, and costs; three states where a matrix must not be symmetric by accident. |
| `startup_zero_reward` | Is the last value given for a reward the one that counts? **No**, see below. | Files with a matrix of rewards after a general reward. |
| `relax_ub_discounted` | Do the relaxed trials end on a discounted track? **No**, see below. | The corridor with discount 1/2. |

Deadlock is checked in `startup`, where a finished run stutters on purpose.  The
other runs end when the root is solved, the bound on backups is met, the car has
finished or the last command is over, and say `CHECK_DEADLOCK FALSE`; a run that
stops earlier is caught by the liveness properties.

**Fairness.** `WF_vars(Next)` of the strategies says only that the program runs:
`doSolve` calls `planFixedTime` in a loop and nothing else competes.  Sampling is
not fair in the specifications: the runs check every sequence of outcomes.  LRTDP
and RTDP in the code rely on each outcome being sampled sooner or later, without
which a trial could go round a cycle for ever; `MaySample` replaces this by a bound:
a trial that has come back `MaxRepeats` times to nodes of its own path samples
an outcome that does not, where there is one.  `MaxPlanes` has weak fairness on
`PrunePlanes` only: a prune that has begun goes on.  `Program` has it on `Run`,
the process's own steps, and not on the user's.  `Startup` has it on the
replacement of aliases, `UseCacheLoop` on its pass, and `MCRaceTrack` on the
computation of the heuristic: these are plain loops.

**What the runs show.** The properties of the ten passing runs hold.  Two runs
show where the code differs from what is said of it:

* `relax_ub_discounted`: `RelaxUBInitializer::trialRecurse` adds up rewards
  without the discount (`RelaxUBInitializer.cc:194`) and compares the sum with
  priorities from discounted backups.  At the start line the alternative noted
  at the initial state (its nine actions are the same) always looks better, so a
  trial ends there and changes nothing, and `initialize` loops for ever.  All
  tracks that come with the program are undiscounted, but `RaceTrack.cc:553`
  takes care of discounted ones.
* `startup_zero_reward`: a matrix of rewards loses its zeros before it is entered
  (`imm-reward.c:297`), so that a zero does not override an earlier reward, though
  the head of that file says that the last value counts.

Some properties hold only under conditions
that the code does not check, and the properties or the instances state them: the
lazy update and the executed policy of a solved node need a heuristic that no
backup would raise (`UniformProblems`); HSVI's trials need a discount below 1; the
executed policy keeps the lower bound at nodes that were expanded (at a fringe node
a terminal successor without a node is given the heuristic's value, not 0); the
weighted mean of a batch is the policy's value only if every outcome was sampled
and the two models are identical; aliases must not occur in their own values; the
first bounds need rows that are distributions, which the fast parser does not check
(it compares their sums only).

## 5. Proofs

The theorems hold for every set of problems that satisfies the assumptions of
`MDP` (two outcomes per action, probabilities that sum to one), any number of
nodes and actions, any precision and any sequence of sampled outcomes.  Each
invariant was checked by TLC on the run's instances before it was proved.

**The operators** (`BoundPairProofs`).  `MaxAction` exists and is unique;
`UseCache` is exact above the fresh values; `Update` leaves the Q entries and
bounds of other nodes alone.  Then what the proofs about bounds need: a backup is
monotone (`BackupMonotone`), though it rounds, and narrows a gap to at most the
discounted one (`BackupGap`); making nodes leaves the bounds of *all states*
as they are, when a state without a node counts with its heuristic
(`GrownKeepsBounds`); what the update of both bounds sets (`UpdateOfBoth`).  Last
`Descending`: on a problem whose heuristic no backup would raise, values and Q
entries only come down, and no cached Q entry is below its fresh value
(`UpdateKeepsDescending`, `LoweringKeepsDescending`), so that at a node whose best
entry is fresh looking ahead finds the same action (`LookaheadIsGreedy`).

**The lazy update** (in `HSVIProofs`).  The invariant says which actions are
fresh, that the current action is the best one given these, and that every action
recomputed looked best when it was its turn; the end of the loop then gives both
the best fresh value and the closed form, and that no action is recomputed.
Assumption: cached values are not below fresh ones (for `Exact` only).

**The contract** (`Labels`).  `ContractIsSound`: labelled nodes stay settled and
lead to labelled nodes, whatever search keeps the contract.  It is proved where the
contract is first instantiated, in `LRTDPProofs`, from the contract alone.

**LRTDP** (`LRTDPProofs`).  `IInv` joins type correctness, the shape of the
stacks, the statement of `SolvedSound` and of `CheckSound`, and the facts that
connect them: what a node on `closed` has been converged *to* is on `open`, on
`closed` or solved.  `SolvedSound` alone is not inductive, since labels are set for
all of `closed` at once: what makes them right is `CheckSound` with `open` empty.
`CheckSound` in turn needs that backing up one node does not disturb the cached
values of another, because `cacheQ` puts the bound back.  `LabelsAreFinal` maps
every step to a step of `Labels` or a stutter: trials and checks change
nodes without a label only.  `PolicyIsClosed` is about the policy that is
executed, which looks one step ahead at fresh values and not at the cached ones
that labels were set by.  It adds the invariant `Lookahead`: bounds and Q
entries only come down, also through `updateInternal`, because terminal nodes are
labelled when they are met and so are never backed up; at a solved node the best
cached entry is fresh, and the others are no better than they were when cached.
Assumption: `UniformProblems`, as in the property.

**HDP** (`HDPProofs`).  What a label means is decided by numbers, so the invariant
has to say what numbers, stack and calls in progress stand for, in the middle of a
search.  `Numbered`: a node has a number if and only if it was visited in this trial,
is on the stack until it is labelled, and the stack is in the order of the numbers.
`CallChain`: each call is on a node that the outcome the call below is at leads to.
`Envelope`, the heart of it: as long as no call from the k-th on has met a big
residual, every node the k-th call owns (those numbered since it began and before
the next call) is settled, and each of its greedy outcomes that has been looked at
leads to a label or back to a node on the stack that is numbered no lower than the
call's `low` (`Accounted`).  When `low` equals `idx`, nothing leads out, and the
part of the stack that is popped is closed.  Updates on the way back are the
danger: they happen only where the flag is set, which `Envelope` excepts.
`LabelsSound`, `StackIsInOrder` and `LabelsAreFinal` follow.  Assumption:
`NodeCountAssumption`, that there are fewer nodes than `INT_MAX`, which the code
does not check.

**FRTDP** (`FRTDPProofs`).  `PriosAreSound`: a priority is minus infinity only at
a node that is precise enough and never promises more than the node's own width.
Since priorities are not renewed when successors change, this needs that a node whose successors are all within half the precision is so
itself after a backup; hence the assertion in `trialRecurse` that there is an
outcome to follow cannot fail.  `PolicyKeepsBound`: lower bounds stay such that
no backup would lower them, so an action chosen by looking ahead keeps them.
Assumptions: both bounds are kept (other settings are refused), and the first
depth limit is not above the cap, which is a bound of the model.

**HSVI** (`HSVIProofs`).  `BoundsBracket`: bounds of all states and cached Q
entries stay on their sides of values that no backup changes, by monotone
backups.  A node that is updated must not be terminal, since an update would count
its rewards; that it never is follows from `TerminalsExact`, that bounds of terminal nodes are equal, as
a trial goes on only where the width exceeds what it allows, which is not negative
because powers of the discount are not (`pow`).  Assumption: `Value` is given
and valid (`ValueAssumption`); that value iteration finds such values is left
to TLC, which evaluates it for the run's problems.

**The relaxed heuristic** (at the end of `HSVIProofs`, which instantiates `RelaxUB`
with variables of its own).  `RelaxedEnclosed`, for the
property `Enclosed`: whichever way the trials take, and
whatever they have not reached, the bounds of every node bracket the value of its state
in the problem whose outcomes may be chosen.  The best lower bound of any outcomes
gives an action at most what it is worth, the best upper bound at least that
(`RelaxQVal`); nodes that are only reached have the heuristics (`RelaxExpand`); and
trials stay on states of the problem (`RelaxSuccessor`), of which the relaxed value
is known.  Assumption (`RelaxAssumption`): what `RelaxUB` assumes of its
constants, of which `RelaxedAssumption` says that `Relaxed` solves the relaxed problem's equation
and lies between the heuristics; TLC evaluates it for every track.

**The heap of planes** (`MaxPlanesProofs`).  `HeapStaysSound`: the pointers of the
nodes, the back pointers of the planes, the list of planes and the support lists
agree in every step of a prune.  `BoundStaysKept`: every node keeps a plane that
may be used at its belief and gives at least the bound promised there, and
every belief that can be reached has one.  Neither is inductive.  What had to be
added: `Coverage`, that as long as nobody drops unreferenced planes a full one is
left, and that otherwise every plane was made at an expanded node, whose
successors are nodes with planes of their own; so the beliefs for which there is a
plane are closed under what may be observed, and are all that can be reached.  This
is where masks could fail: a plane that covers one belief covers another of
the same support, and the support of the next belief depends on the support only
(`NextAssumption`, which TLC evaluates for every problem).  And `Delivered`, that the plane that
keeps a node's bound is its own when there is a cache, so that forwarding its
pointer to a dominating plane keeps it: dominance on the states of the mask gives
at least the value at every belief the mask covers, by the monotonicity of sums
(`TotalMonotone`).  Assumptions: those of `Pomdp` and `MaxPlanes`, that is finitely
many states and observations, beliefs with some weight, and `reachable` being what can be
reached.  
`LowerBoundStaysSound`: no plane gives a belief it may be used at more than
`Ceiling`, that is, more than a policy can earn.  A new plane is a backup of
planes that are below it at the next beliefs (`Expected`), and a backup is linear
in the weights, so that what holds at the belief it was made at holds at all
beliefs where it may be used: with masks these are beliefs whose support lies in
the mask, where the next beliefs are covered by the same planes.  Entries are
rounded down, and the sum over the weights is taken after that, so that rounding
keeps the plane below (`MoreStates`, `PushedToNext`, `ExpectedPushed` and the other
lemmas on sums).  Assumption: `CeilingAssumption`, which is Bellman's inequality
and not the existence of an optimum.

All three theorems also hold in the process that executes the policy (`pc` is
"read"), which knows the planes from the file only.  `FileOK` says that the file is of
the planes the solver ended with.  It is then followed line by line
(`PolicyReadBack`, from `WritePlaneRead`, on the lines of one plane): what is
read is as many planes, in the same order, each with the entries that were written
and a mask of just those.  Such a copy may be used where the plane could be, and is
worth the same there (`CopyValue`), which is why entries within the mask have to be
written also where they are zero; and the support lists that are built while
planes are added list what they should (`SupportOfList`).  The loops over lines,
planes and entries are recursive functions; what they return is proved by
`Loop` and `Upwards`, an induction over a set instead of a predicate.  That the
policy then earns what was promised (`PolicyDelivers`) is left to TLC.

**The point set** (`SawtoothProofs`).  `UpperBoundStaysSound`: the value of every
belief that can be reached, and what each node reports, stay above what any plan
earns.  A plan's value is linear in the belief and every point lies above it, so
the interpolation at a point does, too: this is the geometry of the sawtooth, with ratios as
pairs of numbers and values rounded up.  The invariant `Above` says it of corners,
points, the vectors of the fast informed bound in the middle of their iteration, and
of Q entries that were cached when the bound was higher.  A backup keeps it,
because a plan is worth no more than its own backup and observations of a state add
up to one.  `BoundRisesWithCornersOnly` is an action property: where a prune deletes
a point, another point or the corners give its belief as low a value, and a point
that is as low at the *belief* of the deleted one is so at all beliefs, since the
ratio of the first to the third is at least the product of the ratios in between
(rounding up makes the comparison one of integers).  `NodesStayBacked`: what a node
reports was a value of the set, which does not rise after; the theorem says this
of behaviours in which no corner rises (`CornersFall`), which the code does
not guarantee for every problem (section 6) and TLC found to hold on those of the
run.  Assumptions: those of `Pomdp`, and that `Policies` are plans.  The
lemmas on sums and lists are those of `MaxPlanesProofs`; they are repeated, since
the two modules cannot be joined.

**The program** (`ProgramProofs`).  `InPlace` ties `pc` to the command that is
running.  `PolicyInPlace` says where
the policy is in each moment of its replacement: before `mv` in the file, from then
on in the backup until the new file is whole, then in the file.  `Final` says that
a benchmark's loop that is about to end has just been through an epoch, because an
epoch is due whenever the solver is done or the time is up.  This gives
`PolicyIsKept` and `ReportsAreFinal` for any solver, any settings and any
sequence of commands.  Assumption: the time limit is positive, which
`solverUtils.cc:135` sees to.

`ReplayIsExact`: a run of the scripted updater goes through the bound tables of the
run whose log it follows.  It has three parts.  Of the files: numbers of states are
given in order of first use, so that the index that is written, once it is read
back line by line, gives for each number of the log the state it stood for
(`IndexReadBack`, `LogReadBack`); the reader is a recursive function, and what it has
after k lines is proved by the least k at which it would differ.  Of runs: a run's
tables are an execution of its backups, from the empty table on (`Execution`).
Of the two together: the files of a log are those of one execution and its last
table (`LogKept`), whatever commands and crashes come after them; and a script
that has followed k lines has executed the first k backups (`ScriptFollowed`).  In the
model the files of a log are written in one step.  The theorem needs no assumption
besides those of the model.

`MatrixStaysInOrder`, in the same module, is about what a model file is read into:
the rows of the Cassandra parser's intermediate matrix are linked lists, which the
comment of `addEntryToRow` says always remain sorted, and later lookups take the first
node of a column.  Each of the cases (a zero that removes a node or does nothing, a
value that replaces one, a node inserted in front, between two or at the end) leaves
the list in strict order, without zeros and with the right count; afterwards the matrix
has the new value in its place and the old ones elsewhere.  `InsertAtPlaces`,
`RemoveAtPlaces` and `StopProperties` are its lemmas.  `NewMatrixInOrder` is the
beginning.  That a whole file leaves the entries its statements declare is a fold over
them and stays with the run `startup`.

**Only model-checked.**  What compares with the optimum of an undiscounted problem
or follows a policy over a horizon (`RegretBounded`, `PolicyDelivers`,
`InitialBoundsHold`): value iteration is an induction over data.  `PolicyDelivers`
moreover holds at the root only because of what the run's prunes leave: a plane may
be deleted though planes made from it at other beliefs stay, and the look-ahead then
goes on with others.  What is about parsers, packed matrices, the weights of
`ReweightingExact` and the plotted line of a racetrack: folds over data, too.  All
liveness: ENABLED is out of the prover's reach.  `CacheIsBest`, that the plane a
node keeps is the best one, would need that a backup at a belief is never worse
there than the planes it goes on from promise; entries are rounded down one by one, so that a higher
sum of unrounded entries does not make the sum of the rounded ones higher, and
the argument fails in the model where it would hold for real numbers.

## 6. Observations

Behaviour met while modelling that no run is about, either because nothing in the
repository says otherwise or because it does no harm.

*Search and bounds.*

* The relaxed values are never read: new search nodes ask for their upper bound
  without a node of the relaxation (`PointUpperBound.cc:86`), and
  `RelaxUBInitializer.cc:245` returns the trivial bound.
  `useWeakUpperBoundHeuristic` (`zmdp.config:139`) only decides whether time is
  spent on them.
* Of the sawtooth bound's support lists only the one of a point's first state is of
  use.  The lists weaken the bound, since a point is not considered at beliefs
  that begin elsewhere.  Pairs that are skipped by age after a prune in the same
  backup, or after corners moved, only leave superfluous points; the comment at
  `SawtoothUpperBound.cc:222` is not exact.
* A corner's value may rise: `addPoint` for a corner belief sets `cornerPts` to the
  new value without comparing (`SawtoothUpperBound.cc:274`).  With doors that
  put the prize anywhere after each opening, and a penalty of 320, the fast informed bound's
  811 at a corner becomes 843 at its first update.  The bound stays above
  all policies, but is then not monotone.
* A scripted updater that keeps a log of its own in the directory it reads from
  overwrites the log it repeats (`ScriptedUpdater.cc:102`, `RTDPCore.cc:152`); in the
  model its log goes elsewhere.
* A policy file prints values with six digits, so a plane that is read may lie
  slightly above the one that was written.  `numBackupsAtCreation` is not set by
  reading, but is not read afterwards either.
* `RTDP::doTrial` always says that it is not done, so `-s rtdp` never stops by
  precision, whatever `zmdp.config:90` says.

*Program.*

* "reached target regret bound" is also printed when the limit on backups or the
  end of a script stopped the run.  With a limit of 0 the run stops after its
  first trial.
* `zmdp.config:68` promises a policy after ctrl-C; a benchmark has no handler.
  If writing is interrupted and the benchmark is started again, `mv` replaces the
  whole backup by the partial file, which is why `PolicyKept` speaks of one
  process; `>&` in these commands is a bashism.
* A ctrl-C before the first call of a script leads to a NULL index in
  `finishLogging`.  Early ctrl-C with `useTimeWithoutHeuristic` 0 reaches
  `writeToFile` with no planes, whose loop counts to `planes.size() - 1`
  (`MaxPlanesLowerBound.cc:560`), an unsigned number.
* With no trials per epoch the batches divide by zero; the remainder of the
  trials is not run.

*Configuration.*

* The last line of a config file is dropped if it has no end; a line of 1024
  characters or more is read for ever; `-d 2` leaves the 2 as an argument.
* Aliases also replace option values and file names that equal an alias.
* `lowerBoundRepresentation` accepts `convex` where `zmdp.config` says
  `maxPlanes`; a message speaks of `-t` for the model type.

*Parsers.*

* `values: cost` only sets a variable that nothing but `writeMDP` reads
  (`pomdp_spec.y:261`, `mdp.c:419`), so that costs are searched for as rewards, though
  the comment at `pomdp_spec.y:250-254` says that values may be given as either (the
  fast parser refuses such files).  `ModelIsDeclared` compares the rewards of
  files with `values: reward` only, and of the others everything else.
* An MDP without start has the initial state -1, where the grammar's
  comment assumes random states; the number of a start state is not checked in
  an MDP; `start include: *` writes at index -1; a file without rewards meets a
  NULL tree; `gInitialState` survives from one model to the next.
* A model file of the other type than asked for leaves rewards or start
  uninitialised.
* `FastParser` sums the entries of a row and does not look at them (lines 298-307,
  325-335): with `-f` a row `-1, 2` is accepted and searched, and of a start `-1, 1` the
  first entry is dropped.  The grammar has no sign for a probability.
* `FastParser` reports missing preamble statements and goes on, does not check
  discount and indices, does not count comment lines, never takes a single state as the
  start though its message offers it, and needs one statement after the preamble.
* A track's width counts the end of the line as a column, which is open; a last
  row without an end is refused.

Inputs on which these leave the program in no defined state are not among those
of the runs: files of the wrong type, missing starts, sizes or discounts, indices
out of range in the fast parser, `start include: *`, lines that are too long,
aliases that contain themselves.

## 7. Not modelled

Rounding of doubles (except where a property names it), output, statistics and
logging; `getSimulatedOutcome` when rounding leaves probability mass over (it
then returns outcome 0, which may be a NULL edge); the scanner, and the
formatting and parsing of numbers and vectors; policy files in the format of
other solvers, and tables of Q values; `useTimeWithoutHeuristic` other than 1;
simulation traces; the exits of `TestDriver.cc:125-134` at a given lower or upper
bound, which are off by default; the refusal of a line without a value in config and
track files.

Life survey and rock exploration are programs of their own, which generate
example models and simulate policies written by hand for them; their result is a
model file like any other to the solver, and their sources are most of what the
map does not cover.  The tests of `sla.h`, headers with declarations only, usage
texts and the scripts around the program are not modelled either.
