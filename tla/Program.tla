------------------------------- MODULE Program -------------------------------
(***************************************************************************)
(* The zmdp program (main/zmdp.cc, main/TestDriver.cc): the commands solve,*)
(* benchmark and evaluate over a search strategy and the evaluator, the    *)
(* files they write, a user who may press ctrl-C at any moment, and the    *)
(* next command that user gives.                                           *)
(*                                                                         *)
(* The bounds are a table of BoundPair with both bounds; what a policy     *)
(* file holds is the lower bound of every state.  Time is counted in       *)
(* ticks, and a call of the solver takes one or two.                       *)
(***************************************************************************)
EXTENDS RTDP, PolicyEvaluator

CONSTANTS
  Settings,      \* the settings a command may have
  FirstSettings, \* those of a first command
  Follow(_, _),  \* those of a command after one with some settings that was
                 \* cut off or not
  Simulators(_), \* for a problem, the models its policy may be tried on
  EpochRatio,    \* 10 to the power 1 / evaluationEpochsPerMagnitude
  MaxTime,       \* elapsed time is counted up to here
  MaxProcesses   \* bound on the commands given one after the other

\* What reading the configuration leaves: a time limit that is not positive
\* has been replaced by a large one, and so has a negative number of backups.
Setting ==
  [ command                   : {"solve", "benchmark", "evaluate"},
    searchStrategy            : {"rtdp", "script"},
    policyOutputFile          : BOOLEAN,
    useLogBackups             : BOOLEAN,
    terminateNumBackups       : Nat,
    terminateWallclockSeconds : Nat \ {0},
    terminateRegretBound      : Int,
    firstEpoch                : Int,
    useEvaluationCache        : BOOLEAN ]

ASSUME SettingsAssumption ==
         /\ Settings \subseteq Setting
         /\ FirstSettings \subseteq Settings
         /\ \A setting \in Settings, cutOff \in BOOLEAN :
              Follow(setting, cutOff) \subseteq Settings

VARIABLES
  files,           \* policy: the policy file, bak: its backup, log: the logs
                   \* of a run, values: its boundValuesOutputFile, and
                   \* replayed: that file as written by the scripted updater
  handler,         \* sigIntHandler is installed
  userTerminated,  \* userTerminatedG
  elapsed,         \* time so far
  lastSim,         \* the time of the last epoch of the benchmark
  evaluated,       \* the policy evaluated last
  written,         \* this process has completed a policy file
  processes        \* commands given so far

commandVars == <<files, handler, userTerminated, elapsed, lastSim, evaluated,
                 written>>

vars == <<problem, settings, searchVars, evaluatorVars, commandVars, processes, pc>>

NoValues == [n \in Node |-> 0]
NoPolicy == [n \in Node |-> 0]
NoFile   == [there |-> FALSE, whole |-> FALSE, lower |-> NoValues]
Partial  == [NoFile EXCEPT !.there = TRUE]

WholePolicy(lower) == [there |-> TRUE, whole |-> TRUE, lower |-> lower]

NoFiles ==
  [ policy   |-> NoFile,
    bak      |-> NoFile,
    log      |-> [there |-> FALSE, index |-> <<>>, lines |-> <<>>],
    values   |-> <<>>,
    replayed |-> <<>> ]

\* A process just started.
ProcessInit ==
  /\ handler = FALSE
  /\ userTerminated = FALSE
  /\ elapsed = 0
  /\ lastSim = 0
  /\ evaluated = NoPolicy
  /\ written = FALSE
  /\ evaluator = "idle"
  /\ pc = "main"

Init ==
  /\ problem \in Problems
  /\ settings \in FirstSettings
  /\ SearchInit
  /\ ev = NewEvaluation(problem, problem, NoPolicy, TRUE, TRUE)
  /\ ProcessInit
  /\ files = NoFiles
  /\ processes = 1

\* The values of the bounds at every state, node or not.
LowerValues == ValueOf(problem, bp, bp.lb, problem.lower)
UpperValues == ValueOf(problem, bp, bp.ub, problem.upper)
Intervals   == [n \in Node |-> <<LowerValues[n], UpperValues[n]>>]

\* The action the executive takes in each state, by the lower bound.
PolicyOf(p, lower) ==
  [n \in Node |-> MaxAction([a \in Action |-> Backup(p, lower, n, a)])]

Goto(here, there) == pc = here /\ pc' = there

Quiet == UNCHANGED <<problem, settings, processes>>

-----------------------------------------------------------------------------
\* planInit; only doSolve installs the handler, and only then.
Main ==
  /\ \/ settings.command = "solve" /\ Goto("main", "handler")
     \/ settings.command = "benchmark" /\ Goto("main", "loop")
     \/ settings.command = "evaluate" /\ Goto("main", "read")
  /\ Quiet /\ UNCHANGED <<searchVars, evaluatorVars, commandVars>>

SetSignalHandler ==
  /\ Goto("handler", "loop")
  /\ handler' = TRUE
  /\ Quiet
  /\ UNCHANGED <<searchVars, evaluatorVars, files, userTerminated, elapsed,
                 lastSim, evaluated, written>>

Later(ticks) == Smaller(elapsed + ticks, MaxTime)

TimedOut == elapsed >= settings.terminateWallclockSeconds

\* Mutant of SolveEnds: the flag is read after the call, and lost.
SolveEndsDeaf == done \/ TimedOut

SolveEnds == done \/ TimedOut \/ userTerminated

\* The loop of doSolve calls the solver or goes on to write the policy.
SolveLoop ==
  /\ settings.command = "solve"
  /\ pc = "loop"
  /\ pc' = IF ~SolveEnds THEN "planFixedTime"
           ELSE IF settings.policyOutputFile THEN "write" ELSE "finishLogging"
  /\ Quiet /\ UNCHANGED <<searchVars, evaluatorVars, commandVars>>

SolveReturned(ticks) ==
  /\ settings.command = "solve"
  /\ Goto("planned", "loop")
  /\ elapsed' = Later(ticks)
  /\ Quiet
  /\ UNCHANGED <<searchVars, evaluatorVars, files, handler, userTerminated,
                 lastSim, evaluated, written>>

\* The solver is called with the files of a log, if it is to follow one.
CallSolver ==
  \/ SearchStep
  \/ files.log.there /\ StartScript(files.log.index, files.log.lines)

Search == CallSolver /\ Quiet /\ UNCHANGED <<evaluatorVars, commandVars>>

\* There is no log to follow: exit(EXIT_FAILURE).
NoScriptFiles ==
  /\ settings.searchStrategy = "script"
  /\ ~files.log.there
  /\ Goto("planFixedTime", "dead")
  /\ Quiet /\ UNCHANGED <<searchVars, evaluatorVars, commandVars>>

-----------------------------------------------------------------------------
\* writePolicy opens the file, which empties it, and then writes the planes.
OpenPolicy ==
  /\ Goto("write", "writing")
  /\ files' = [files EXCEPT !.policy = Partial]
  /\ Quiet
  /\ UNCHANGED <<searchVars, evaluatorVars, handler, userTerminated, elapsed,
                 lastSim, evaluated, written>>

WritePolicy ==
  /\ pc = "writing"
  /\ pc' = IF settings.command = "solve" THEN "finishLogging" ELSE "rm"
  /\ files' = [files EXCEPT !.policy = WholePolicy(LowerValues)]
  /\ written' = TRUE
  /\ Quiet
  /\ UNCHANGED <<searchVars, evaluatorVars, handler, userTerminated, elapsed,
                 lastSim, evaluated>>

\* maybeLogBackups, and the bound values of a scripted updater, which writes to
\* another directory than backupScriptInputDir, so that the log it repeats stays
\* (a log of its own is not kept here).  One that has read no script has no
\* index, and follows a null pointer.
FinishLogging ==
  /\ pc = "finishLogging"
  /\ \E log \in {LogOf(backedUpNodes)}, values \in {Intervals} :
       files' = IF settings.searchStrategy = "script"
                THEN [files EXCEPT !.replayed = ValuesFile(script.index, values)]
                ELSE IF settings.useLogBackups
                THEN [files EXCEPT !.log = log,
                                   !.values = ValuesFile(Index(backedUpNodes), values),
                                   !.replayed = <<>>]
                ELSE files
  /\ pc' = IF settings.searchStrategy = "script" /\ ~script.read
           THEN "dead" ELSE "exit"
  /\ Quiet
  /\ UNCHANGED <<searchVars, evaluatorVars, handler, userTerminated, elapsed,
                 lastSim, evaluated, written>>

-----------------------------------------------------------------------------
\* The loop of batchTestIncremental.
Precise ==
  bp.ub[problem.initial] - bp.lb[problem.initial] <= settings.terminateRegretBound

\* Mutant of EpochDue: no epoch is due because the solver is done.
EpochDueByTime(time, finished) ==
  \/ time > settings.firstEpoch /\ time > EpochRatio * lastSim
  \/ time >= settings.terminateWallclockSeconds

\* An epoch is due on a logarithmic scale of time, and when the run ends.
EpochDue(time, finished) ==
  \/ time > settings.firstEpoch /\ time > EpochRatio * lastSim
  \/ time >= settings.terminateWallclockSeconds
  \/ finished

\* After a call of the solver in a benchmark.  (The tests of the root's bounds
\* against terminateLowerBoundValue and terminateUpperBoundValue, off by default,
\* are left out: they end a run as a met precision does.)
BenchmarkReturned(ticks) ==
  /\ settings.command = "benchmark"
  /\ pc = "planned"
  /\ elapsed' = Later(ticks)
  /\ done' = (done \/ (settings.terminateRegretBound > 0 /\ Precise))
  /\ IF EpochDue(elapsed', done')
     THEN /\ lastSim' = elapsed'
          /\ pc' = IF settings.policyOutputFile THEN "mv" ELSE "evaluate"
     ELSE /\ lastSim' = lastSim
          /\ pc' = "loop"
  /\ Quiet
  /\ UNCHANGED <<bp, numBackups, backedUpNodes, stack, script, currentLogEntry,
                 firstInTrial, evaluatorVars, files, handler, userTerminated,
                 evaluated, written>>

BenchmarkLoop ==
  /\ settings.command = "benchmark"
  /\ pc = "loop"
  /\ pc' = IF done \/ TimedOut THEN "finishLogging" ELSE "planFixedTime"
  /\ Quiet /\ UNCHANGED <<searchVars, evaluatorVars, commandVars>>

\* Mutant of MoveToBackup: the old policy is removed instead.
MoveToBackupRemoves == [files EXCEPT !.policy = NoFile, !.bak = NoFile]

\* mv, which fails when there is no policy file yet: the run goes on.
MoveToBackup ==
  IF files.policy.there
  THEN [files EXCEPT !.bak = files.policy, !.policy = NoFile]
  ELSE files

Backup_ ==
  /\ Goto("mv", "write")
  /\ files' = MoveToBackup
  /\ Quiet
  /\ UNCHANGED <<searchVars, evaluatorVars, handler, userTerminated, elapsed,
                 lastSim, evaluated, written>>

RemoveBackup ==
  /\ Goto("rm", "evaluate")
  /\ files' = [files EXCEPT !.bak = NoFile]
  /\ Quiet
  /\ UNCHANGED <<searchVars, evaluatorVars, handler, userTerminated, elapsed,
                 lastSim, evaluated, written>>

-----------------------------------------------------------------------------
\* The benchmark evaluates the bounds it has, on the model they are of.
EvaluateBounds ==
  /\ Goto("evaluate", "evaluating")
  /\ StartEvaluation(problem, problem, PolicyOf(problem, LowerValues), TRUE,
                     settings.useEvaluationCache)
  /\ Quiet /\ UNCHANGED <<searchVars, commandVars>>

\* doEvaluate reads a policy file and evaluates it, on the model it is of or
\* on another one.  It fails on a file that is missing or cut off.
EvaluateFile(simulator) ==
  /\ pc = "read"
  /\ IF files.policy.whole
     THEN /\ pc' = "evaluating"
          /\ StartEvaluation(simulator, problem,
                             PolicyOf(problem, files.policy.lower),
                             simulator = problem, settings.useEvaluationCache)
     ELSE /\ pc' = "dead"
          /\ UNCHANGED evaluatorVars
  /\ Quiet /\ UNCHANGED <<searchVars, commandVars>>

Evaluate ==
  /\ pc = "evaluating"
  /\ EvaluatorStep
  /\ UNCHANGED pc
  /\ Quiet /\ UNCHANGED <<searchVars, commandVars>>

\* The results are written, the cache is deleted.
EndEvaluation ==
  /\ evaluator = "finished"
  /\ pc' = IF settings.command = "benchmark" THEN "loop" ELSE "exit"
  /\ pc = "evaluating"
  /\ evaluated' = ev.policy
  /\ ev' = NewEvaluation(problem, problem, NoPolicy, TRUE, TRUE)
  /\ evaluator' = "idle"
  /\ Quiet
  /\ UNCHANGED <<searchVars, files, handler, userTerminated, elapsed, lastSim,
                 written>>

-----------------------------------------------------------------------------
\* ctrl-C: the handler sets a flag; without a handler the process ends.
CtrlC ==
  /\ pc \notin {"exit", "dead"}
  /\ ~userTerminated
  /\ IF handler
     THEN userTerminated' = TRUE /\ UNCHANGED pc
     ELSE pc' = "dead" /\ UNCHANGED userTerminated
  /\ Quiet
  /\ UNCHANGED <<searchVars, evaluatorVars, files, handler, elapsed, lastSim,
                 evaluated, written>>

\* The user gives another command, in the same directory.
NextCommand ==
  /\ pc \in {"exit", "dead"}
  /\ processes < MaxProcesses
  /\ settings' \in Follow(settings, pc = "dead")
  /\ ResetSearch
  /\ handler' = FALSE
  /\ userTerminated' = FALSE
  /\ elapsed' = 0
  /\ lastSim' = 0
  /\ evaluated' = NoPolicy
  /\ written' = FALSE
  /\ ev' = NewEvaluation(problem, problem, NoPolicy, TRUE, TRUE)
  /\ evaluator' = "idle"
  /\ pc' = "main"
  /\ processes' = processes + 1
  /\ UNCHANGED <<problem, files>>

\* A step of the program, and not of its user.
Run ==
  \/ Main
  \/ SetSignalHandler
  \/ SolveLoop
  \/ \E ticks \in 1 .. 2 : SolveReturned(ticks) \/ BenchmarkReturned(ticks)
  \/ Search
  \/ NoScriptFiles
  \/ OpenPolicy
  \/ WritePolicy
  \/ FinishLogging
  \/ BenchmarkLoop
  \/ Backup_
  \/ RemoveBackup
  \/ EvaluateBounds
  \/ \E simulator \in Simulators(problem) : EvaluateFile(simulator)
  \/ Evaluate
  \/ EndEvaluation

Next == Run \/ CtrlC \/ NextCommand

Spec == Init /\ [][Next]_vars

\* The process runs while it can.
FairSpec == Spec /\ WF_vars(Run)

-----------------------------------------------------------------------------
\* "In case policy writing is interrupted": from the first epoch on there is
\* a whole policy, in the policy file or in its backup, whenever the user
\* interrupts the benchmark.
PolicyKept == written => files.policy.whole \/ files.bak.whole

\* When a command comes to its end, what it leaves is of the bounds it ended
\* with: the policy file, and in a benchmark the last evaluation.
ReportsFinal ==
  pc = "exit" =>
    /\ settings.policyOutputFile /\ settings.command # "evaluate" =>
         files.policy = WholePolicy(LowerValues)
    /\ settings.command = "benchmark" =>
         evaluated = PolicyOf(problem, LowerValues)

\* "Repeat the exact sequence of updates from an earlier run": once a script
\* that was read has been followed to its end, every state it mentions has the
\* bounds it had at the end of the run that was logged.
ReplayExact ==
  /\ settings.searchStrategy = "script"
  /\ script.read
  /\ pc = "exit"
  /\ currentLogEntry = Len(script.entries)
  => files.replayed = files.values

\* A user who interrupts zmdp solve gets a policy, when one was asked for.
InterruptHonoured ==
  userTerminated /\ settings.policyOutputFile
    ~> pc = "exit" /\ files.policy.whole
=============================================================================
