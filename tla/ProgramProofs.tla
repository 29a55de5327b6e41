---------------------------- MODULE ProgramProofs ----------------------------
(***************************************************************************)
(* What the program leaves behind: proofs for any problem, any settings,   *)
(* any interruptions and any sequence of commands.  At the end, what it    *)
(* reads a model file into: the matrices of the Cassandra parser.          *)
(***************************************************************************)
EXTENDS Program, BoundPairProofs, SequenceTheorems

\* Where the solver is while it is called.
Searching == {"planFixedTime", "trialRecurse", "unwind", "script", "planned"}

\* Where a command may be.
Place ==
  [ solve     |-> {"main", "handler", "loop", "write", "writing",
                   "finishLogging", "exit", "dead"} \cup Searching,
    benchmark |-> {"main", "loop", "mv", "write", "writing", "rm", "evaluate",
                   "evaluating", "finishLogging", "exit", "dead"} \cup Searching,
    evaluate  |-> {"main", "read", "evaluating", "exit", "dead"} ]

Fields == {"policy", "bak", "log", "values", "replayed"}

InPlace ==
  /\ settings \in Settings
  /\ pc \in Place[settings.command]
  /\ pc = "main" => ~done /\ elapsed = 0
  /\ Fields \subseteq DOMAIN files
  /\ "policy" \in DOMAIN ev

\* Where the policy is while a benchmark replaces it: at every moment in the
\* policy file or in the backup.
PolicyInPlace ==
  /\ files.policy.whole => files.policy.there
  /\ pc = "main" => ~written
  /\ settings.command = "solve" /\ written =>
       pc \in {"finishLogging", "exit", "dead"} /\ files.policy.whole
  /\ settings.command = "benchmark" /\ written =>
       /\ pc \in {"write", "writing"} => files.bak.whole
       /\ pc = "dead" => files.policy.whole \/ files.bak.whole
       /\ pc \notin {"write", "writing", "dead"} => files.policy.whole
  /\ settings.command = "evaluate" => ~written

\* The policy file, and the policy evaluated last, are those of the bounds.
PolicyIsFinal     == settings.policyOutputFile => files.policy = WholePolicy(LowerValues)
EvaluationIsFinal == evaluated = PolicyOf(problem, LowerValues)

\* From which point on they are: in a benchmark, a loop that is about to end
\* has just been through an epoch.
Final ==
  /\ settings.command = "solve" /\ pc \in {"finishLogging", "exit"} => PolicyIsFinal
  /\ settings.command = "benchmark" =>
       /\ pc \in {"rm", "evaluate", "evaluating"} => PolicyIsFinal
       /\ pc = "evaluating" => ev.policy = PolicyOf(problem, LowerValues)
       /\ \/ pc \in {"finishLogging", "exit"}
          \/ pc = "loop" /\ (done \/ TimedOut)
          => PolicyIsFinal /\ EvaluationIsFinal

IInv == InPlace /\ PolicyInPlace /\ Final

-----------------------------------------------------------------------------
\* A command is one of three.
LEMMA Commands ==
  ASSUME NEW setting \in Settings
  PROVE  /\ setting.command \in {"solve", "benchmark", "evaluate"}
         /\ setting.terminateWallclockSeconds \in Nat \ {0}
BY SettingsAssumption DEF Setting

LEMMA InitIInv == Init => IInv
<1> SUFFICES ASSUME Init PROVE IInv
  OBVIOUS
<1>1. settings \in Settings /\ settings.command \in {"solve", "benchmark", "evaluate"}
  BY SettingsAssumption, Commands DEF Init
<1>2. /\ pc = "main" /\ elapsed = 0 /\ written = FALSE /\ done = FALSE
      /\ files = NoFiles /\ ev = NewEvaluation(problem, problem, NoPolicy, TRUE, TRUE)
  BY DEF Init, ProcessInit, SearchInit
<1>3. Fields \subseteq DOMAIN files /\ "policy" \in DOMAIN ev
  BY <1>2 DEF Fields, NoFiles, NewEvaluation
<1>4. files.policy.whole = FALSE
  BY <1>2 DEF NoFiles, NoFile
<1>5. pc \in Place[settings.command]
  BY <1>1, <1>2 DEF Place
<1>6. InPlace
  BY <1>1, <1>2, <1>3, <1>5 DEF InPlace
<1>7. PolicyInPlace /\ Final
  BY <1>2, <1>4 DEF PolicyInPlace, Final
<1> QED
  BY <1>6, <1>7 DEF IInv

\* A step that changes neither the problem nor the bounds changes no value.
LEMMA ValuesStay ==
  UNCHANGED <<problem, bp>> => UNCHANGED LowerValues
BY DEF LowerValues

LEMMA MainIInv == IInv /\ Main => IInv'
<1> SUFFICES ASSUME IInv, Main PROVE IInv'
  OBVIOUS
<1>1. /\ UNCHANGED <<problem, settings, files, elapsed, done, ev, evaluated, written, bp>>
      /\ pc = "main"
      /\ \/ settings.command = "solve" /\ pc' = "handler"
         \/ settings.command = "benchmark" /\ pc' = "loop"
         \/ settings.command = "evaluate" /\ pc' = "read"
  BY DEF Main, Goto, Quiet, searchVars, evaluatorVars, commandVars
<1>2. InPlace'
  BY <1>1 DEF IInv, InPlace, Place
<1>3. PolicyInPlace'
  BY <1>1 DEF IInv, PolicyInPlace
<1>4. ~(done \/ TimedOut)'
  BY <1>1, Commands DEF IInv, InPlace, TimedOut
<1>5. Final'
  BY <1>1, <1>4 DEF Final
<1> QED
  BY <1>2, <1>3, <1>5 DEF IInv

LEMMA SolveStepIInv ==
  ASSUME IInv, \/ SetSignalHandler
               \/ SolveLoop
               \/ \E ticks \in 1 .. 2 : SolveReturned(ticks)
  PROVE  IInv'
<1>1. /\ UNCHANGED <<problem, settings, files, done, ev, evaluated, written, bp>>
      /\ \/ pc = "handler" /\ pc' = "loop"
         \/ /\ pc = "loop" /\ settings.command = "solve"
            /\ pc' \in {"planFixedTime", "write", "finishLogging"}
            /\ pc' = "finishLogging" => ~settings.policyOutputFile
         \/ pc = "planned" /\ pc' = "loop" /\ settings.command = "solve"
  BY DEF SetSignalHandler, SolveLoop, SolveReturned, Goto, Quiet, searchVars,
         evaluatorVars, commandVars
<1>2. settings.command = "solve"
  BY <1>1, Commands DEF IInv, InPlace, Place, Searching
<1>3. ~written
  BY <1>1, <1>2 DEF IInv, PolicyInPlace
<1>4. InPlace'
  BY <1>1, <1>2 DEF IInv, InPlace, Place, Searching
<1>5. PolicyInPlace'
  BY <1>1, <1>2, <1>3 DEF IInv, PolicyInPlace
<1>6. Final'
  BY <1>1, <1>2 DEF Final, PolicyIsFinal
<1> QED
  BY <1>4, <1>5, <1>6 DEF IInv

\* The solver, once called, does not touch what the command keeps.
LEMMA SearchIInv == IInv /\ Search => IInv'
<1> SUFFICES ASSUME IInv, Search PROVE IInv'
  OBVIOUS
<1>1. UNCHANGED <<settings, files, elapsed, ev, evaluated, written>>
  BY DEF Search, Quiet, evaluatorVars, commandVars
<1>2. pc \in Searching /\ pc' \in Searching
  BY DEF Search, CallSolver, SearchStep, StartTrial, TrialAtTerminal, TrialStep,
         Unwind, EndTrial, StartScript, ScriptStep, ScriptEnd, ReturnPlan, Searching
<1>3. settings.command \in {"solve", "benchmark"}
  BY <1>2, Commands DEF IInv, InPlace, Place, Searching
<1>4. InPlace'
  BY <1>1, <1>2, <1>3 DEF IInv, InPlace, Place, Searching
<1>5. PolicyInPlace'
  BY <1>1, <1>2, <1>3 DEF IInv, PolicyInPlace, Searching
<1>6. Final'
  BY <1>1, <1>2, <1>3 DEF Final, Searching
<1> QED
  BY <1>4, <1>5, <1>6 DEF IInv

\* The process is cut off, with the files as they are.
LEMMA CutOffIInv == IInv /\ (NoScriptFiles \/ CtrlC) => IInv'
<1> SUFFICES ASSUME IInv, NoScriptFiles \/ CtrlC PROVE IInv'
  OBVIOUS
<1>1. /\ UNCHANGED <<problem, settings, files, elapsed, done, ev, evaluated, written, bp>>
      /\ pc' \in {pc, "dead"}
  BY DEF NoScriptFiles, CtrlC, Goto, Quiet, searchVars, evaluatorVars, commandVars
<1>2. settings.command \in {"solve", "benchmark", "evaluate"}
  BY Commands DEF IInv, InPlace
<1>3. InPlace'
  BY <1>1, <1>2 DEF IInv, InPlace, Place
<1>4. PolicyInPlace'
  BY <1>1, <1>2 DEF IInv, PolicyInPlace
<1>5. Final'
  BY <1>1, ValuesStay DEF IInv, Final, PolicyIsFinal, EvaluationIsFinal, TimedOut
<1> QED
  BY <1>3, <1>4, <1>5 DEF IInv

\* The policy file is emptied and written again.  The backup is whole then, or
\* no policy has been written yet.
LEMMA OpenPolicyIInv == IInv /\ OpenPolicy => IInv'
<1> SUFFICES ASSUME IInv, OpenPolicy PROVE IInv'
  OBVIOUS
<1>1. /\ UNCHANGED <<problem, settings, elapsed, done, ev, evaluated, written, bp>>
      /\ pc = "write" /\ pc' = "writing"
      /\ files' = [files EXCEPT !.policy = Partial]
  BY DEF OpenPolicy, Goto, Quiet, searchVars, evaluatorVars
<1>2. settings.command \in {"solve", "benchmark"}
  BY <1>1, Commands DEF IInv, InPlace, Place, Searching
<1>3. Fields \subseteq DOMAIN files
  BY DEF IInv, InPlace
<1>4. /\ DOMAIN files' = DOMAIN files
      /\ files'.bak = files.bak /\ files'.policy = Partial
  BY <1>1, <1>3 DEF Fields
<1>5. Partial.there = TRUE
  BY DEF Partial, NoFile
<1>6. InPlace'
  BY <1>1, <1>2, <1>4 DEF IInv, InPlace, Place, Searching
<1>7. PolicyInPlace'
  BY <1>1, <1>2, <1>4, <1>5 DEF IInv, PolicyInPlace
<1>8. Final'
  BY <1>1, <1>2 DEF Final
<1> QED
  BY <1>6, <1>7, <1>8 DEF IInv

LEMMA WritePolicyIInv == IInv /\ WritePolicy => IInv'
<1> SUFFICES ASSUME IInv, WritePolicy PROVE IInv'
  OBVIOUS
<1>1. /\ UNCHANGED <<problem, settings, elapsed, done, ev, evaluated, bp>>
      /\ pc = "writing"
      /\ pc' = IF settings.command = "solve" THEN "finishLogging" ELSE "rm"
      /\ files' = [files EXCEPT !.policy = WholePolicy(LowerValues)]
  BY DEF WritePolicy, Quiet, searchVars, evaluatorVars
<1>2. settings.command \in {"solve", "benchmark"}
  BY <1>1, Commands DEF IInv, InPlace, Place, Searching
<1>3. Fields \subseteq DOMAIN files
  BY DEF IInv, InPlace
<1>4. DOMAIN files' = DOMAIN files /\ files'.policy = WholePolicy(LowerValues)
  BY <1>1, <1>3 DEF Fields
<1>5. /\ WholePolicy(LowerValues).there = TRUE
      /\ WholePolicy(LowerValues).whole = TRUE
  BY DEF WholePolicy
<1>6. InPlace'
  BY <1>1, <1>2, <1>4 DEF IInv, InPlace, Place, Searching
<1>7. PolicyInPlace'
  BY <1>1, <1>2, <1>4, <1>5 DEF PolicyInPlace
<1>8. PolicyIsFinal'
  BY <1>1, <1>4, ValuesStay DEF PolicyIsFinal
<1>9. Final'
  BY <1>1, <1>2, <1>8 DEF Final
<1> QED
  BY <1>6, <1>7, <1>9 DEF IInv

LEMMA FinishLoggingIInv == IInv /\ FinishLogging => IInv'
<1> SUFFICES ASSUME IInv, FinishLogging PROVE IInv'
  OBVIOUS
<1>1. /\ UNCHANGED <<problem, settings, elapsed, done, ev, evaluated, written, bp>>
      /\ pc = "finishLogging" /\ pc' \in {"dead", "exit"}
  BY DEF FinishLogging, Quiet, searchVars, evaluatorVars
<1>2. settings.command \in {"solve", "benchmark"}
  BY <1>1, Commands DEF IInv, InPlace, Place, Searching
<1>3. Fields \subseteq DOMAIN files
  BY DEF IInv, InPlace
<1>4. /\ DOMAIN files' = DOMAIN files
      /\ files'.policy = files.policy /\ files'.bak = files.bak
  <2>1. PICK x, y, z :
          \/ files' = [files EXCEPT !.replayed = x]
          \/ files' = [files EXCEPT !.log = x, !.values = y, !.replayed = z]
          \/ files' = files
    BY DEF FinishLogging
  <2> QED
    BY <1>3, <2>1 DEF Fields
<1>5. InPlace'
  BY <1>1, <1>2, <1>4 DEF IInv, InPlace, Place
<1>6. PolicyInPlace'
  BY <1>1, <1>2, <1>4 DEF IInv, PolicyInPlace
<1>7. Final'
  BY <1>1, <1>2, <1>4, ValuesStay DEF IInv, Final, PolicyIsFinal, EvaluationIsFinal
<1> QED
  BY <1>5, <1>6, <1>7 DEF IInv

-----------------------------------------------------------------------------
\* The loop of the benchmark.  A call of the solver that ends the run is
\* followed by an epoch, so a loop about to end is of the bounds as they are.
LEMMA BenchmarkStepIInv ==
  ASSUME IInv, \/ \E ticks \in 1 .. 2 : BenchmarkReturned(ticks)
               \/ BenchmarkLoop
  PROVE  IInv'
<1>1. /\ UNCHANGED <<problem, settings, files, ev, evaluated, written, bp>>
      /\ settings.command = "benchmark"
  BY DEF BenchmarkReturned, BenchmarkLoop, Quiet, searchVars, evaluatorVars, commandVars
<1>2. CASE \E ticks \in 1 .. 2 : BenchmarkReturned(ticks)
  <2>1. /\ pc = "planned"
        /\ pc' \in {"mv", "evaluate", "loop"}
        /\ pc' = "evaluate" => ~settings.policyOutputFile
        /\ pc' = "loop" => ~EpochDue(elapsed', done')
    BY <1>2 DEF BenchmarkReturned
  <2>2. pc' = "loop" => ~(done \/ TimedOut)'
    BY <1>1, <2>1 DEF EpochDue, TimedOut
  <2>3. InPlace'
    BY <1>1, <2>1 DEF IInv, InPlace, Place, Searching
  <2>4. PolicyInPlace'
    BY <1>1, <2>1 DEF IInv, PolicyInPlace
  <2>5. Final'
    BY <1>1, <2>1, <2>2 DEF Final, PolicyIsFinal
  <2> QED
    BY <2>3, <2>4, <2>5 DEF IInv
<1>3. CASE BenchmarkLoop
  <2>1. /\ pc = "loop" /\ UNCHANGED <<elapsed, done>>
        /\ pc' = IF done \/ TimedOut THEN "finishLogging" ELSE "planFixedTime"
    BY <1>3 DEF BenchmarkLoop, searchVars, commandVars
  <2>2. InPlace'
    BY <1>1, <2>1 DEF IInv, InPlace, Place, Searching
  <2>3. PolicyInPlace'
    BY <1>1, <2>1 DEF IInv, PolicyInPlace
  <2>4. Final'
    BY <1>1, <2>1, ValuesStay DEF IInv, Final, PolicyIsFinal, EvaluationIsFinal
  <2> QED
    BY <2>2, <2>3, <2>4 DEF IInv
<1> QED
  BY <1>2, <1>3

LEMMA Backup_IInv == IInv /\ Backup_ => IInv'
<1> SUFFICES ASSUME IInv, Backup_ PROVE IInv'
  OBVIOUS
<1>1. /\ UNCHANGED <<problem, settings, elapsed, done, ev, evaluated, written, bp>>
      /\ pc = "mv" /\ pc' = "write"
      /\ files' = IF files.policy.there
                  THEN [files EXCEPT !.bak = files.policy, !.policy = NoFile]
                  ELSE files
  BY DEF Backup_, MoveToBackup, Goto, Quiet, searchVars, evaluatorVars
<1>2. settings.command = "benchmark"
  BY <1>1, Commands DEF IInv, InPlace, Place, Searching
<1>3. Fields \subseteq DOMAIN files
  BY DEF IInv, InPlace
<1>4. /\ DOMAIN files' = DOMAIN files
      /\ files.policy.there => files'.policy = NoFile /\ files'.bak = files.policy
      /\ ~files.policy.there => files' = files
  BY <1>1, <1>3 DEF Fields
<1>5. NoFile.whole = FALSE
  BY DEF NoFile
<1>6. InPlace'
  BY <1>1, <1>2, <1>4 DEF IInv, InPlace, Place
<1>7. PolicyInPlace'
  BY <1>1, <1>2, <1>4, <1>5 DEF IInv, PolicyInPlace
<1>8. Final'
  BY <1>1, <1>2 DEF Final
<1> QED
  BY <1>6, <1>7, <1>8 DEF IInv

LEMMA RemoveBackupIInv == IInv /\ RemoveBackup => IInv'
<1> SUFFICES ASSUME IInv, RemoveBackup PROVE IInv'
  OBVIOUS
<1>1. /\ UNCHANGED <<problem, settings, elapsed, done, ev, evaluated, written, bp>>
      /\ pc = "rm" /\ pc' = "evaluate"
      /\ files' = [files EXCEPT !.bak = NoFile]
  BY DEF RemoveBackup, Goto, Quiet, searchVars, evaluatorVars
<1>2. settings.command = "benchmark"
  BY <1>1, Commands DEF IInv, InPlace, Place, Searching
<1>3. Fields \subseteq DOMAIN files
  BY DEF IInv, InPlace
<1>4. DOMAIN files' = DOMAIN files /\ files'.policy = files.policy
  BY <1>1, <1>3 DEF Fields
<1>5. InPlace'
  BY <1>1, <1>2, <1>4 DEF IInv, InPlace, Place
<1>6. PolicyInPlace'
  BY <1>1, <1>2, <1>4 DEF IInv, PolicyInPlace
<1>7. Final'
  BY <1>1, <1>2, <1>4, ValuesStay DEF IInv, Final, PolicyIsFinal
<1> QED
  BY <1>5, <1>6, <1>7 DEF IInv

-----------------------------------------------------------------------------
\* An evaluation is of the policy it was started with, however it goes.
LEMMA EvaluationKeepsPolicy ==
  ASSUME EvaluatorStep, "policy" \in DOMAIN ev
  PROVE  "policy" \in DOMAIN ev' /\ ev'.policy = ev.policy
<1>1. CASE StartBatch
  BY <1>1 DEF StartBatch
<1>2. CASE \E a \in Action, o \in Outcome : Step(a, o)
  <2>1. PICK a \in Action, o \in Outcome : Step(a, o)
    BY <1>2
  <2> DEFINE cache == GetQ(ev.cache, ev.model, ev.simState, a)
             u == ev.userInt @@ (ev.simState :> a)
             n == (<<ev.simState, a, o>> :> Count(ev.count, ev.simState, a, o) + 1)
                    @@ ev.count
             t == Append(Front(ev.trials),
                         Append(Last(ev.trials), [cn |-> ev.simState, a |-> a, o |-> o]))
             s == cache.Q[<<ev.simState, a>>][o]
             x == Advance(cache, a, o)
  <2>2. ev' = [ev EXCEPT !.userInt = u, !.cache = cache, !.count = n,
                         !.trials = t, !.simState = s, !.state = x]
    BY <2>1, Zenon DEF Step
  <2> HIDE DEF cache, u, n, t, s, x
  <2> QED
    BY <2>2
<1>3. CASE EndOfTrial
  <2>1. PICK t, x :
          \/ ev' = ev
          \/ ev' = [ev EXCEPT !.trials = t, !.simState = 1, !.state = x]
    BY <1>3 DEF EndOfTrial
  <2> QED
    BY <2>1
<1>4. CASE Collate
  <2>1. PICK r : ev' = [ev EXCEPT !.rewards = r]
    BY <1>4 DEF Collate
  <2> QED
    BY <2>1
<1> QED
  BY <1>1, <1>2, <1>3, <1>4 DEF EvaluatorStep

LEMMA EvaluateBoundsIInv == IInv /\ EvaluateBounds => IInv'
<1> SUFFICES ASSUME IInv, EvaluateBounds PROVE IInv'
  OBVIOUS
<1>1. /\ UNCHANGED <<problem, settings, files, elapsed, done, evaluated, written, bp>>
      /\ pc = "evaluate" /\ pc' = "evaluating"
      /\ ev' = NewEvaluation(problem, problem, PolicyOf(problem, LowerValues),
                             TRUE, settings.useEvaluationCache)
  BY DEF EvaluateBounds, StartEvaluation, Goto, Quiet, searchVars, commandVars
<1>2. settings.command = "benchmark"
  BY <1>1, Commands DEF IInv, InPlace, Place, Searching
<1>3. "policy" \in DOMAIN ev' /\ ev'.policy = PolicyOf(problem, LowerValues)
  BY <1>1 DEF NewEvaluation
<1>4. PolicyOf(problem, LowerValues)' = PolicyOf(problem, LowerValues)
  BY <1>1, ValuesStay DEF PolicyOf
<1>5. InPlace'
  <2>1. pc' \in Place[settings'.command] /\ pc' # "main"
    BY <1>1, <1>2 DEF Place
  <2> QED
    BY <1>1, <1>3, <2>1 DEF IInv, InPlace
<1>6. PolicyInPlace'
  BY <1>1, <1>2 DEF IInv, PolicyInPlace
<1>7. Final'
  BY <1>1, <1>2, <1>3, <1>4, ValuesStay DEF IInv, Final, PolicyIsFinal
<1> QED
  BY <1>5, <1>6, <1>7 DEF IInv

LEMMA EvaluateFileIInv ==
  ASSUME IInv, \E simulator \in Simulators(problem) : EvaluateFile(simulator)
  PROVE  IInv'
<1>1. /\ UNCHANGED <<problem, settings, files, elapsed, done, evaluated, written, bp>>
      /\ pc = "read" /\ pc' \in {"evaluating", "dead"}
  BY DEF EvaluateFile, Quiet, searchVars, commandVars
<1>2. settings.command = "evaluate"
  BY <1>1, Commands DEF IInv, InPlace, Place, Searching
<1>3. "policy" \in DOMAIN ev'
  BY DEF EvaluateFile, StartEvaluation, NewEvaluation, evaluatorVars, IInv, InPlace
<1>4. InPlace'
  BY <1>1, <1>2, <1>3 DEF IInv, InPlace, Place
<1>5. PolicyInPlace'
  BY <1>1, <1>2 DEF IInv, PolicyInPlace
<1>6. Final'
  BY <1>1, <1>2 DEF Final
<1> QED
  BY <1>4, <1>5, <1>6 DEF IInv

LEMMA EvaluateIInv == IInv /\ Evaluate => IInv'
<1> SUFFICES ASSUME IInv, Evaluate PROVE IInv'
  OBVIOUS
<1>1. UNCHANGED <<problem, settings, files, elapsed, done, evaluated, written, bp, pc>>
  BY DEF Evaluate, Quiet, searchVars, commandVars
<1>2. pc = "evaluating"
  BY DEF Evaluate
<1>3. "policy" \in DOMAIN ev' /\ ev'.policy = ev.policy
  BY EvaluationKeepsPolicy DEF IInv, InPlace, Evaluate
<1>4. PolicyOf(problem, LowerValues)' = PolicyOf(problem, LowerValues)
  BY <1>1, ValuesStay DEF PolicyOf
<1>5. InPlace'
  BY <1>1, <1>3 DEF IInv, InPlace
<1>6. PolicyInPlace'
  BY <1>1 DEF IInv, PolicyInPlace
<1>7. Final'
  BY <1>1, <1>2, <1>3, <1>4, ValuesStay DEF IInv, Final, PolicyIsFinal
<1> QED
  BY <1>5, <1>6, <1>7 DEF IInv

LEMMA EndEvaluationIInv == IInv /\ EndEvaluation => IInv'
<1> SUFFICES ASSUME IInv, EndEvaluation PROVE IInv'
  OBVIOUS
<1>1. /\ UNCHANGED <<problem, settings, files, elapsed, done, written, bp>>
      /\ pc = "evaluating"
      /\ pc' = IF settings.command = "benchmark" THEN "loop" ELSE "exit"
      /\ evaluated' = ev.policy
      /\ "policy" \in DOMAIN ev'
  BY DEF EndEvaluation, NewEvaluation, Quiet, searchVars
<1>2. settings.command \in {"benchmark", "evaluate"}
  BY <1>1, Commands DEF IInv, InPlace, Place, Searching
<1>3. PolicyOf(problem, LowerValues)' = PolicyOf(problem, LowerValues)
  BY <1>1, ValuesStay DEF PolicyOf
<1>4. InPlace'
  BY <1>1, <1>2 DEF IInv, InPlace, Place
<1>5. PolicyInPlace'
  BY <1>1, <1>2 DEF IInv, PolicyInPlace
<1>6. settings.command = "benchmark" => PolicyIsFinal' /\ EvaluationIsFinal'
  BY <1>1, <1>3, ValuesStay DEF IInv, Final, PolicyIsFinal, EvaluationIsFinal
<1>7. Final'
  BY <1>1, <1>2, <1>6 DEF Final
<1> QED
  BY <1>4, <1>5, <1>7 DEF IInv

\* Another command starts as the first did, but for the files.
LEMMA NextCommandIInv == IInv /\ NextCommand => IInv'
<1> SUFFICES ASSUME IInv, NextCommand PROVE IInv'
  OBVIOUS
<1>1. /\ files' = files /\ pc' = "main"
      /\ elapsed' = 0 /\ done' = FALSE /\ written' = FALSE
      /\ settings' \in Follow(settings, pc = "dead")
      /\ "policy" \in DOMAIN ev'
  BY DEF NextCommand, ResetSearch, NewEvaluation
<1>2. settings' \in Settings
  <2>1. PICK cutOff \in BOOLEAN : cutOff = (pc = "dead")
    OBVIOUS
  <2> QED
    BY <1>1, <2>1, SettingsAssumption DEF IInv, InPlace
<1>3. settings'.command \in {"solve", "benchmark", "evaluate"}
  BY <1>2, Commands
<1>4. pc' \in Place[settings'.command]
  BY <1>1, <1>3 DEF Place
<1>5. InPlace'
  BY <1>1, <1>2, <1>4 DEF IInv, InPlace
<1>6. PolicyInPlace'
  BY <1>1, <1>3 DEF IInv, PolicyInPlace
<1>7. Final'
  BY <1>1 DEF Final
<1> QED
  BY <1>5, <1>6, <1>7 DEF IInv

-----------------------------------------------------------------------------
LEMMA NextIInv == IInv /\ [Next]_vars => IInv'
<1> SUFFICES ASSUME IInv, [Next]_vars PROVE IInv'
  OBVIOUS
<1>1. CASE UNCHANGED vars
  <2>1. UNCHANGED <<problem, settings, files, elapsed, done, ev, evaluated, written, bp, pc>>
    BY <1>1 DEF vars, searchVars, evaluatorVars, commandVars
  <2>2. InPlace' /\ PolicyInPlace'
    BY <2>1 DEF IInv, InPlace, PolicyInPlace
  <2>3. PolicyOf(problem, LowerValues)' = PolicyOf(problem, LowerValues)
    BY <2>1, ValuesStay DEF PolicyOf
  <2>4. Final'
    BY <2>1, <2>3, ValuesStay DEF IInv, Final, PolicyIsFinal, EvaluationIsFinal, TimedOut
  <2> QED
    BY <2>2, <2>4 DEF IInv
<1>2. CASE Next
  BY <1>2, MainIInv, SolveStepIInv, SearchIInv, CutOffIInv, OpenPolicyIInv,
     WritePolicyIInv, FinishLoggingIInv, BenchmarkStepIInv, Backup_IInv,
     RemoveBackupIInv, EvaluateBoundsIInv, EvaluateFileIInv, EvaluateIInv,
     EndEvaluationIInv, NextCommandIInv DEF Next, Run
<1> QED
  BY <1>1, <1>2

LEMMA Invariance == Spec => []IInv
<1> QED
  BY InitIInv, NextIInv, PTL DEF Spec

\* A benchmark that has written a policy never loses it: the old one is moved
\* to a backup, which is removed only once the new one is whole, so wherever
\* the user interrupts it there is a whole policy.
THEOREM PolicyIsKept == Spec => []PolicyKept
<1>1. IInv => PolicyKept
  BY Commands DEF IInv, InPlace, PolicyInPlace, PolicyKept
<1> QED
  BY <1>1, Invariance, PTL

\* What a command reports in the end is of the bounds it ended with, also when
\* the solver finishes between two epochs, or the time runs out.
THEOREM ReportsAreFinal == Spec => []ReportsFinal
<1>1. IInv => ReportsFinal
  BY Commands DEF IInv, InPlace, Final, ReportsFinal, PolicyIsFinal, EvaluationIsFinal
<1> QED
  BY <1>1, Invariance, PTL
-----------------------------------------------------------------------------
\* The log of a run and its replay.  First the files: an index lists every
\* state once, and what is written is what is read.

\* The states of a list that occurred before.
Known(h, n) == \E i \in 1 .. n - 1 : h[i] = h[n]

\* What a list of states becomes entry by entry, as in Index.
Gathered(h, n, f) ==
  /\ f[0] = <<>>
  /\ \A i \in 1 .. n : f[i] = IF Known(h, i) THEN f[i-1] ELSE Append(f[i-1], h[i])

LEMMA GatheredExists ==
  ASSUME NEW S, NEW h \in Seq(S)
  PROVE  \E f \in [0 .. Len(h) -> Seq(S)] : Gathered(h, Len(h), f)
<1> DEFINE OK(n) == \E f \in [0 .. n -> Seq(S)] : Gathered(h, n, f)
           bad   == {n \in 0 .. Len(h) : ~OK(n)}
<1>1. SUFFICES ASSUME bad # {} PROVE FALSE
  <2>1. Len(h) \in 0 .. Len(h)
    OBVIOUS
  <2> QED
    BY <2>1
<1>2. PICK m \in bad : \A k \in bad : m <= k
  <2>1. bad \in SUBSET Nat
    OBVIOUS
  <2> HIDE DEF bad
  <2> QED
    BY <1>1, <2>1, LeastNatural
<1>3. m \in 0 .. Len(h) /\ ~OK(m)
  OBVIOUS
<1>4. OK(0)
  <2> DEFINE f == [i \in 0 .. 0 |-> <<>>]
  <2>1. f \in [0 .. 0 -> Seq(S)] /\ f[0] = <<>>
    OBVIOUS
  <2>2. \A i \in 1 .. 0 : FALSE
    OBVIOUS
  <2> HIDE DEF f
  <2>3. Gathered(h, 0, f)
    BY <2>1, <2>2 DEF Gathered
  <2> QED
    BY <2>1, <2>3
<1>5. m - 1 \in 0 .. Len(h) /\ m \in 1 .. Len(h)
  <2>1. m # 0
    BY <1>3, <1>4
  <2> QED
    BY <1>3, <2>1
<1>6. OK(m - 1)
  <2>1. m - 1 \notin bad
    <3> HIDE DEF bad
    <3> QED
      BY <1>2, <1>5
  <2> QED
    BY <1>5, <2>1
<1>7. PICK f \in [0 .. m - 1 -> Seq(S)] : Gathered(h, m - 1, f)
  BY <1>6
<1> DEFINE g == [i \in 0 .. m |->
                   IF i < m THEN f[i]
                   ELSE IF Known(h, m) THEN f[m-1] ELSE Append(f[m-1], h[m])]
<1>8. f[m-1] \in Seq(S) /\ h[m] \in S
  BY <1>5
<1>9. Append(f[m-1], h[m]) \in Seq(S)
  BY <1>8
<1>10. g \in [0 .. m -> Seq(S)]
  <2>1. \A i \in 0 .. m : i < m => f[i] \in Seq(S)
    BY <1>5
  <2> QED
    BY <1>8, <1>9, <2>1
<1>11. /\ \A i \in 0 .. m - 1 : g[i] = f[i]
       /\ g[m] = IF Known(h, m) THEN f[m-1] ELSE Append(f[m-1], h[m])
  BY <1>5
<1>12. Gathered(h, m, g)
  <2> HIDE DEF g
  <2>1. g[0] = <<>>
    BY <1>5, <1>7, <1>11 DEF Gathered
  <2>2. ASSUME NEW i \in 1 .. m
        PROVE  g[i] = IF Known(h, i) THEN g[i-1] ELSE Append(g[i-1], h[i])
    <3>1. CASE i = m
      <4>1. g[m-1] = f[m-1]
        BY <1>5, <1>11
      <4> QED
        BY <1>11, <3>1, <4>1
    <3>2. CASE i # m
      <4>1. i \in 1 .. m - 1 /\ i \in 0 .. m - 1 /\ i - 1 \in 0 .. m - 1
        BY <1>5, <3>2
      <4>2. g[i] = f[i] /\ g[i-1] = f[i-1]
        BY <1>11, <4>1
      <4>3. f[i] = IF Known(h, i) THEN f[i-1] ELSE Append(f[i-1], h[i])
        BY <1>7, <4>1 DEF Gathered
      <4> QED
        BY <4>2, <4>3
    <3> QED
      BY <3>1, <3>2
  <2> QED
    BY <2>1, <2>2 DEF Gathered
<1>13. OK(m)
  <2> HIDE DEF g
  <2> QED
    BY <1>10, <1>12
<1> QED
  BY <1>3, <1>13

\* An index lists the states of a run, each of them once.
LEMMA IndexProperties ==
  ASSUME NEW S, NEW h \in Seq(S)
  PROVE  /\ Index(h) \in Seq(S)
         /\ IsInjective(Index(h))
         /\ \A i \in DOMAIN h : \E k \in DOMAIN Index(h) : Index(h)[k] = h[i]
<1> DEFINE seen == CHOOSE f : f = [n \in 0 .. Len(h) |->
                     IF n = 0 THEN <<>>
                     ELSE IF \E i \in 1 .. n - 1 : h[i] = h[n] THEN f[n-1]
                     ELSE Append(f[n-1], h[n])]
<1>1. Index(h) = seen[Len(h)]
  BY DEF Index
<1>2. PICK f \in [0 .. Len(h) -> Seq(S)] : Gathered(h, Len(h), f)
  BY GatheredExists
<1>3. f = [n \in 0 .. Len(h) |->
            IF n = 0 THEN <<>>
            ELSE IF \E i \in 1 .. n - 1 : h[i] = h[n] THEN f[n-1]
            ELSE Append(f[n-1], h[n])]
  <2> DEFINE g == [n \in 0 .. Len(h) |->
            IF n = 0 THEN <<>>
            ELSE IF \E i \in 1 .. n - 1 : h[i] = h[n] THEN f[n-1]
            ELSE Append(f[n-1], h[n])]
  <2>1. ASSUME NEW n \in 0 .. Len(h) PROVE f[n] = g[n]
    <3>1. CASE n = 0
      BY <1>2, <3>1 DEF Gathered
    <3>2. CASE n # 0
      <4>1. n \in 1 .. Len(h)
        BY <3>2
      <4> QED
        BY <1>2, <3>2, <4>1 DEF Gathered, Known
    <3> QED
      BY <3>1, <3>2
  <2>2. f = [n \in 0 .. Len(h) |-> f[n]] /\ g = [n \in 0 .. Len(h) |-> g[n]]
    OBVIOUS
  <2> HIDE DEF g
  <2>3. f = g
    BY <2>1, <2>2
  <2> QED
    BY <2>3 DEF g
<1>4. seen = [n \in 0 .. Len(h) |->
                     IF n = 0 THEN <<>>
                     ELSE IF \E i \in 1 .. n - 1 : h[i] = h[n] THEN seen[n-1]
                     ELSE Append(seen[n-1], h[n])]
  BY <1>3, Zenon
<1> HIDE DEF seen
<1>5. /\ DOMAIN seen = 0 .. Len(h)
      /\ seen[0] = <<>>
      /\ \A n \in 1 .. Len(h) :
           seen[n] = IF Known(h, n) THEN seen[n-1] ELSE Append(seen[n-1], h[n])
  <2>1. \A n \in 0 .. Len(h) :
          seen[n] = IF n = 0 THEN <<>>
                    ELSE IF \E i \in 1 .. n - 1 : h[i] = h[n] THEN seen[n-1]
                    ELSE Append(seen[n-1], h[n])
    BY <1>4, Zenon
  <2>2. \A n \in 1 .. Len(h) : n \in 0 .. Len(h) /\ n # 0
    OBVIOUS
  <2>3. 0 \in 0 .. Len(h)
    OBVIOUS
  <2>4. DOMAIN seen = 0 .. Len(h)
    BY <1>4, Zenon
  <2> QED
    BY <2>1, <2>2, <2>3, <2>4, Zenon DEF Known
<1> DEFINE Good(n) == /\ seen[n] \in Seq(S)
                      /\ IsInjective(seen[n])
                      /\ \A i \in 1 .. n : \E k \in DOMAIN seen[n] : seen[n][k] = h[i]
                      /\ \A k \in DOMAIN seen[n] : \E i \in 1 .. n : seen[n][k] = h[i]
           bad == {n \in 0 .. Len(h) : ~Good(n)}
<1>6. bad = {}
  <2> SUFFICES ASSUME bad # {} PROVE FALSE
    OBVIOUS
  <2>1. PICK m \in bad : \A k \in bad : m <= k
    <3>1. bad \in SUBSET Nat
      OBVIOUS
    <3> HIDE DEF bad
    <3> QED
      BY <3>1, LeastNatural
  <2>2. m \in 0 .. Len(h) /\ ~Good(m)
    OBVIOUS
  <2>3. Good(0)
    <3>1. <<>> \in Seq(S) /\ DOMAIN <<>> = {} /\ 1 .. 0 = {}
      OBVIOUS
    <3> QED
      BY <1>5, <3>1, EmptyStack
  <2>4. m \in 1 .. Len(h) /\ m - 1 \in 0 .. Len(h) /\ m - 1 \notin bad
    <3>1. m # 0
      BY <2>2, <2>3
    <3>2. m \in 1 .. Len(h) /\ m - 1 \in 0 .. Len(h)
      BY <2>2, <3>1
    <3> HIDE DEF bad
    <3> QED
      BY <2>1, <3>2
  <2>5. Good(m - 1)
    BY <2>4
  <2> HIDE DEF bad
  <2> DEFINE before == seen[m-1]
             new    == seen[m]
  <2>6. /\ before \in Seq(S) /\ IsInjective(before)
        /\ \A i \in 1 .. m - 1 : \E k \in DOMAIN before : before[k] = h[i]
        /\ \A k \in DOMAIN before : \E i \in 1 .. m - 1 : before[k] = h[i]
    BY <2>5
  <2>7. new = IF Known(h, m) THEN before ELSE Append(before, h[m])
    BY <1>5, <2>4
  <2> HIDE DEF before, new
  <2>8. CASE Known(h, m)
    <3>1. new = before
      BY <2>7, <2>8
    <3>2. PICK j \in 1 .. m - 1 : h[j] = h[m]
      BY <2>8 DEF Known
    <3>3. \A i \in 1 .. m : \E k \in DOMAIN new : new[k] = h[i]
      <4> TAKE i \in 1 .. m
      <4>1. CASE i = m
        BY <2>6, <3>1, <3>2, <4>1
      <4>2. CASE i # m
        <5>1. i \in 1 .. m - 1
          BY <2>4, <4>2
        <5> QED
          BY <2>6, <3>1, <5>1
      <4> QED
        BY <4>1, <4>2
    <3>4. \A k \in DOMAIN new : \E i \in 1 .. m : new[k] = h[i]
      <4>1. 1 .. m - 1 \subseteq 1 .. m
        BY <2>4
      <4> QED
        BY <2>6, <3>1, <4>1
    <3>5. Good(m)
      BY <2>6, <3>1, <3>3, <3>4 DEF new
    <3> QED
      BY <2>2, <3>5
  <2>9. CASE ~Known(h, m)
    <3>1. new = Append(before, h[m])
      BY <2>7, <2>9
    <3>2. h[m] \in S
      BY <2>4
    <3>3. /\ new \in Seq(S) /\ Len(new) = Len(before) + 1
          /\ DOMAIN new = 1 .. Len(before) + 1 /\ DOMAIN before = 1 .. Len(before)
          /\ new[Len(before) + 1] = h[m]
          /\ \A k \in 1 .. Len(before) : new[k] = before[k]
      BY <2>6, <3>1, <3>2
    <3>4. Len(before) \in Nat
      BY <2>6
    <3>5. \A k \in 1 .. Len(before) : before[k] # h[m]
      <4> SUFFICES ASSUME NEW k \in 1 .. Len(before), before[k] = h[m] PROVE FALSE
        OBVIOUS
      <4>1. PICK i \in 1 .. m - 1 : before[k] = h[i]
        BY <2>6, <3>3
      <4> QED
        BY <2>9, <4>1 DEF Known
    <3>6. IsInjective(new)
      <4> SUFFICES ASSUME NEW k \in DOMAIN new, NEW l \in DOMAIN new, new[k] = new[l]
                   PROVE  k = l
        BY DEF IsInjective
      <4>1. CASE k = Len(before) + 1 /\ l # Len(before) + 1
        <5>1. l \in 1 .. Len(before)
          BY <3>3, <3>4, <4>1
        <5> QED
          BY <3>3, <3>5, <4>1, <5>1
      <4>2. CASE l = Len(before) + 1 /\ k # Len(before) + 1
        <5>1. k \in 1 .. Len(before)
          BY <3>3, <3>4, <4>2
        <5> QED
          BY <3>3, <3>5, <4>2, <5>1
      <4>3. CASE k # Len(before) + 1 /\ l # Len(before) + 1
        <5>1. k \in 1 .. Len(before) /\ l \in 1 .. Len(before)
          BY <3>3, <3>4, <4>3
        <5>2. before[k] = before[l]
          BY <3>3, <5>1
        <5> QED
          BY <2>6, <3>3, <5>1, <5>2 DEF IsInjective
      <4> QED
        BY <4>1, <4>2, <4>3
    <3>7. \A i \in 1 .. m : \E k \in DOMAIN new : new[k] = h[i]
      <4> TAKE i \in 1 .. m
      <4>1. CASE i = m
        <5>1. Len(before) + 1 \in DOMAIN new
          BY <3>3, <3>4
        <5> QED
          BY <3>3, <4>1, <5>1
      <4>2. CASE i # m
        <5>1. i \in 1 .. m - 1
          BY <2>4, <4>2
        <5>2. PICK k \in DOMAIN before : before[k] = h[i]
          BY <2>6, <5>1
        <5>3. k \in DOMAIN new /\ new[k] = before[k]
          BY <3>3, <3>4, <5>2
        <5> QED
          BY <5>2, <5>3
      <4> QED
        BY <4>1, <4>2
    <3>8. \A k \in DOMAIN new : \E i \in 1 .. m : new[k] = h[i]
      <4> TAKE k \in DOMAIN new
      <4>1. CASE k = Len(before) + 1
        <5>1. m \in 1 .. m
          BY <2>4
        <5> QED
          BY <3>3, <4>1, <5>1
      <4>2. CASE k # Len(before) + 1
        <5>1. k \in 1 .. Len(before)
          BY <3>3, <3>4, <4>2
        <5>2. PICK i \in 1 .. m - 1 : before[k] = h[i]
          BY <2>6, <3>3, <5>1
        <5>3. i \in 1 .. m
          BY <2>4
        <5> QED
          BY <3>3, <5>1, <5>2, <5>3
      <4> QED
        BY <4>1, <4>2
    <3>9. Good(m)
      BY <3>3, <3>6, <3>7, <3>8 DEF new
    <3> QED
      BY <2>2, <3>9
  <2> QED
    BY <2>8, <2>9
<1>7. Len(h) \in 0 .. Len(h) /\ DOMAIN h = 1 .. Len(h)
  OBVIOUS
<1>8. Good(Len(h))
  BY <1>6, <1>7
<1> QED
  BY <1>1, <1>7, <1>8

\* Every state of a list has the id under which the index has it.
LEMMA StateIdProperties ==
  ASSUME NEW S, NEW ix \in Seq(S), NEW k \in DOMAIN ix
  PROVE  /\ StateId(ix, ix[k]) + 1 \in DOMAIN ix
         /\ ix[StateId(ix, ix[k]) + 1] = ix[k]
<1> DEFINE i == CHOOSE i \in DOMAIN ix : ix[i] = ix[k]
<1>1. i \in DOMAIN ix /\ ix[i] = ix[k]
  BY Zenon
<1> HIDE DEF i
<1>2. StateId(ix, ix[k]) = i - 1
  BY DEF StateId, i
<1>3. i \in Int
  BY <1>1
<1>4. (i - 1) + 1 = i
  BY <1>3
<1> QED
  BY <1>1, <1>2, <1>4

\* What reading an index has gathered after n of its lines: the states before
\* the current one are in the index, the current one once its entry is read.
FirstOf(ix, k) == [j \in 1 .. k |-> ix[j]]

ReadSoFar(ix, n) ==
  IF n <= 1 THEN [index |-> <<>>, accum |-> <<>>]
  ELSE IF n % 2 = 0 THEN [index |-> FirstOf(ix, n \div 2 - 1), accum |-> <<>>]
  ELSE [index |-> FirstOf(ix, n \div 2 - 1), accum |-> <<ix[n \div 2]>>]

\* A line after the first is the one with a state's number or its entry.
LEMMA Halves ==
  ASSUME NEW n \in Nat, 2 <= n
  PROVE  \E k \in Nat \ {0} : n = 2 * k \/ n = 2 * k + 1
<1>1. n \div 2 \in Nat /\ n \div 2 # 0 /\ n = 2 * (n \div 2) + (n % 2) /\ n % 2 \in {0, 1}
  OBVIOUS
<1> QED
  BY <1>1

LEMMA HalfOf ==
  ASSUME NEW k \in Nat
  PROVE  /\ (2 * k) % 2 = 0 /\ (2 * k) \div 2 = k
         /\ (2 * k + 1) % 2 = 1 /\ (2 * k + 1) \div 2 = k
OBVIOUS

LEMMA ReadSoFarAt ==
  ASSUME NEW ix, NEW k \in Nat \ {0}
  PROVE  /\ ReadSoFar(ix, 2 * k) = [index |-> FirstOf(ix, k - 1), accum |-> <<>>]
         /\ ReadSoFar(ix, 2 * k + 1) = [index |-> FirstOf(ix, k - 1), accum |-> <<ix[k]>>]
<1>1. ~(2 * k <= 1) /\ ~(2 * k + 1 <= 1)
  OBVIOUS
<1>2. /\ (2 * k) % 2 = 0 /\ (2 * k) \div 2 = k
      /\ (2 * k + 1) % 2 = 1 /\ (2 * k + 1) \div 2 = k
  BY HalfOf
<1>3. (2 * k + 1) % 2 # 0
  BY <1>2
<1>4. ReadSoFar(ix, 2 * k) = [index |-> FirstOf(ix, k - 1), accum |-> <<>>]
  BY <1>1, <1>2, Zenon DEF ReadSoFar
<1>5. ReadSoFar(ix, 2 * k + 1) = [index |-> FirstOf(ix, k - 1), accum |-> <<ix[k]>>]
  BY <1>1, <1>2, <1>3, Zenon DEF ReadSoFar
<1> QED
  BY <1>4, <1>5

LEMMA FirstOfProperties ==
  ASSUME NEW S, NEW ix \in Seq(S), IsInjective(ix), NEW k \in 1 .. Len(ix)
  PROVE  /\ FirstOf(ix, 0) = <<>>
         /\ FirstOf(ix, k - 1) \in Seq(S)
         /\ WithState(FirstOf(ix, k - 1), ix[k]) = FirstOf(ix, k)
<1>1. /\ ix[k] \in S /\ k \in Nat \ {0} /\ k <= Len(ix) /\ Len(ix) \in Nat
      /\ DOMAIN ix = 1 .. Len(ix)
  OBVIOUS
<1> DEFINE f == FirstOf(ix, k - 1)
           g == FirstOf(ix, k)
<1>2. /\ f \in Seq(S) /\ Len(f) = k - 1 /\ DOMAIN f = 1 .. k - 1
      /\ \A j \in 1 .. k - 1 : f[j] = ix[j]
  <2>1. \A j \in 1 .. k - 1 : ix[j] \in S
    BY <1>1
  <2>2. k - 1 \in Nat
    BY <1>1
  <2>3. f = [j \in 1 .. k - 1 |-> ix[j]]
    BY DEF FirstOf
  <2> HIDE DEF f
  <2> QED
    BY <2>1, <2>2, <2>3
<1>3. /\ g \in Seq(S) /\ Len(g) = k /\ DOMAIN g = 1 .. k
      /\ \A j \in 1 .. k : g[j] = ix[j]
  <2>1. \A j \in 1 .. k : ix[j] \in S
    BY <1>1
  <2>2. k \in Nat
    BY <1>1
  <2>3. g = [j \in 1 .. k |-> ix[j]]
    BY DEF FirstOf
  <2> HIDE DEF g
  <2> QED
    BY <2>1, <2>2, <2>3
<1>4. FirstOf(ix, 0) = <<>>
  BY DEF FirstOf
<1> HIDE DEF f, g
<1>5. ix[k] \notin ToSet(f)
  <2> SUFFICES ASSUME NEW j \in DOMAIN f, f[j] = ix[k] PROVE FALSE
    BY DEF ToSet
  <2>1. j \in 1 .. k - 1 /\ ix[j] = ix[k]
    BY <1>2
  <2>2. j \in DOMAIN ix /\ k \in DOMAIN ix /\ j # k
    BY <1>1, <2>1
  <2> QED
    BY <2>1, <2>2 DEF IsInjective
<1>6. Append(f, ix[k]) = g
  <2> DEFINE a == Append(f, ix[k])
  <2>1. /\ a \in Seq(S) /\ Len(a) = k /\ a[k] = ix[k]
        /\ \A j \in 1 .. k - 1 : a[j] = f[j]
    BY <1>1, <1>2
  <2> HIDE DEF a
  <2>2. \A j \in 1 .. k : a[j] = g[j]
    <3> TAKE j \in 1 .. k
    <3>1. CASE j = k
      BY <1>1, <1>3, <2>1, <3>1
    <3>2. CASE j # k
      <4>1. j \in 1 .. k - 1
        BY <1>1, <3>2
      <4> QED
        BY <1>2, <1>3, <2>1, <4>1
    <3> QED
      BY <3>1, <3>2
  <2>3. a = g
    BY <1>3, <2>1, <2>2
  <2> QED
    BY <2>3 DEF a
<1> QED
  BY <1>2, <1>4, <1>5, <1>6 DEF f, g, WithState

\* An entry that was gathered is folded in.
LEMMA FoldedEntry ==
  ASSUME NEW index, NEW s
  PROVE  Folded([index |-> index, accum |-> <<s>>]) = WithState(index, s)
<1> DEFINE r == [index |-> index, accum |-> <<s>>]
<1>1. r.index = index /\ r.accum = <<s>>
  OBVIOUS
<1>2. <<s>> # <<>> /\ Last(<<s>>) = s
  BY DEF Last
<1> HIDE DEF r
<1>3. Folded(r) = WithState(index, s)
  BY <1>1, <1>2 DEF Folded
<1> QED
  BY <1>3 DEF r

LEMMA ReadIndexStep ==
  ASSUME NEW S, NEW ix \in Seq(S), IsInjective(ix), NEW n \in 1 .. 2 * Len(ix) + 1
  PROVE  ReadSoFar(ix, n) = ReadIndexLine(ReadSoFar(ix, n - 1), WriteIndex(ix)[n])
<1> DEFINE l == WriteIndex(ix)[n]
           r == ReadSoFar(ix, n - 1)
<1>1. l = IF n = 1 THEN Comment
          ELSE IF n % 2 = 0 THEN [kind |-> "state", id |-> n \div 2 - 1]
          ELSE [kind |-> "entry", of |-> ix[n \div 2]]
  BY DEF WriteIndex
<1>2. CASE n = 1
  <2>1. l.kind = "comment"
    BY <1>1, <1>2 DEF Comment
  <2>2. ReadIndexLine(r, l) = r
    BY <2>1 DEF ReadIndexLine
  <2>3. ReadSoFar(ix, n) = r
    BY <1>2 DEF ReadSoFar
  <2> QED
    BY <2>2, <2>3
<1>3. CASE n # 1
  <2>1. n \in Nat /\ 2 <= n /\ Len(ix) \in Nat /\ n <= 2 * Len(ix) + 1
    BY <1>3
  <2>2. PICK k \in Nat \ {0} : n = 2 * k \/ n = 2 * k + 1
    BY <2>1, Halves
  <2>3. k \in 1 .. Len(ix)
    BY <2>1, <2>2
  <2>4. /\ (2 * k) % 2 = 0 /\ (2 * k + 1) % 2 # 0
        /\ (2 * k) \div 2 = k /\ (2 * k + 1) \div 2 = k
    BY HalfOf
  <2>5. /\ ReadSoFar(ix, 2 * k) = [index |-> FirstOf(ix, k - 1), accum |-> <<>>]
        /\ ReadSoFar(ix, 2 * k + 1) = [index |-> FirstOf(ix, k - 1), accum |-> <<ix[k]>>]
    BY ReadSoFarAt
  <2>6. CASE n = 2 * k
    <3>1. l.kind = "state"
      BY <1>1, <1>3, <2>4, <2>6
    <3>2. ReadIndexLine(r, l) = [index |-> Folded(r), accum |-> <<>>]
      BY <3>1 DEF ReadIndexLine
    <3>3. Folded(r) = FirstOf(ix, k - 1)
      <4>1. CASE k = 1
        <5>1. n - 1 <= 1
          BY <2>6, <4>1
        <5>2. r.accum = <<>> /\ r.index = <<>>
          BY <5>1 DEF ReadSoFar
        <5>3. FirstOf(ix, 0) = <<>> /\ k - 1 = 0
          BY <2>3, <4>1, FirstOfProperties
        <5> QED
          BY <5>2, <5>3 DEF Folded
      <4>2. CASE k # 1
        <5> DEFINE j == k - 1
        <5>1. j \in 1 .. Len(ix) /\ j \in Nat \ {0} /\ n - 1 = 2 * j + 1
          BY <2>3, <2>6, <4>2
        <5> HIDE DEF j
        <5>2. r = ReadSoFar(ix, 2 * j + 1)
          BY <5>1
        <5> HIDE DEF r
        <5>3. r = [index |-> FirstOf(ix, j - 1), accum |-> <<ix[j]>>]
          BY <5>1, <5>2, ReadSoFarAt
        <5>4. WithState(FirstOf(ix, j - 1), ix[j]) = FirstOf(ix, j)
          BY <5>1, FirstOfProperties
        <5>5. Folded(r) = FirstOf(ix, j)
          BY <5>3, <5>4, FoldedEntry
        <5> QED
          BY <5>5 DEF j
      <4> QED
        BY <4>1, <4>2
    <3> QED
      BY <2>5, <2>6, <3>2, <3>3
  <2>7. CASE n = 2 * k + 1
    <3>1. l.kind = "entry" /\ l.of = ix[k]
      BY <1>1, <1>3, <2>4, <2>7
    <3>2. ReadIndexLine(r, l) = [index |-> r.index, accum |-> Append(r.accum, ix[k])]
      BY <3>1 DEF ReadIndexLine
    <3>3. r = ReadSoFar(ix, 2 * k)
      BY <2>2, <2>7
    <3> HIDE DEF l, r
    <3>4. r.index = FirstOf(ix, k - 1) /\ r.accum = <<>>
      BY <2>5, <3>3
    <3>5. Append(<<>>, ix[k]) = <<ix[k]>>
      OBVIOUS
    <3>6. ReadIndexLine(r, l) = [index |-> FirstOf(ix, k - 1), accum |-> <<ix[k]>>]
      BY <3>2, <3>4, <3>5
    <3>7. ReadSoFar(ix, n) = [index |-> FirstOf(ix, k - 1), accum |-> <<ix[k]>>]
      BY <2>5, <2>7
    <3>8. ReadSoFar(ix, n) = ReadIndexLine(r, l)
      BY <3>6, <3>7
    <3> QED
      BY <3>8 DEF l, r
  <2> QED
    BY <2>2, <2>6, <2>7
<1> QED
  BY <1>2, <1>3

\* An index that is written and read again is the same.
LEMMA IndexReadBack ==
  ASSUME NEW S, NEW ix \in Seq(S), IsInjective(ix)
  PROVE  ReadIndex(WriteIndex(ix)) = ix
<1> DEFINE lines == WriteIndex(ix)
           last  == 2 * Len(ix) + 1
           g     == [n \in 0 .. last |-> ReadSoFar(ix, n)]
           after == CHOOSE f : f = [n \in 0 .. last |->
                      IF n = 0 THEN [index |-> <<>>, accum |-> <<>>]
                               ELSE ReadIndexLine(f[n-1], lines[n])]
<1>1. Len(ix) \in Nat /\ last \in Nat \ {0} /\ DOMAIN ix = 1 .. Len(ix)
  OBVIOUS
<1>2. Len(lines) = last
  <2>1. DOMAIN lines = 1 .. last
    BY DEF WriteIndex
  <2>2. lines = [n \in 1 .. last |-> lines[n]]
    BY <2>1 DEF WriteIndex
  <2> HIDE DEF lines, last
  <2> QED
    BY <1>1, <2>1, <2>2
<1>3. ReadIndex(lines) = Folded(after[last])
  <2> HIDE DEF lines, last
  <2>1. ReadIndex(lines)
          = LET a == CHOOSE f : f = [n \in 0 .. Len(lines) |->
                       IF n = 0 THEN [index |-> <<>>, accum |-> <<>>]
                                ELSE ReadIndexLine(f[n-1], lines[n])]
            IN  Folded(a[Len(lines)])
    BY DEF ReadIndex
  <2> QED
    BY <1>2, <2>1
<1>4. g = [n \in 0 .. last |->
             IF n = 0 THEN [index |-> <<>>, accum |-> <<>>]
                      ELSE ReadIndexLine(g[n-1], lines[n])]
  <2>1. ASSUME NEW n \in 0 .. last
        PROVE  ReadSoFar(ix, n) = IF n = 0 THEN [index |-> <<>>, accum |-> <<>>]
                                  ELSE ReadIndexLine(g[n-1], lines[n])
    <3>1. CASE n = 0
      BY <3>1 DEF ReadSoFar
    <3>2. CASE n # 0
      <4>1. n \in 1 .. last /\ n - 1 \in 0 .. last
        BY <1>1, <3>2
      <4>2. g[n-1] = ReadSoFar(ix, n - 1)
        BY <4>1
      <4>3. ReadSoFar(ix, n) = ReadIndexLine(ReadSoFar(ix, n - 1), lines[n])
        BY <4>1, ReadIndexStep
      <4> QED
        BY <3>2, <4>2, <4>3
    <3> QED
      BY <3>1, <3>2
  <2> QED
    BY <2>1
<1> HIDE DEF lines, last, g
<1>5. after = [n \in 0 .. last |->
                 IF n = 0 THEN [index |-> <<>>, accum |-> <<>>]
                          ELSE ReadIndexLine(after[n-1], lines[n])]
  BY <1>4, Zenon
<1> HIDE DEF after
<1>6. /\ \A n \in 0 .. last : g[n] = ReadSoFar(ix, n)
      /\ \A n \in 0 .. last :
           /\ after[n] = IF n = 0 THEN [index |-> <<>>, accum |-> <<>>]
                         ELSE ReadIndexLine(after[n-1], lines[n])
           /\ g[n] = IF n = 0 THEN [index |-> <<>>, accum |-> <<>>]
                     ELSE ReadIndexLine(g[n-1], lines[n])
  <2>1. \A n \in 0 .. last : g[n] = ReadSoFar(ix, n)
    BY DEF g
  <2> QED
    BY <1>4, <1>5, <2>1, Zenon
<1> DEFINE bad == {n \in 0 .. last : after[n] # g[n]}
<1>7. bad = {}
  <2> SUFFICES ASSUME bad # {} PROVE FALSE
    OBVIOUS
  <2>1. PICK m \in bad : \A k \in bad : m <= k
    <3>1. bad \in SUBSET Nat
      BY <1>1
    <3> HIDE DEF bad
    <3> QED
      BY <3>1, LeastNatural
  <2>2. m \in 0 .. last /\ after[m] # g[m]
    OBVIOUS
  <2>3. m # 0
    BY <1>6, <2>2
  <2>4. m - 1 \in 0 .. last /\ m - 1 \notin bad
    <3>1. m - 1 \in 0 .. last /\ m - 1 < m
      BY <1>1, <2>2, <2>3
    <3> HIDE DEF bad
    <3> QED
      BY <1>1, <2>1, <2>2, <3>1
  <2>5. after[m-1] = g[m-1]
    BY <2>4
  <2> QED
    BY <1>6, <2>2, <2>3, <2>5
<1>8. last \in 0 .. last
  BY <1>1
<1>9. after[last] = ReadSoFar(ix, last)
  BY <1>6, <1>7, <1>8
<1>10. Folded(ReadSoFar(ix, last)) = ix
  <2>1. CASE Len(ix) = 0
    <3>1. ix = <<>> /\ last <= 1
      BY <2>1 DEF last
    <3>2. ReadSoFar(ix, last) = [index |-> <<>>, accum |-> <<>>]
      BY <3>1 DEF ReadSoFar
    <3> QED
      BY <3>1, <3>2 DEF Folded
  <2>2. CASE Len(ix) # 0
    <3> DEFINE k == Len(ix)
    <3>1. k \in 1 .. Len(ix) /\ k \in Nat \ {0} /\ last = 2 * k + 1
      BY <1>1, <2>2 DEF last
    <3>2. /\ WithState(FirstOf(ix, k - 1), ix[k]) = FirstOf(ix, k)
          /\ FirstOf(ix, k) = ix
      <4>1. FirstOf(ix, k) = ix
        BY <1>1 DEF FirstOf
      <4> HIDE DEF k
      <4> QED
        BY <3>1, <4>1, FirstOfProperties
    <3> HIDE DEF k
    <3>3. ReadSoFar(ix, last) = [index |-> FirstOf(ix, k - 1), accum |-> <<ix[k]>>]
      BY <3>1, ReadSoFarAt
    <3> QED
      BY <3>2, <3>3, FoldedEntry
  <2> QED
    BY <2>1, <2>2
<1> QED
  BY <1>3, <1>9, <1>10 DEF lines

\* A log that is written and read again is the same.
LEMMA LogReadBack ==
  ASSUME NEW S, NEW e \in Seq(S)
  PROVE  ReadLog(WriteLog(e)) = e
<1> DEFINE lines == WriteLog(e)
           last  == Len(e) + 1
           Read(n) == [j \in 1 .. n - 1 |-> e[j]]
           g     == [n \in 0 .. last |-> Read(n)]
           after == CHOOSE f : f = [n \in 0 .. last |->
                      IF n = 0 THEN <<>>
                      ELSE IF lines[n].kind = "comment" THEN f[n-1]
                      ELSE Append(f[n-1], lines[n].id)]
<1>1. Len(e) \in Nat /\ last \in Nat \ {0} /\ DOMAIN e = 1 .. Len(e)
  OBVIOUS
<1>2. /\ Len(lines) = last
      /\ \A n \in 1 .. last :
           lines[n] = IF n = 1 THEN Comment ELSE [kind |-> "backup", id |-> e[n-1]]
  <2>1. lines = [n \in 1 .. last |->
                   IF n = 1 THEN Comment ELSE [kind |-> "backup", id |-> e[n-1]]]
    BY DEF WriteLog
  <2> HIDE DEF lines, last
  <2> QED
    BY <1>1, <2>1
<1>3. ReadLog(lines) = after[last]
  <2> HIDE DEF lines, last
  <2>1. ReadLog(lines)
          = LET a == CHOOSE f : f = [n \in 0 .. Len(lines) |->
                       IF n = 0 THEN <<>>
                       ELSE IF lines[n].kind = "comment" THEN f[n-1]
                       ELSE Append(f[n-1], lines[n].id)]
            IN  a[Len(lines)]
    BY DEF ReadLog
  <2> QED
    BY <1>2, <2>1
<1> HIDE DEF lines
<1>4. ASSUME NEW n \in 1 .. last
      PROVE  Read(n) = IF lines[n].kind = "comment" THEN Read(n - 1)
                       ELSE Append(Read(n - 1), lines[n].id)
  <2>1. CASE n = 1
    <3>1. lines[n].kind = "comment"
      BY <1>2, <2>1 DEF Comment
    <3>2. Read(n) = <<>> /\ Read(n - 1) = <<>>
      BY <2>1
    <3> QED
      BY <3>1, <3>2
  <2>2. CASE n # 1
    <3> DEFINE k == n - 1
    <3>1. k \in 1 .. Len(e) /\ k \in Nat /\ n - 1 = k
      BY <1>1, <2>2
    <3>2. lines[n].kind # "comment" /\ lines[n].id = e[k]
      BY <1>2, <2>2
    <3> HIDE DEF k
    <3> DEFINE a == [j \in 1 .. k - 1 |-> e[j]]
               b == [j \in 1 .. k |-> e[j]]
    <3>3. a \in Seq(S) /\ Len(a) = k - 1 /\ \A j \in 1 .. k - 1 : a[j] = e[j]
      BY <1>1, <3>1
    <3>4. b \in Seq(S) /\ Len(b) = k /\ \A j \in 1 .. k : b[j] = e[j]
      BY <1>1, <3>1
    <3> HIDE DEF a, b
    <3>5. e[k] \in S
      BY <1>1, <3>1
    <3> DEFINE c == Append(a, e[k])
    <3>6. c \in Seq(S) /\ Len(c) = k /\ c[k] = e[k] /\ \A j \in 1 .. k - 1 : c[j] = a[j]
      BY <3>1, <3>3, <3>5
    <3> HIDE DEF c
    <3>7. \A j \in 1 .. k : c[j] = b[j]
      <4> TAKE j \in 1 .. k
      <4>1. CASE j = k
        BY <3>4, <3>6, <4>1
      <4>2. CASE j # k
        <5>1. j \in 1 .. k - 1
          BY <3>1, <4>2
        <5> QED
          BY <3>3, <3>4, <3>6, <5>1
      <4> QED
        BY <4>1, <4>2
    <3>8. c = b
      BY <3>4, <3>6, <3>7
    <3> QED
      BY <3>1, <3>2, <3>8 DEF a, b, c
  <2> QED
    BY <2>1, <2>2
<1>5. g = [n \in 0 .. last |->
             IF n = 0 THEN <<>>
             ELSE IF lines[n].kind = "comment" THEN g[n-1]
             ELSE Append(g[n-1], lines[n].id)]
  <2>1. ASSUME NEW n \in 0 .. last
        PROVE  Read(n) = IF n = 0 THEN <<>>
                         ELSE IF lines[n].kind = "comment" THEN g[n-1]
                         ELSE Append(g[n-1], lines[n].id)
    <3>1. CASE n = 0
      BY <3>1
    <3>2. CASE n # 0
      <4>1. n \in 1 .. last /\ n - 1 \in 0 .. last
        BY <1>1, <3>2
      <4>2. g[n-1] = Read(n - 1)
        BY <4>1
      <4> QED
        BY <1>4, <3>2, <4>1, <4>2
    <3> QED
      BY <3>1, <3>2
  <2> QED
    BY <2>1
<1>6. \A n \in 0 .. last : g[n] = Read(n)
  OBVIOUS
<1> HIDE DEF last, g, Read
<1>7. after = [n \in 0 .. last |->
                 IF n = 0 THEN <<>>
                 ELSE IF lines[n].kind = "comment" THEN after[n-1]
                 ELSE Append(after[n-1], lines[n].id)]
  BY <1>5, Zenon
<1> HIDE DEF after
<1>8. \A n \in 0 .. last :
        /\ after[n] = IF n = 0 THEN <<>>
                      ELSE IF lines[n].kind = "comment" THEN after[n-1]
                      ELSE Append(after[n-1], lines[n].id)
        /\ g[n] = IF n = 0 THEN <<>>
                  ELSE IF lines[n].kind = "comment" THEN g[n-1]
                  ELSE Append(g[n-1], lines[n].id)
  BY <1>5, <1>7, Zenon
<1> DEFINE bad == {n \in 0 .. last : after[n] # g[n]}
<1>9. bad = {}
  <2> SUFFICES ASSUME bad # {} PROVE FALSE
    OBVIOUS
  <2>1. PICK m \in bad : \A k \in bad : m <= k
    <3>1. bad \in SUBSET Nat
      BY <1>1
    <3> HIDE DEF bad
    <3> QED
      BY <3>1, LeastNatural
  <2>2. m \in 0 .. last /\ after[m] # g[m]
    OBVIOUS
  <2>3. m # 0
    BY <1>8, <2>2
  <2>4. m - 1 \in 0 .. last /\ m - 1 \notin bad
    <3>1. m - 1 \in 0 .. last /\ m - 1 < m
      BY <1>1, <2>2, <2>3
    <3> HIDE DEF bad
    <3> QED
      BY <1>1, <2>1, <2>2, <3>1
  <2>5. after[m-1] = g[m-1]
    BY <2>4
  <2> QED
    BY <1>8, <2>2, <2>3, <2>5
<1>10. after[last] = Read(last)
  <2>1. last \in 0 .. last
    BY <1>1
  <2> QED
    BY <1>6, <1>9, <2>1
<1>11. Read(last) = e
  <2>1. last - 1 = Len(e)
    BY <1>1 DEF last
  <2> QED
    BY <1>1, <2>1 DEF Read
<1> QED
  BY <1>3, <1>10, <1>11 DEF lines

\* The ids that a log of the states h has.
Ids(h) == [i \in DOMAIN h |-> StateId(Index(h), h[i])]

\* The files of a log give back its index and its ids, and these the states.
LEMMA LogOfProperties ==
  ASSUME NEW S, NEW h \in Seq(S)
  PROVE  /\ ReadIndex(LogOf(h).index) = Index(h)
         /\ ReadLog(LogOf(h).lines) = Ids(h)
         /\ Len(Ids(h)) = Len(h)
         /\ \A i \in 1 .. Len(h) : Index(h)[Ids(h)[i] + 1] = h[i]
<1> DEFINE ix == Index(h)
           ids == Ids(h)
<1>1. /\ ix \in Seq(S) /\ IsInjective(ix)
      /\ \A i \in DOMAIN h : \E k \in DOMAIN ix : ix[k] = h[i]
  BY IndexProperties
<1>2. DOMAIN h = 1 .. Len(h) /\ Len(h) \in Nat
  OBVIOUS
<1>3. LogOf(h).index = WriteIndex(ix) /\ LogOf(h).lines = WriteLog(ids)
  BY DEF LogOf, Ids
<1>4. DOMAIN ids = 1 .. Len(h) /\ \A i \in 1 .. Len(h) : ids[i] = StateId(ix, h[i])
  BY <1>2 DEF Ids
<1>5. ids = [i \in 1 .. Len(h) |-> StateId(ix, h[i])]
  BY <1>2 DEF Ids
<1> HIDE DEF ix, ids
<1>6. ids \in Seq({StateId(ix, h[i]) : i \in 1 .. Len(h)}) /\ Len(ids) = Len(h)
  BY <1>2, <1>5
<1>7. ReadIndex(WriteIndex(ix)) = ix
  BY <1>1, IndexReadBack
<1>8. ReadLog(WriteLog(ids)) = ids
  BY <1>6, LogReadBack
<1>9. \A i \in 1 .. Len(h) : ix[ids[i] + 1] = h[i]
  <2> TAKE i \in 1 .. Len(h)
  <2>1. PICK k \in DOMAIN ix : ix[k] = h[i]
    BY <1>1, <1>2
  <2>2. ix[StateId(ix, ix[k]) + 1] = ix[k]
    BY <1>1, StateIdProperties
  <2> QED
    BY <1>4, <2>1, <2>2
<1> QED
  BY <1>3, <1>6, <1>7, <1>8, <1>9 DEF ix, ids

\* An empty log has an empty index.
LEMMA EmptyIndex == Index(<<>>) = <<>>
<1>1. <<>> \in Seq({})
  OBVIOUS
<1>2. Index(<<>>) \in Seq({})
  BY <1>1, IndexProperties
<1> QED
  BY <1>2

-----------------------------------------------------------------------------
\* The bounds that backing up the states h in turn leads to, from a solver
\* that has just been asked for the root.
Tables(p)       == {b \in BoundTable : Linked(p, b) /\ p.initial \in b.lookup}
Start(p)        == GetNodes(p, EmptyTable, {p.initial})
BackedUp(p, b, s) == Update(p, GetNodes(p, b, {s}), s)

Execution(p, h, T) ==
  /\ T \in [0 .. Len(h) -> Tables(p)]
  /\ T[0] = Start(p)
  /\ \A k \in 1 .. Len(h) : T[k] = BackedUp(p, T[k-1], h[k])

LEMMA StartType ==
  ASSUME NEW p \in Problem
  PROVE  Start(p) \in Tables(p)
<1>1. p.initial \in Node /\ {p.initial} \in SUBSET Node
  BY DEF Problem
<1>2. EmptyTable \in BoundTable /\ EmptyTable.expanded = {} /\ EmptyTable.lookup = {}
  BY BoundPairAssumption DEF EmptyTable, BoundTable
<1> DEFINE t == Start(p)
<1>3. /\ t \in BoundTable
      /\ t.lookup = EmptyTable.lookup \cup {p.initial}
      /\ t.expanded = EmptyTable.expanded
  BY <1>1, <1>2, GetNodesProperties DEF Start
<1> HIDE DEF t
<1> QED
  BY <1>2, <1>3 DEF Tables, Linked, t

\* The root is looked up again and nothing changes.
LEMMA StartAgain ==
  ASSUME NEW p, NEW b \in Tables(p)
  PROVE  GetNodes(p, b, {p.initial}) = b
<1>1. b \in BoundTable /\ {p.initial} \ b.lookup = {}
  BY DEF Tables
<1> DEFINE ub == [n \in Node |-> IF n \in {} THEN InitUB(p, n) ELSE b.ub[n]]
           lb == [n \in Node |-> IF n \in {} THEN InitLB(p, n) ELSE b.lb[n]]
<1>2. GetNodes(p, b, {p.initial})
        = [b EXCEPT !.lookup = @ \cup {}, !.ub = ub, !.lb = lb]
  BY <1>1 DEF GetNodes
<1>3. ub = b.ub /\ lb = b.lb /\ b.lookup \cup {} = b.lookup
  BY <1>1 DEF BoundTable
<1> HIDE DEF ub, lb
<1>4. [b EXCEPT !.lookup = @ \cup {}, !.ub = ub, !.lb = lb] = b
  BY <1>1, <1>3 DEF BoundTable
<1> QED
  BY <1>2, <1>4

LEMMA BackedUpType ==
  ASSUME NEW p \in Problem, NEW b \in Tables(p), NEW s \in Node
  PROVE  BackedUp(p, b, s) \in Tables(p)
<1>1. b \in BoundTable /\ Linked(p, b) /\ p.initial \in b.lookup /\ {s} \in SUBSET Node
  BY DEF Tables
<1> DEFINE t == GetNodes(p, b, {s})
           u == Update(p, t, s)
<1>2. t \in BoundTable /\ t.lookup = b.lookup \cup {s} /\ t.expanded = b.expanded
  BY <1>1, GetNodesProperties
<1> HIDE DEF t
<1>3. Linked(p, t) /\ s \in t.lookup
  BY <1>1, <1>2 DEF Linked
<1>4. u \in BoundTable /\ t.lookup \subseteq u.lookup /\ Linked(p, u)
  BY <1>2, <1>3, TableAfterUpdate
<1> HIDE DEF u
<1>5. u \in Tables(p)
  BY <1>1, <1>2, <1>4 DEF Tables
<1> QED
  BY <1>5 DEF u, t, BackedUp

LEMMA EmptyExecution ==
  ASSUME NEW p \in Problem
  PROVE  \E T : Execution(p, <<>>, T) /\ T[0] = Start(p)
<1> DEFINE T == [k \in 0 .. 0 |-> Start(p)]
<1>1. T \in [0 .. 0 -> Tables(p)] /\ T[0] = Start(p)
  BY StartType
<1>2. Len(<<>>) = 0 /\ 1 .. 0 = {}
  OBVIOUS
<1> HIDE DEF T
<1>3. Execution(p, <<>>, T)
  BY <1>1, <1>2 DEF Execution
<1> QED
  BY <1>1, <1>3

LEMMA ExtendedExecution ==
  ASSUME NEW p \in Problem, NEW h \in Seq(Node), NEW T, Execution(p, h, T), NEW s \in Node
  PROVE  \E U : /\ Execution(p, Append(h, s), U)
                /\ U[Len(h) + 1] = BackedUp(p, T[Len(h)], s)
<1> DEFINE l == Len(h)
           g == Append(h, s)
           b == BackedUp(p, T[l], s)
           U == [k \in 0 .. l + 1 |-> IF k <= l THEN T[k] ELSE b]
<1>1. /\ l \in Nat /\ Len(g) = l + 1 /\ g[l + 1] = s
      /\ \A k \in 1 .. l : g[k] = h[k]
  OBVIOUS
<1>2. /\ T \in [0 .. l -> Tables(p)] /\ T[0] = Start(p)
      /\ \A k \in 1 .. l : T[k] = BackedUp(p, T[k-1], h[k])
  BY DEF Execution
<1> HIDE DEF l, g
<1>3. \A k \in 0 .. l : T[k] \in Tables(p)
  BY <1>2
<1>4. b \in Tables(p)
  <2>1. T[l] \in Tables(p)
    BY <1>1, <1>3
  <2> QED
    BY <2>1, BackedUpType
<1>5. /\ \A k \in 0 .. l : U[k] = T[k]
      /\ U[l + 1] = b
  BY <1>1
<1>6. U \in [0 .. l + 1 -> Tables(p)]
  <2>1. \A k \in 0 .. l + 1 : (IF k <= l THEN T[k] ELSE b) \in Tables(p)
    BY <1>1, <1>3, <1>4
  <2> QED
    BY <2>1
<1> HIDE DEF U
<1>7. U[0] = Start(p)
  BY <1>1, <1>2, <1>5
<1>8. \A k \in 1 .. l + 1 : U[k] = BackedUp(p, U[k-1], g[k])
  <2> TAKE k \in 1 .. l + 1
  <2>1. CASE k = l + 1
    <3>1. U[k] = b /\ U[k-1] = T[l] /\ g[k] = s
      BY <1>1, <1>5, <2>1
    <3> QED
      BY <3>1 DEF l
  <2>2. CASE k # l + 1
    <3>1. k \in 1 .. l /\ k \in 0 .. l /\ k - 1 \in 0 .. l
      BY <1>1, <2>2
    <3>2. U[k] = T[k] /\ U[k-1] = T[k-1] /\ g[k] = h[k]
      BY <1>1, <1>5, <3>1
    <3> QED
      BY <1>2, <3>1, <3>2
  <2> QED
    BY <2>1, <2>2
<1>9. Execution(p, g, U)
  BY <1>1, <1>6, <1>7, <1>8 DEF Execution
<1> QED
  BY <1>5, <1>9 DEF l, g

-----------------------------------------------------------------------------
\* Then the runs: which backups have led to the bounds, in a run that is logged
\* and in one that follows its log.

\* The bounds of every state in a table, as Intervals has them.
IntervalsOf(p, b) ==
  [n \in Node |-> << ValueOf(p, b, b.lb, p.lower)[n], ValueOf(p, b, b.ub, p.upper)[n] >>]

\* The files hold the log of a run that backed up the states h, and the bounds
\* that run ended with.
Logged(h, T) ==
  /\ h \in Seq(Node)
  /\ Execution(problem, h, T)
  /\ files.log = LogOf(h)
  /\ files.values = ValuesFile(Index(h), IntervalsOf(problem, T[Len(h)]))

\* A script has repeated the first backups of such a run.
Following(h, T) ==
  /\ Logged(h, T)
  /\ script.index = Index(h)
  /\ script.entries = Ids(h)
  /\ currentLogEntry \in 0 .. Len(h)
  /\ bp = T[currentLogEntry]
  /\ pc = "exit" /\ currentLogEntry = Len(h) => files.replayed = files.values

InStrategy ==
  /\ problem \in Problems
  /\ pc \in {"trialRecurse", "unwind"} => settings.searchStrategy = "rtdp"
  /\ pc = "script" => settings.searchStrategy = "script" /\ script.read
  /\ settings.command = "evaluate" => ~script.read

\* The nodes noted for the log are those whose backups led to the bounds.
RunRecorded ==
  settings.searchStrategy = "rtdp" /\ settings.useLogBackups =>
    /\ stack \in Seq(Node)
    /\ backedUpNodes \in Seq(Node)
    /\ pc = "trialRecurse" => stack # <<>>
    /\ \/ bp = EmptyTable /\ backedUpNodes = <<>> /\ pc \notin {"trialRecurse", "unwind"}
       \/ \E T : Execution(problem, backedUpNodes, T) /\ bp = T[Len(backedUpNodes)]

LogKept == files.log.there => \E h, T : Logged(h, T)

ScriptFollowed ==
  settings.searchStrategy = "script" =>
    /\ ~script.read => bp = EmptyTable /\ currentLogEntry = 0
    /\ script.read => \E h, T : Following(h, T)

RInv == InStrategy /\ RunRecorded /\ LogKept /\ ScriptFollowed

LEMMA Strategies ==
  ASSUME NEW setting \in Settings
  PROVE  setting.searchStrategy \in {"rtdp", "script"} /\ setting.useLogBackups \in BOOLEAN
BY SettingsAssumption DEF Setting

LEMMA InitRInv == Init => RInv
<1> SUFFICES ASSUME Init PROVE RInv
  OBVIOUS
<1>1. /\ problem \in Problems /\ pc = "main" /\ bp = EmptyTable
      /\ backedUpNodes = <<>> /\ stack = <<>> /\ script = NoScript
      /\ currentLogEntry = 0 /\ files = NoFiles
  BY DEF Init, SearchInit, ProcessInit
<1>2. ~script.read /\ ~files.log.there
  BY <1>1 DEF NoScript, NoFiles
<1>3. <<>> \in Seq(Node)
  OBVIOUS
<1> QED
  BY <1>1, <1>2, <1>3 DEF RInv, InStrategy, RunRecorded, LogKept, ScriptFollowed

\* A step that changes neither the search nor the files of a log.
LEMMA ElsewhereRInv ==
  ASSUME RInv,
         UNCHANGED <<problem, settings, bp, backedUpNodes, stack, script, currentLogEntry>>,
         files'.log = files.log, files'.values = files.values,
         files'.replayed = files.replayed,
         \/ pc' = pc
         \/ /\ pc' \notin {"trialRecurse", "unwind", "script"}
            /\ pc' = "exit" => settings.command = "evaluate"
  PROVE  RInv'
<1>1. InStrategy'
  BY DEF RInv, InStrategy
<1>2. RunRecorded'
  BY DEF RInv, RunRecorded
<1>3. \A h, T : Logged(h, T) => Logged(h, T)'
  BY DEF Logged
<1>4. LogKept'
  BY <1>3 DEF RInv, LogKept
<1>5. ScriptFollowed'
  <2>1. CASE settings.searchStrategy = "script" /\ script.read
    <3>1. PICK h, T : Following(h, T)
      BY <2>1 DEF RInv, ScriptFollowed
    <3>2. pc' = "exit" => pc = "exit"
      BY <2>1 DEF RInv, InStrategy
    <3>3. Following(h, T)'
      BY <1>3, <3>1, <3>2 DEF Following
    <3> QED
      BY <2>1, <3>3 DEF ScriptFollowed
  <2>2. CASE ~(settings.searchStrategy = "script" /\ script.read)
    BY <2>2 DEF RInv, ScriptFollowed
  <2> QED
    BY <2>1, <2>2
<1> QED
  BY <1>1, <1>2, <1>4, <1>5 DEF RInv

LEMMA CommandStepRInv ==
  ASSUME IInv, RInv,
         \/ Main
         \/ SetSignalHandler
         \/ SolveLoop
         \/ \E ticks \in 1 .. 2 : SolveReturned(ticks) \/ BenchmarkReturned(ticks)
         \/ NoScriptFiles
         \/ OpenPolicy
         \/ WritePolicy
         \/ BenchmarkLoop
         \/ Backup_
         \/ RemoveBackup
         \/ EvaluateBounds
         \/ \E simulator \in Simulators(problem) : EvaluateFile(simulator)
         \/ Evaluate
         \/ EndEvaluation
         \/ CtrlC
  PROVE  RInv'
<1>1. UNCHANGED <<problem, settings, bp, backedUpNodes, stack, script, currentLogEntry>>
  BY DEF Main, SetSignalHandler, SolveLoop, SolveReturned, BenchmarkReturned, NoScriptFiles,
         OpenPolicy, WritePolicy, BenchmarkLoop, Backup_, RemoveBackup, EvaluateBounds,
         EvaluateFile, Evaluate, EndEvaluation, CtrlC, Quiet, searchVars
<1>2. /\ files'.log = files.log /\ files'.values = files.values
      /\ files'.replayed = files.replayed
  <2>1. \/ files' = files
        \/ \E x : files' = [files EXCEPT !.policy = x]
        \/ \E x : files' = [files EXCEPT !.bak = x]
        \/ \E x, y : files' = [files EXCEPT !.policy = x, !.bak = y]
    <3>1. CASE OpenPolicy
      BY <3>1 DEF OpenPolicy
    <3>2. CASE WritePolicy
      BY <3>2 DEF WritePolicy
    <3>3. CASE Backup_
      <4>1. CASE files.policy.there
        <5>1. files' = [files EXCEPT !.bak = files.policy, !.policy = NoFile]
          BY <3>3, <4>1 DEF Backup_, MoveToBackup
        <5>2. files' = [files EXCEPT !.policy = NoFile, !.bak = files.policy]
          BY <5>1
        <5> QED
          BY <5>2
      <4>2. CASE ~files.policy.there
        BY <3>3, <4>2 DEF Backup_, MoveToBackup
      <4> QED
        BY <4>1, <4>2
    <3>4. CASE RemoveBackup
      BY <3>4 DEF RemoveBackup
    <3>5. CASE ~OpenPolicy /\ ~WritePolicy /\ ~Backup_ /\ ~RemoveBackup
      BY <3>5 DEF Main, SetSignalHandler, SolveLoop, SolveReturned, BenchmarkReturned,
         NoScriptFiles, BenchmarkLoop, EvaluateBounds, EvaluateFile, Evaluate, EndEvaluation,
         CtrlC, commandVars
    <3> QED
      BY <3>1, <3>2, <3>3, <3>4, <3>5
  <2>2. Fields \subseteq DOMAIN files
    BY DEF IInv, InPlace
  <2> QED
    BY <2>1, <2>2 DEF Fields
<1>3. \/ pc' = pc
      \/ /\ pc' \notin {"trialRecurse", "unwind", "script"}
         /\ pc' = "exit" => settings.command = "evaluate"
  <2>1. CASE EndEvaluation
    <3>1. /\ settings.command \in {"benchmark", "evaluate"}
          /\ pc' \in {"loop", "exit"}
          /\ pc' = "exit" => settings.command # "benchmark"
      BY <2>1, Commands DEF EndEvaluation, IInv, InPlace, Place, Searching
    <3> QED
      BY <3>1
  <2>2. CASE ~EndEvaluation
    BY <2>2 DEF Main, SetSignalHandler, SolveLoop, SolveReturned, BenchmarkReturned,
         NoScriptFiles, OpenPolicy, WritePolicy, BenchmarkLoop, Backup_, RemoveBackup,
         EvaluateBounds, EvaluateFile, Evaluate, CtrlC, Goto
  <2> QED
    BY <2>1, <2>2
<1> QED
  BY <1>1, <1>2, <1>3, ElsewhereRInv

LEMMA NextCommandRInv == IInv /\ RInv /\ NextCommand => RInv'
<1> SUFFICES ASSUME IInv, RInv, NextCommand PROVE RInv'
  OBVIOUS
<1>1. /\ UNCHANGED <<problem, files>> /\ pc' = "main" /\ bp' = EmptyTable
      /\ backedUpNodes' = <<>> /\ stack' = <<>> /\ script' = NoScript /\ currentLogEntry' = 0
  BY DEF NextCommand, ResetSearch
<1>2. ~script'.read /\ <<>> \in Seq(Node)
  BY <1>1 DEF NoScript
<1>3. InStrategy' /\ RunRecorded' /\ ScriptFollowed'
  BY <1>1, <1>2 DEF RInv, InStrategy, RunRecorded, ScriptFollowed
<1>4. \A h, T : Logged(h, T) => Logged(h, T)'
  BY <1>1 DEF Logged
<1>5. LogKept'
  BY <1>1, <1>4 DEF RInv, LogKept
<1> QED
  BY <1>3, <1>5 DEF RInv

-----------------------------------------------------------------------------
\* The search notes what it backs up.
LEMMA BackUpRecorded ==
  ASSUME problem \in Problems, settings.useLogBackups,
         backedUpNodes \in Seq(Node), NEW T, Execution(problem, backedUpNodes, T),
         bp = T[Len(backedUpNodes)], NEW s \in Node, BackUp(s), problem' = problem
  PROVE  /\ backedUpNodes' \in Seq(Node)
         /\ \E U : /\ Execution(problem', backedUpNodes', U)
                   /\ bp' = U[Len(backedUpNodes')]
<1>1. problem \in Problem
  BY ProblemsAssumption
<1>2. /\ backedUpNodes' = Append(backedUpNodes, s)
      /\ bp' = BackedUp(problem, bp, s)
  BY DEF BackUp, TrackBackup, BackedUp
<1>3. PICK U : /\ Execution(problem, Append(backedUpNodes, s), U)
               /\ U[Len(backedUpNodes) + 1] = BackedUp(problem, T[Len(backedUpNodes)], s)
  BY <1>1, ExtendedExecution
<1>4. /\ Append(backedUpNodes, s) \in Seq(Node)
      /\ Len(Append(backedUpNodes, s)) = Len(backedUpNodes) + 1
  OBVIOUS
<1> QED
  BY <1>2, <1>3, <1>4

\* The bounds of an execution are tables.
LEMMA ExecutionType ==
  ASSUME NEW p, NEW h \in Seq(Node), NEW T, Execution(p, h, T), NEW k \in 0 .. Len(h)
  PROVE  T[k] \in Tables(p)
BY DEF Execution

\* Asking for the root gives an empty table its first node, and otherwise
\* changes nothing.
LEMMA RootRecorded ==
  ASSUME problem \in Problems, backedUpNodes \in Seq(Node),
         \/ bp = EmptyTable /\ backedUpNodes = <<>>
         \/ \E T : Execution(problem, backedUpNodes, T) /\ bp = T[Len(backedUpNodes)],
         UNCHANGED <<problem, backedUpNodes>>, bp' = GetNodes(problem, bp, {problem.initial})
  PROVE  \E T : Execution(problem', backedUpNodes', T) /\ bp' = T[Len(backedUpNodes')]
<1>1. problem \in Problem
  BY ProblemsAssumption
<1>2. CASE bp = EmptyTable /\ backedUpNodes = <<>>
  <2>1. PICK T : Execution(problem, <<>>, T) /\ T[0] = Start(problem)
    BY <1>1, EmptyExecution
  <2>2. bp' = T[0] /\ Len(<<>>) = 0
    BY <1>2, <2>1 DEF Start
  <2> QED
    BY <1>2, <2>1, <2>2
<1>3. CASE \E T : Execution(problem, backedUpNodes, T) /\ bp = T[Len(backedUpNodes)]
  <2>1. PICK T : Execution(problem, backedUpNodes, T) /\ bp = T[Len(backedUpNodes)]
    BY <1>3
  <2>2. Len(backedUpNodes) \in 0 .. Len(backedUpNodes)
    OBVIOUS
  <2>3. bp \in Tables(problem)
    BY <2>1, <2>2, ExecutionType
  <2>4. bp' = bp
    BY <2>3, StartAgain
  <2> QED
    BY <2>1, <2>4
<1> QED
  BY <1>2, <1>3

\* A trial of RTDP.
LEMMA TrialRInv ==
  ASSUME IInv, RInv, UNCHANGED <<problem, settings, files>>,
         \/ StartTrial
         \/ TrialAtTerminal
         \/ \E o \in Outcome : TrialStep(o)
         \/ Unwind
         \/ EndTrial
  PROVE  RInv'
<1>1. UNCHANGED <<script, currentLogEntry>>
  BY DEF StartTrial, TrialAtTerminal, TrialStep, Unwind, EndTrial
<1>2. settings.searchStrategy = "rtdp"
  <2>1. StartTrial \/ pc \in {"trialRecurse", "unwind"}
    BY DEF TrialAtTerminal, TrialStep, Unwind, EndTrial
  <2> QED
    BY <2>1 DEF StartTrial, RInv, InStrategy
<1>3. pc' \in {"trialRecurse", "unwind", "planned"}
  BY DEF StartTrial, TrialAtTerminal, TrialStep, Unwind, EndTrial, ReturnPlan
<1>4. InStrategy'
  BY <1>1, <1>2, <1>3 DEF RInv, InStrategy
<1>5. \A h, T : Logged(h, T) => Logged(h, T)'
  BY DEF Logged
<1>6. LogKept'
  BY <1>5 DEF RInv, LogKept
<1>7. ScriptFollowed'
  BY <1>2 DEF ScriptFollowed
<1>8. RunRecorded'
  <2> SUFFICES ASSUME settings.useLogBackups PROVE RunRecorded'
    BY DEF RunRecorded
  <2>1. problem \in Problems /\ problem \in Problem /\ problem.initial \in Node
    BY ProblemsAssumption DEF RInv, InStrategy, Problem
  <2>2. /\ stack \in Seq(Node) /\ backedUpNodes \in Seq(Node)
        /\ pc = "trialRecurse" => stack # <<>>
        /\ \/ bp = EmptyTable /\ backedUpNodes = <<>> /\ pc \notin {"trialRecurse", "unwind"}
           \/ \E T : Execution(problem, backedUpNodes, T) /\ bp = T[Len(backedUpNodes)]
    BY <1>2 DEF RInv, RunRecorded
  <2>3. CASE StartTrial
    <3>1. /\ bp' = GetNodes(problem, bp, {problem.initial})
          /\ stack' = <<problem.initial>> /\ backedUpNodes' = backedUpNodes
      BY <2>3 DEF StartTrial
    <3>2. \E T : Execution(problem', backedUpNodes', T) /\ bp' = T[Len(backedUpNodes')]
      BY <2>1, <2>2, <3>1, RootRecorded
    <3>3. stack' \in Seq(Node) /\ stack' # <<>> /\ backedUpNodes' \in Seq(Node)
      BY <2>1, <2>2, <3>1
    <3> QED
      BY <3>2, <3>3 DEF RunRecorded
  <2>4. CASE TrialAtTerminal
    <3>1. /\ UNCHANGED <<bp, backedUpNodes>> /\ stack' = Front(stack)
          /\ pc = "trialRecurse" /\ pc' = "unwind"
      BY <2>4 DEF TrialAtTerminal
    <3>2. stack' \in Seq(Node)
      BY <2>2, <3>1, FrontProperties
    <3> QED
      BY <2>2, <3>1, <3>2 DEF RunRecorded
  <2>5. CASE \E o \in Outcome : TrialStep(o)
    <3>1. PICK o \in Outcome : TrialStep(o)
      BY <2>5
    <3> DEFINE s == Last(stack)
               a == MaxUBAction(bp', s)
    <3>2. /\ pc = "trialRecurse" /\ BackUp(s)
          /\ stack' = Append(stack, problem.next[s][a][o])
      BY <3>1 DEF TrialStep
    <3>3. s \in Node
      BY <2>2, <3>2, FrontProperties
    <3>4. PICK T : Execution(problem, backedUpNodes, T) /\ bp = T[Len(backedUpNodes)]
      BY <2>2, <3>2
    <3> HIDE DEF s
    <3>5. /\ backedUpNodes' \in Seq(Node)
          /\ \E U : Execution(problem', backedUpNodes', U) /\ bp' = U[Len(backedUpNodes')]
      BY <2>1, <2>2, <3>2, <3>3, <3>4, BackUpRecorded
    <3>6. PICK U : Execution(problem', backedUpNodes', U) /\ bp' = U[Len(backedUpNodes')]
      BY <3>5
    <3>7. Len(backedUpNodes') \in 0 .. Len(backedUpNodes')
      BY <3>5
    <3>8. bp' \in BoundTable
      <4>1. bp' \in Tables(problem')
        BY <3>5, <3>6, <3>7, ExecutionType
      <4> QED
        BY <4>1 DEF Tables
    <3>9. a \in Action
      <4>1. bp'.qub[s] \in [Action -> Int]
        BY <3>3, <3>8 DEF BoundTable
      <4> QED
        BY <4>1, MaxActionProperties DEF MaxUBAction
    <3> HIDE DEF a
    <3>10. problem.next[s][a][o] \in Node
      BY <2>1, <3>3, <3>9 DEF Problem
    <3>11. stack' \in Seq(Node) /\ stack' # <<>>
      BY <2>2, <3>2, <3>10, AppendKeeps
    <3> QED
      BY <3>5, <3>11 DEF RunRecorded
  <2>6. CASE Unwind
    <3> DEFINE s == Last(stack)
    <3>1. /\ pc = "unwind" /\ pc' = pc /\ stack # <<>> /\ BackUp(s) /\ stack' = Front(stack)
      BY <2>6 DEF Unwind
    <3>2. s \in Node /\ stack' \in Seq(Node)
      BY <2>2, <3>1, FrontProperties
    <3>3. PICK T : Execution(problem, backedUpNodes, T) /\ bp = T[Len(backedUpNodes)]
      BY <2>2, <3>1
    <3> HIDE DEF s
    <3>4. /\ backedUpNodes' \in Seq(Node)
          /\ \E U : Execution(problem', backedUpNodes', U) /\ bp' = U[Len(backedUpNodes')]
      BY <2>1, <2>2, <3>1, <3>2, <3>3, BackUpRecorded
    <3> QED
      BY <3>1, <3>2, <3>4 DEF RunRecorded
  <2>7. CASE EndTrial
    <3>1. UNCHANGED <<bp, backedUpNodes, stack>> /\ pc' = "planned"
      BY <2>7 DEF EndTrial, ReturnPlan
    <3> QED
      BY <2>2, <3>1 DEF RunRecorded
  <2> QED
    BY <2>3, <2>4, <2>5, <2>6, <2>7
<1> QED
  BY <1>4, <1>6, <1>7, <1>8 DEF RInv

\* The first call of a scripted updater reads what the log was written from.
LEMMA StartScriptRInv ==
  ASSUME IInv, RInv, UNCHANGED <<problem, settings, files>>,
         files.log.there, StartScript(files.log.index, files.log.lines)
  PROVE  RInv'
<1>1. /\ settings.searchStrategy = "script" /\ pc = "planFixedTime" /\ pc' = "script"
      /\ UNCHANGED <<backedUpNodes, stack, currentLogEntry>>
      /\ bp' = GetNodes(problem, bp, {problem.initial})
      /\ script' = IF script.read THEN script
                   ELSE [read |-> TRUE, index |-> ReadIndex(files.log.index),
                         entries |-> ReadLog(files.log.lines)]
  BY DEF StartScript
<1>2. script'.read
  BY <1>1
<1>3. settings.command # "evaluate"
  BY <1>1 DEF IInv, InPlace, Place
<1>4. InStrategy'
  BY <1>1, <1>2, <1>3 DEF RInv, InStrategy
<1>5. RunRecorded'
  BY <1>1 DEF RunRecorded
<1>6. \A h, T : Logged(h, T) => Logged(h, T)'
  BY DEF Logged
<1>7. LogKept'
  BY <1>6 DEF RInv, LogKept
<1>8. \E h, T : Following(h, T)'
  <2>1. CASE script.read
    <3>1. PICK h, T : Following(h, T)
      BY <1>1, <2>1 DEF RInv, ScriptFollowed
    <3>2. bp \in Tables(problem)
      BY <3>1, ExecutionType DEF Following, Logged
    <3>3. bp' = bp
      BY <1>1, <3>2, StartAgain
    <3>4. Following(h, T)'
      BY <1>1, <1>6, <2>1, <3>1, <3>3 DEF Following
    <3> QED
      BY <3>4
  <2>2. CASE ~script.read
    <3>1. PICK h, T : Logged(h, T)
      BY DEF RInv, LogKept
    <3>2. /\ h \in Seq(Node) /\ files.log = LogOf(h) /\ T[0] = Start(problem)
          /\ Len(h) \in Nat
      BY <3>1 DEF Logged, Execution
    <3>3. script'.index = Index(h) /\ script'.entries = Ids(h)
      BY <1>1, <2>2, <3>2, LogOfProperties
    <3>4. bp = EmptyTable /\ currentLogEntry = 0
      BY <1>1, <2>2 DEF RInv, ScriptFollowed
    <3>5. bp' = T[0]
      BY <1>1, <3>2, <3>4 DEF Start
    <3>6. Following(h, T)'
      BY <1>1, <1>6, <3>1, <3>2, <3>3, <3>4, <3>5 DEF Following
    <3> QED
      BY <3>6
  <2> QED
    BY <2>1, <2>2
<1>9. ScriptFollowed'
  BY <1>2, <1>8 DEF ScriptFollowed
<1> QED
  BY <1>4, <1>5, <1>7, <1>9 DEF RInv

\* Each entry is a backup of the state that was backed up then.
LEMMA ScriptRInv ==
  ASSUME IInv, RInv, UNCHANGED <<problem, settings, files>>, ScriptStep \/ ScriptEnd
  PROVE  RInv'
<1>1. pc = "script" /\ pc' \in {"script", "planned"} /\ UNCHANGED <<stack, script>>
  BY DEF ScriptStep, ScriptEnd, ReturnPlan
<1>2. settings.searchStrategy = "script" /\ script.read
  BY <1>1 DEF RInv, InStrategy
<1>3. InStrategy'
  BY <1>1, <1>2 DEF RInv, InStrategy
<1>4. RunRecorded'
  BY <1>2 DEF RunRecorded
<1>5. \A h, T : Logged(h, T) => Logged(h, T)'
  BY DEF Logged
<1>6. LogKept'
  BY <1>5 DEF RInv, LogKept
<1>7. PICK h, T : Following(h, T)
  BY <1>2 DEF RInv, ScriptFollowed
<1>8. Following(h, T)'
  <2>1. /\ Logged(h, T) /\ h \in Seq(Node)
        /\ script.index = Index(h) /\ script.entries = Ids(h)
        /\ currentLogEntry \in 0 .. Len(h) /\ bp = T[currentLogEntry]
        /\ \A k \in 1 .. Len(h) : T[k] = BackedUp(problem, T[k-1], h[k])
    BY <1>7 DEF Following, Logged, Execution
  <2>2. /\ Len(Ids(h)) = Len(h)
        /\ \A i \in 1 .. Len(h) : Index(h)[Ids(h)[i] + 1] = h[i]
    BY <2>1, LogOfProperties
  <2>3. CASE ScriptStep
    <3> DEFINE k == currentLogEntry + 1
    <3>1. /\ currentLogEntry < Len(script.entries)
          /\ BackUp(script.index[script.entries[k] + 1])
          /\ currentLogEntry' = k
      BY <2>3 DEF ScriptStep
    <3>2. k \in 1 .. Len(h) /\ k \in 0 .. Len(h) /\ k - 1 = currentLogEntry
      BY <2>1, <2>2, <3>1
    <3> HIDE DEF k
    <3>3. script.index[script.entries[k] + 1] = h[k]
      BY <2>1, <2>2, <3>2
    <3>4. bp' = BackedUp(problem, T[k-1], h[k])
      BY <2>1, <3>1, <3>2, <3>3 DEF BackUp, BackedUp
    <3>5. bp' = T[k]
      BY <2>1, <3>2, <3>4
    <3> QED
      BY <1>1, <1>5, <2>1, <3>1, <3>2, <3>5 DEF Following
  <2>4. CASE ScriptEnd
    <3>1. UNCHANGED <<bp, currentLogEntry>>
      BY <2>4 DEF ScriptEnd
    <3> QED
      BY <1>1, <1>5, <2>1, <3>1 DEF Following
  <2> QED
    BY <2>3, <2>4
<1>9. ScriptFollowed'
  BY <1>1, <1>2, <1>8 DEF ScriptFollowed
<1> QED
  BY <1>3, <1>4, <1>6, <1>9 DEF RInv

\* What a run leaves: its log and bounds, or the bounds its script led to.
LEMMA FinishLoggingRInv == IInv /\ RInv /\ FinishLogging => RInv'
<1> SUFFICES ASSUME IInv, RInv, FinishLogging PROVE RInv'
  OBVIOUS
<1>1. /\ UNCHANGED <<problem, settings, bp, backedUpNodes, stack, script, currentLogEntry>>
      /\ pc = "finishLogging" /\ pc' \in {"dead", "exit"}
      /\ files' = IF settings.searchStrategy = "script"
                  THEN [files EXCEPT !.replayed = ValuesFile(script.index, Intervals)]
                  ELSE IF settings.useLogBackups
                  THEN [files EXCEPT !.log = LogOf(backedUpNodes),
                                     !.values = ValuesFile(Index(backedUpNodes), Intervals),
                                     !.replayed = <<>>]
                  ELSE files
  BY DEF FinishLogging, Quiet, searchVars
<1>2. pc' = "exit" /\ settings.searchStrategy = "script" => script.read
  BY DEF FinishLogging
<1>3. Fields \subseteq DOMAIN files
  BY DEF IInv, InPlace
<1>4. Intervals = IntervalsOf(problem, bp)
  BY DEF Intervals, IntervalsOf, LowerValues, UpperValues
<1>5. settings.searchStrategy \in {"rtdp", "script"} /\ problem \in Problem
  BY Strategies, ProblemsAssumption DEF IInv, InPlace, RInv, InStrategy
<1>6. InStrategy' /\ RunRecorded'
  BY <1>1 DEF RInv, InStrategy, RunRecorded
<1>7. CASE settings.searchStrategy = "script"
  <2>1. /\ files'.log = files.log /\ files'.values = files.values
        /\ files'.replayed = ValuesFile(script.index, Intervals)
    BY <1>1, <1>3, <1>7 DEF Fields
  <2>2. \A h, T : Logged(h, T) => Logged(h, T)'
    BY <1>1, <2>1 DEF Logged
  <2>3. LogKept'
    BY <2>1, <2>2 DEF RInv, LogKept
  <2>4. CASE script.read
    <3>1. PICK h, T : Following(h, T)
      BY <1>7, <2>4 DEF RInv, ScriptFollowed
    <3>2. currentLogEntry = Len(h) => files'.replayed = files'.values
      BY <1>4, <2>1, <3>1 DEF Following, Logged
    <3>3. Following(h, T)'
      BY <1>1, <2>2, <3>1, <3>2 DEF Following
    <3> QED
      BY <1>1, <1>6, <2>3, <2>4, <3>3 DEF RInv, ScriptFollowed
  <2>5. CASE ~script.read
    BY <1>1, <1>6, <2>3, <2>5 DEF RInv, ScriptFollowed
  <2> QED
    BY <2>4, <2>5
<1>8. CASE settings.searchStrategy = "rtdp" /\ settings.useLogBackups
  <2> DEFINE h == backedUpNodes
  <2>1. /\ files'.log = LogOf(h)
        /\ files'.values = ValuesFile(Index(h), IntervalsOf(problem, bp))
    BY <1>1, <1>3, <1>4, <1>8 DEF Fields
  <2>2. h \in Seq(Node)
    BY <1>8 DEF RInv, RunRecorded
  <2>3. \E T : Logged(h, T)'
    <3>1. CASE h = <<>>
      <4>1. PICK T : Execution(problem, <<>>, T)
        BY <1>5, EmptyExecution
      <4>2. \A v, w : ValuesFile(<<>>, v) = ValuesFile(<<>>, w)
        <5>1. DOMAIN <<>> = {}
          OBVIOUS
        <5> QED
          BY <5>1 DEF ValuesFile
      <4>3. files'.values = ValuesFile(Index(h), IntervalsOf(problem, T[Len(h)]))
        BY <2>1, <3>1, <4>2, EmptyIndex
      <4> QED
        BY <1>1, <2>1, <2>2, <3>1, <4>1, <4>3 DEF Logged
    <3>2. CASE h # <<>>
      <4>1. PICK T : Execution(problem, h, T) /\ bp = T[Len(h)]
        BY <1>8, <3>2 DEF RInv, RunRecorded
      <4> QED
        BY <1>1, <2>1, <2>2, <4>1 DEF Logged
    <3> QED
      BY <3>1, <3>2
  <2>4. LogKept'
    BY <2>3 DEF LogKept
  <2>5. ScriptFollowed'
    BY <1>1, <1>8 DEF ScriptFollowed
  <2> QED
    BY <1>6, <2>4, <2>5 DEF RInv
<1>9. CASE settings.searchStrategy = "rtdp" /\ ~settings.useLogBackups
  <2>1. files' = files
    BY <1>1, <1>9
  <2>2. \A h, T : Logged(h, T) => Logged(h, T)'
    BY <1>1, <2>1 DEF Logged
  <2>3. LogKept'
    BY <2>1, <2>2 DEF RInv, LogKept
  <2>4. ScriptFollowed'
    BY <1>1, <1>9 DEF ScriptFollowed
  <2> QED
    BY <1>6, <2>3, <2>4 DEF RInv
<1> QED
  BY <1>5, <1>7, <1>8, <1>9

LEMMA SearchRInv == IInv /\ RInv /\ Search => RInv'
<1> SUFFICES ASSUME IInv, RInv, Search PROVE RInv'
  OBVIOUS
<1>1. UNCHANGED <<problem, settings, files>>
  BY DEF Search, Quiet, commandVars
<1> QED
  BY <1>1, TrialRInv, StartScriptRInv, ScriptRInv DEF Search, CallSolver, SearchStep

LEMMA NextRInv == IInv /\ RInv /\ [Next]_vars => RInv'
<1> SUFFICES ASSUME IInv, RInv, [Next]_vars PROVE RInv'
  OBVIOUS
<1>1. CASE UNCHANGED vars
  <2>1. /\ UNCHANGED <<problem, settings, bp, backedUpNodes, stack, script, currentLogEntry>>
        /\ UNCHANGED <<files, pc>>
    BY <1>1 DEF vars, searchVars, commandVars
  <2> QED
    BY <2>1, ElsewhereRInv
<1>2. CASE Next
  BY <1>2, CommandStepRInv, SearchRInv, FinishLoggingRInv, NextCommandRInv DEF Next, Run
<1> QED
  BY <1>1, <1>2

\* Whatever was logged, in however many trials, and wherever the user pressed
\* ctrl-C: a scripted updater that comes to the end of its script has the bounds
\* with which the logged run ended, at every state that run backed up.
THEOREM ReplayIsExact == Spec => []ReplayExact
<1>1. RInv => ReplayExact
  <2> SUFFICES ASSUME RInv, settings.searchStrategy = "script", script.read, pc = "exit",
                      currentLogEntry = Len(script.entries)
               PROVE  files.replayed = files.values
    BY DEF ReplayExact
  <2>1. PICK h, T : Following(h, T)
    BY DEF RInv, ScriptFollowed
  <2>2. Len(Ids(h)) = Len(h)
    BY <2>1, LogOfProperties DEF Following, Logged
  <2> QED
    BY <2>1, <2>2 DEF Following
<1>2. Spec => [](IInv /\ RInv)
  <2>1. IInv /\ RInv /\ [Next]_vars => (IInv /\ RInv)'
    BY NextIInv, NextRInv
  <2> QED
    BY <2>1, InitIInv, InitRInv, PTL DEF Spec
<1> QED
  BY <1>1, <1>2, PTL
-----------------------------------------------------------------------------
\* The matrices that the Cassandra parser fills while a model file is read: for
\* each row a list of nodes.

Matrix == INSTANCE SparseMatrix

RowNode == [column : Nat, value : Int \ {0}]

\* "The list always remains sorted by column number", has no zeros, and the
\* count is its length (sparse-matrix.c:105-187).
RowInOrder(row) ==
  /\ row.nodes \in Seq(RowNode)
  /\ \A i, j \in DOMAIN row.nodes : i < j => row.nodes[i].column < row.nodes[j].column
  /\ row.length = Len(row.nodes)
  /\ row = [nodes |-> row.nodes, length |-> row.length]

\* The row has value v in column c: that of the column's node, or 0.
HasEntry(row, c, v) ==
  \/ \E i \in DOMAIN row.nodes : row.nodes[i].column = c /\ row.nodes[i].value = v
  \/ (\A i \in DOMAIN row.nodes : row.nodes[i].column # c) /\ v = 0

\* The part of a list before place k, and the part from there on.
LEMMA PartsOf ==
  ASSUME NEW S, NEW st \in Seq(S), NEW n \in Nat, Len(st) = n, NEW k \in 1 .. n + 1
  PROVE  /\ SubSeq(st, 1, k - 1) \in Seq(S) /\ Len(SubSeq(st, 1, k - 1)) = k - 1
         /\ \A i \in 1 .. k - 1 : SubSeq(st, 1, k - 1)[i] = st[i]
         /\ SubSeq(st, k, n) \in Seq(S) /\ Len(SubSeq(st, k, n)) = n + 1 - k
         /\ \A i \in 1 .. n + 1 - k : SubSeq(st, k, n)[i] = st[k - 1 + i]
<1>1. \A i \in 1 .. n : st[i] \in S
  OBVIOUS
<1>2. PICK m \in 0 .. n : m = k - 1
  OBVIOUS
<1>3. /\ SubSeq(st, 1, m) \in Seq(S)
      /\ Len(SubSeq(st, 1, m)) = m
      /\ \A i \in 1 .. m : SubSeq(st, 1, m)[i] = st[i]
  <2>1. \A i \in 1 .. m : st[i] \in S
    BY <1>1
  <2>2. /\ SubSeq(st, 1, m) \in Seq(S)
        /\ Len(SubSeq(st, 1, m)) = IF 1 <= m THEN m - 1 + 1 ELSE 0
        /\ \A i \in 1 .. m - 1 + 1 : SubSeq(st, 1, m)[i] = st[1 + i - 1]
    BY <2>1, SubSeqProperties
  <2>3. (IF 1 <= m THEN m - 1 + 1 ELSE 0) = m /\ m - 1 + 1 = m
    OBVIOUS
  <2>4. \A i \in 1 .. m : 1 + i - 1 = i
    OBVIOUS
  <2> QED
    BY <2>2, <2>3, <2>4
<1>4. /\ SubSeq(st, k, n) \in Seq(S)
      /\ Len(SubSeq(st, k, n)) = n + 1 - k
      /\ \A i \in 1 .. n + 1 - k : SubSeq(st, k, n)[i] = st[k - 1 + i]
  <2>1. \A i \in k .. n : st[i] \in S
    BY <1>1
  <2>2. /\ SubSeq(st, k, n) \in Seq(S)
        /\ Len(SubSeq(st, k, n)) = IF k <= n THEN n - k + 1 ELSE 0
        /\ \A i \in 1 .. n - k + 1 : SubSeq(st, k, n)[i] = st[k + i - 1]
    BY <2>1, SubSeqProperties
  <2>3. (IF k <= n THEN n - k + 1 ELSE 0) = n + 1 - k /\ n - k + 1 = n + 1 - k
    OBVIOUS
  <2>4. \A i \in 1 .. n + 1 - k : k + i - 1 = k - 1 + i
    OBVIOUS
  <2> QED
    BY <2>2, <2>3, <2>4
<1> QED
  BY <1>2, <1>3, <1>4

\* List t is list st of length n with e at place k, the rest moved by one.
IsWith(t, S, st, n, k, e) ==
  /\ t \in Seq(S) /\ Len(t) = n + 1
  /\ \A i \in 1 .. k - 1 : t[i] = st[i]
  /\ t[k] = e
  /\ \A i \in k .. n : t[i + 1] = st[i]

\* List t is list st of length n without what was at place k.
IsWithout(t, S, st, n, k) ==
  /\ t \in Seq(S) /\ Len(t) = n - 1
  /\ \A i \in 1 .. k - 1 : t[i] = st[i]
  /\ \A i \in k .. n - 1 : t[i] = st[i + 1]

LEMMA InsertAtPlaces ==
  ASSUME NEW S, NEW st \in Seq(S), NEW n \in Nat, Len(st) = n, NEW k \in 1 .. n + 1, NEW e \in S
  PROVE  IsWith(Matrix!InsertAt(st, k, e), S, st, n, k, e)
<1> DEFINE t == Matrix!InsertAt(st, k, e)
<1>1. PICK a \in Nat, b \in Nat : a = k - 1 /\ b = n + 1 - k
  OBVIOUS
<1> DEFINE f == SubSeq(st, 1, k - 1)
           g == SubSeq(st, k, n)
           o == <<e>>
<1>2. /\ f \in Seq(S) /\ Len(f) = a /\ \A i \in 1 .. a : f[i] = st[i]
      /\ g \in Seq(S) /\ Len(g) = b /\ \A i \in 1 .. b : g[i] = st[a + i]
  BY <1>1, PartsOf
<1>3. t = (f \o o) \o g
  BY DEF Matrix!InsertAt
<1> HIDE DEF f, g, o, t
<1>4. f \in Seq(S) /\ Len(f) = a /\ g \in Seq(S) /\ Len(g) = b
  BY <1>2
<1>5. PICK h : h = Append(f, e)
  OBVIOUS
<1>6. h = f \o o
  BY <1>5, <1>4, AppendIsConcat DEF o
<1>7. t = h \o g
  BY <1>3, <1>6
<1>8. h \in Seq(S) /\ Len(h) = a + 1 /\ h[a + 1] = e /\ \A i \in 1 .. a : h[i] = f[i]
  <2>1. h \in Seq(S) /\ Len(h) = a + 1
    BY <1>5, <1>4, AppendProperties
  <2>2. h[a + 1] = e
    BY <1>5, <1>4, AppendProperties
  <2>3. \A i \in 1 .. a : h[i] = f[i]
    BY <1>5, <1>4, AppendProperties
  <2> QED
    BY <2>1, <2>2, <2>3
<1>9. PICK c \in Nat : c = a + 1
  OBVIOUS
<1>10. /\ t \in Seq(S) /\ Len(t) = c + b
       /\ \A i \in 1 .. c : t[i] = h[i]
       /\ \A i \in 1 .. b : t[c + i] = g[i]
  <2>1. h \in Seq(S) /\ Len(h) = c
    BY <1>8, <1>9
  <2>2. t \in Seq(S)
    BY <1>4, <2>1, <1>7
  <2>3. Len(t) = c + b
    BY <1>4, <2>1, <1>7, ConcatProperties
  <2>4. \A i \in 1 .. c : t[i] = h[i]
    BY <1>4, <2>1, <1>7
  <2>5. \A i \in 1 .. b : t[c + i] = g[i]
    BY <1>4, <2>1, <1>7
  <2> QED
    BY <2>2, <2>3, <2>4, <2>5
<1>11. c + b = n + 1 /\ c = k
  BY <1>1, <1>9
<1>12. \A i \in 1 .. k - 1 : t[i] = st[i]
  BY <1>1, <1>2, <1>8, <1>9, <1>10
<1>13. t[k] = e
  <2>1. k \in 1 .. c /\ k = a + 1
    BY <1>1, <1>9
  <2> QED
    BY <1>8, <1>10, <2>1
<1>14. ASSUME NEW i \in k .. n PROVE t[i + 1] = st[i]
  <2>1. PICK j \in 1 .. b : j = i + 1 - k
    BY <1>1
  <2>2. c + j = i + 1 /\ a + j = i
    BY <1>1, <1>9, <2>1
  <2>3. t[c + j] = g[j]
    BY <1>10
  <2>4. g[j] = st[a + j]
    BY <1>2
  <2> QED
    BY <2>2, <2>3, <2>4
<1> QED
  BY <1>10, <1>11, <1>12, <1>13, <1>14 DEF IsWith, t

LEMMA RemoveAtPlaces ==
  ASSUME NEW S, NEW st \in Seq(S), NEW n \in Nat, Len(st) = n, NEW k \in 1 .. n
  PROVE  IsWithout(Matrix!RemoveAt(st, k), S, st, n, k)
<1> DEFINE t == Matrix!RemoveAt(st, k)
<1>1. PICK a \in Nat, b \in Nat, m \in 1 .. n + 1 : a = k - 1 /\ b = n - k /\ m = k + 1
  OBVIOUS
<1> DEFINE f == SubSeq(st, 1, k - 1)
           g == SubSeq(st, k + 1, n)
<1>2. f \in Seq(S) /\ Len(f) = a /\ \A i \in 1 .. a : f[i] = st[i]
  <2>1. k \in 1 .. n + 1
    OBVIOUS
  <2> QED
    BY <1>1, <2>1, PartsOf
<1>3. g \in Seq(S) /\ Len(g) = b /\ \A i \in 1 .. b : g[i] = st[k + i]
  <2>1. /\ SubSeq(st, m, n) \in Seq(S) /\ Len(SubSeq(st, m, n)) = n + 1 - m
        /\ \A i \in 1 .. n + 1 - m : SubSeq(st, m, n)[i] = st[m - 1 + i]
    BY PartsOf
  <2>2. n + 1 - m = b /\ m - 1 = k
    BY <1>1
  <2> QED
    BY <1>1, <2>1, <2>2
<1>4. t = f \o g
  BY DEF Matrix!RemoveAt
<1> HIDE DEF f, g, t
<1>5. f \in Seq(S) /\ Len(f) = a /\ g \in Seq(S) /\ Len(g) = b
  BY <1>2, <1>3
<1>6. /\ t \in Seq(S) /\ Len(t) = a + b
      /\ \A i \in 1 .. a : t[i] = f[i]
      /\ \A i \in 1 .. b : t[a + i] = g[i]
  <2>1. t \in Seq(S)
    BY <1>5, <1>4
  <2>2. Len(t) = a + b
    BY <1>5, <1>4, ConcatProperties
  <2>3. \A i \in 1 .. a : t[i] = f[i]
    BY <1>5, <1>4
  <2>4. \A i \in 1 .. b : t[a + i] = g[i]
    BY <1>5, <1>4
  <2> QED
    BY <2>1, <2>2, <2>3, <2>4
<1>7. a + b = n - 1
  BY <1>1
<1>8. ASSUME NEW i \in k .. n - 1 PROVE t[i] = st[i + 1]
  <2>1. PICK j \in 1 .. b : j = i + 1 - k
    BY <1>1
  <2>2. a + j = i /\ k + j = i + 1
    BY <1>1, <2>1
  <2>3. t[a + j] = g[j]
    BY <1>6
  <2>4. g[j] = st[k + j]
    BY <1>3
  <2> QED
    BY <2>2, <2>3, <2>4
<1> QED
  BY <1>1, <1>2, <1>6, <1>7, <1>8 DEF IsWithout, t

\* Where the loop over the nodes stops.
LEMMA StopProperties ==
  ASSUME NEW row, RowInOrder(row), NEW c \in Nat, NEW n \in Nat, Len(row.nodes) = n
  PROVE  LET k == Matrix!Stop(row.nodes, c)
         IN  /\ k \in 1 .. n + 1
             /\ \A i \in 1 .. k - 1 : row.nodes[i].column < c
             /\ k <= n => row.nodes[k].column >= c
             /\ \A i \in k + 1 .. n : row.nodes[i].column > c
<1> DEFINE D == {i \in DOMAIN row.nodes : row.nodes[i].column >= c} \cup {n + 1}
<1>1. /\ DOMAIN row.nodes = 1 .. n
      /\ \A i \in 1 .. n : row.nodes[i].column \in Nat
  <2>1. PICK st : st = row.nodes
    OBVIOUS
  <2>2. st \in Seq(RowNode) /\ Len(st) = n
    BY <2>1 DEF RowInOrder
  <2>3. DOMAIN st = 1 .. n /\ \A i \in 1 .. n : st[i] \in RowNode
    BY <2>2
  <2> QED
    BY <2>1, <2>3 DEF RowNode
<1>2. D \in SUBSET (1 .. n + 1) /\ n + 1 \in D
  BY <1>1
<1>3. PICK k : k = Matrix!Stop(row.nodes, c) /\ k = Matrix!Min(D)
  BY DEF Matrix!Stop
<1>4. \A i \in 1 .. n : i \in D <=> row.nodes[i].column >= c
  BY <1>1
<1> HIDE DEF D
<1>5. \E m \in D : \A i \in D : m <= i
  <2>1. D \in SUBSET Nat /\ D # {}
    BY <1>2
  <2> QED
    BY <2>1, LeastNatural
<1>6. k \in D /\ \A i \in D : k <= i
  BY <1>3, <1>5 DEF Matrix!Min
<1>7. k \in 1 .. n + 1
  BY <1>2, <1>6
<1>8. ASSUME NEW i \in 1 .. k - 1 PROVE row.nodes[i].column < c
  <2>1. i \in 1 .. n /\ ~(k <= i)
    BY <1>7
  <2> QED
    BY <1>1, <1>4, <1>6, <2>1
<1>9. ASSUME k <= n PROVE row.nodes[k].column >= c
  BY <1>4, <1>6, <1>7, <1>9
<1>10. ASSUME NEW i \in k + 1 .. n PROVE row.nodes[i].column > c
  <2>1. k \in 1 .. n /\ i \in 1 .. n /\ k < i
    BY <1>7
  <2>2. row.nodes[k].column < row.nodes[i].column
    BY <1>1, <2>1 DEF RowInOrder
  <2> QED
    BY <1>1, <1>9, <2>1, <2>2
<1> QED
  BY <1>3, <1>7, <1>8, <1>9, <1>10

LEMMA RemoveRowNodeInOrder ==
  ASSUME NEW row, RowInOrder(row), NEW c \in Nat
  PROVE  LET new == Matrix!removeRowNode(row, c)
         IN  /\ RowInOrder(new)
             /\ HasEntry(new, c, 0)
             /\ \A d \in Nat \ {c}, v \in Int : HasEntry(row, d, v) => HasEntry(new, d, v)
<1>1. PICK st \in Seq(RowNode), n \in Nat : st = row.nodes /\ n = Len(st) /\ row.length = n
  BY DEF RowInOrder
<1>2. DOMAIN st = 1 .. n /\ \A i \in 1 .. n : st[i] \in RowNode
  BY <1>1
<1>3. \A i, j \in 1 .. n : i < j => st[i].column < st[j].column
  BY <1>1, <1>2 DEF RowInOrder
<1>4. \A i \in 1 .. n : st[i].column \in Nat /\ st[i].value \in Int \ {0}
  BY <1>2 DEF RowNode
<1> DEFINE at == {i \in DOMAIN st : st[i].column = c}
           new == Matrix!removeRowNode(row, c)
<1>5. CASE at = {}
  <2>1. new = row
    BY <1>1, <1>5 DEF Matrix!removeRowNode
  <2>2. HasEntry(row, c, 0)
    BY <1>1, <1>5 DEF HasEntry
  <2> QED
    BY <2>1, <2>2
<1>6. CASE at # {}
  <2>1. PICK k \in 1 .. n : st[k].column = c
    BY <1>2, <1>6
  <2>2. \A i \in 1 .. n : i # k => st[i].column # c
    <3> SUFFICES ASSUME NEW i \in 1 .. n, i # k PROVE st[i].column # c
      OBVIOUS
    <3>1. CASE i < k
      BY <1>3, <1>4, <2>1, <3>1
    <3>2. CASE k < i
      BY <1>3, <1>4, <2>1, <3>2
    <3> QED
      BY <3>1, <3>2
  <2>3. at = {k}
    BY <1>2, <2>1, <2>2
  <2>4. Matrix!Min(at) = k
    BY <2>3 DEF Matrix!Min
  <2>5. PICK t : t = Matrix!RemoveAt(st, k)
    OBVIOUS
  <2>6. new = [nodes |-> t, length |-> n - 1]
    BY <1>1, <1>6, <2>4, <2>5 DEF Matrix!removeRowNode
  <2>7. /\ t \in Seq(RowNode) /\ Len(t) = n - 1
        /\ \A i \in 1 .. k - 1 : t[i] = st[i]
        /\ \A i \in k .. n - 1 : t[i] = st[i + 1]
    <3>1. IsWithout(t, RowNode, st, n, k)
      BY <1>1, <2>5, RemoveAtPlaces
    <3> QED
      BY <3>1 DEF IsWithout
  <2>8. PICK p : p = [i \in 1 .. n - 1 |-> IF i < k THEN i ELSE i + 1]
    OBVIOUS
  <2>9. \A i \in 1 .. n - 1 : p[i] \in 1 .. n /\ p[i] = IF i < k THEN i ELSE i + 1
    BY <2>8
  <2>10. \A i \in 1 .. n - 1 : t[i] = st[p[i]] /\ p[i] # k
    <3> SUFFICES ASSUME NEW i \in 1 .. n - 1 PROVE t[i] = st[p[i]] /\ p[i] # k
      OBVIOUS
    <3>1. CASE i < k
      BY <2>7, <2>9, <3>1
    <3>2. CASE i >= k
      BY <2>7, <2>9, <3>2
    <3> QED
      BY <3>1, <3>2
  <2>11. \A i, j \in 1 .. n - 1 : i < j => p[i] < p[j]
    BY <2>9
  <2>12. DOMAIN t = 1 .. n - 1
    BY <2>7
  <2>13. RowInOrder(new)
    <3>1. ASSUME NEW i \in 1 .. n - 1, NEW j \in 1 .. n - 1, i < j
          PROVE  t[i].column < t[j].column
      BY <1>3, <2>10, <2>11, <2>9, <3>1
    <3>2. new.nodes = t /\ new.length = n - 1
      BY <2>6
    <3> QED
      BY <2>6, <2>7, <2>12, <3>1, <3>2 DEF RowInOrder
  <2>14. HasEntry(new, c, 0)
    <3>1. \A i \in 1 .. n - 1 : t[i].column # c
      BY <2>2, <2>10, <2>9
    <3>2. new.nodes = t
      BY <2>6
    <3> QED
      BY <2>12, <3>1, <3>2 DEF HasEntry
  <2>15. ASSUME NEW d \in Nat \ {c}, NEW v \in Int, HasEntry(row, d, v)
         PROVE  HasEntry(new, d, v)
    <3>1. CASE \E i \in 1 .. n : st[i].column = d /\ st[i].value = v
      <4>1. PICK i \in 1 .. n : st[i].column = d /\ st[i].value = v
        BY <3>1
      <4>2. i # k
        BY <2>1, <4>1
      <4>3. PICK j \in 1 .. n - 1 : p[j] = i
        <5>1. CASE i < k
          <6>1. i \in 1 .. n - 1 /\ p[i] = i
            BY <2>9, <5>1
          <6> QED
            BY <6>1
        <5>2. CASE i > k
          <6>1. i - 1 \in 1 .. n - 1 /\ p[i - 1] = i
            BY <2>9, <5>2
          <6> QED
            BY <6>1
        <5> QED
          BY <4>2, <5>1, <5>2
      <4>4. t[j].column = d /\ t[j].value = v
        BY <2>10, <4>1, <4>3
      <4> QED
        BY <2>6, <2>12, <4>4 DEF HasEntry
    <3>2. CASE (\A i \in 1 .. n : st[i].column # d) /\ v = 0
      <4>1. \A i \in 1 .. n - 1 : t[i].column # d
        BY <2>10, <2>9, <3>2
      <4> QED
        BY <2>6, <2>12, <3>2, <4>1 DEF HasEntry
    <3> QED
      BY <1>1, <1>2, <2>15, <3>1, <3>2 DEF HasEntry
  <2> QED
    BY <2>13, <2>14, <2>15
<1> QED
  BY <1>5, <1>6

\* addEntryToRow keeps a row sorted by column and without zeros, whatever the
\* value, which may be 0 and may replace another one; the row then has the value
\* in the column, and the other columns are as they were
\* (sparse-matrix.c:105-187).
THEOREM RowStaysInOrder ==
  ASSUME NEW row, RowInOrder(row), NEW col \in Nat, NEW value \in Int
  PROVE  LET new == Matrix!addEntryToRow(row, col, value)
         IN  /\ RowInOrder(new)
             /\ HasEntry(new, col, value)
             /\ \A d \in Nat \ {col}, v \in Int : HasEntry(row, d, v) => HasEntry(new, d, v)
<1> DEFINE new == Matrix!addEntryToRow(row, col, value)
<1>1. PICK st \in Seq(RowNode), n \in Nat : st = row.nodes /\ n = Len(st) /\ row.length = n
  BY DEF RowInOrder
<1>2. DOMAIN st = 1 .. n /\ \A i \in 1 .. n : st[i] \in RowNode
  BY <1>1
<1>3. \A i, j \in 1 .. n : i < j => st[i].column < st[j].column
  BY <1>1, <1>2 DEF RowInOrder
<1>4. \A i \in 1 .. n : st[i].column \in Nat /\ st[i].value \in Int \ {0}
  BY <1>2 DEF RowNode
<1>5. PICK k : k = Matrix!Stop(st, col)
  OBVIOUS
<1>6. /\ k \in 1 .. n + 1
      /\ \A i \in 1 .. k - 1 : st[i].column < col
      /\ k <= n => st[k].column >= col
      /\ \A i \in k + 1 .. n : st[i].column > col
  BY <1>1, <1>5, StopProperties
<1>7. PICK node : node = [column |-> col, value |-> value]
  OBVIOUS
<1>8. node.column = col /\ node.value = value /\ (value # 0 => node \in RowNode)
  BY <1>7 DEF RowNode
<1>9. CASE value = 0
  <2>1. new = Matrix!removeRowNode(row, col)
    BY <1>9 DEF Matrix!addEntryToRow
  <2> QED
    BY <1>9, <2>1, RemoveRowNodeInOrder
<1>10. CASE value # 0 /\ k <= n /\ st[k].column = col
  <2>1. PICK t : t = [st EXCEPT ![k] = node]
    OBVIOUS
  <2>2. new = [nodes |-> t, length |-> n]
    <3>1. new = [row EXCEPT !.nodes[k] = node]
      BY <1>1, <1>5, <1>7, <1>10 DEF Matrix!addEntryToRow
    <3>2. row = [nodes |-> st, length |-> n]
      BY <1>1 DEF RowInOrder
    <3> QED
      BY <2>1, <3>1, <3>2
  <2>3. /\ t \in Seq(RowNode) /\ Len(t) = n /\ DOMAIN t = 1 .. n
        /\ t[k] = node /\ \A i \in 1 .. n : i # k => t[i] = st[i]
    BY <1>1, <1>2, <1>6, <1>8, <1>10, <2>1
  <2>4. \A i \in 1 .. n : t[i].column = st[i].column
    BY <1>8, <1>10, <2>3
  <2>5. new.nodes = t /\ new.length = n
    BY <2>2
  <2>6. RowInOrder(new)
    BY <1>3, <2>2, <2>3, <2>4, <2>5 DEF RowInOrder
  <2>7. HasEntry(new, col, value)
    BY <1>6, <1>8, <1>10, <2>3, <2>5 DEF HasEntry
  <2>8. ASSUME NEW d \in Nat \ {col}, NEW v \in Int, HasEntry(row, d, v)
        PROVE  HasEntry(new, d, v)
    <3>1. CASE \E i \in 1 .. n : st[i].column = d /\ st[i].value = v
      <4>1. PICK i \in 1 .. n : st[i].column = d /\ st[i].value = v
        BY <3>1
      <4>2. t[i] = st[i]
        BY <1>10, <2>3, <4>1
      <4> QED
        BY <2>3, <2>5, <4>1, <4>2 DEF HasEntry
    <3>2. CASE (\A i \in 1 .. n : st[i].column # d) /\ v = 0
      BY <2>3, <2>4, <2>5, <3>2 DEF HasEntry
    <3> QED
      BY <1>1, <1>2, <2>8, <3>1, <3>2 DEF HasEntry
  <2> QED
    BY <2>6, <2>7, <2>8
<1>11. CASE value # 0 /\ ~(k <= n /\ st[k].column = col)
  <2>1. PICK t : t = Matrix!InsertAt(st, k, node)
    OBVIOUS
  <2>2. new = [nodes |-> t, length |-> n + 1]
    BY <1>1, <1>5, <1>7, <1>11, <2>1 DEF Matrix!addEntryToRow
  <2>3. IsWith(t, RowNode, st, n, k, node)
    BY <1>1, <1>6, <1>8, <1>11, <2>1, InsertAtPlaces
  <2>4. /\ t \in Seq(RowNode) /\ Len(t) = n + 1 /\ DOMAIN t = 1 .. n + 1
        /\ \A i \in 1 .. k - 1 : t[i] = st[i]
        /\ t[k] = node
    BY <2>3 DEF IsWith
  <2>5. \A i \in k + 1 .. n + 1 : i - 1 \in k .. n /\ t[i] = st[i - 1]
    <3> SUFFICES ASSUME NEW i \in k + 1 .. n + 1 PROVE i - 1 \in k .. n /\ t[i] = st[i - 1]
      OBVIOUS
    <3>1. PICK j \in k .. n : j = i - 1 /\ j + 1 = i
      BY <1>6
    <3> QED
      BY <2>3, <3>1 DEF IsWith
  <2>6. \A i \in k .. n : st[i].column > col
    BY <1>4, <1>6, <1>11
  <2>7. new.nodes = t /\ new.length = n + 1
    BY <2>2
  <2>8. ASSUME NEW i \in 1 .. n + 1, NEW j \in 1 .. n + 1, i < j
        PROVE  t[i].column < t[j].column
    <3>1. CASE j < k
      BY <1>3, <1>6, <2>4, <2>8, <3>1
    <3>2. CASE j = k
      BY <1>6, <1>8, <2>4, <2>8, <3>2
    <3>3. CASE k < j /\ i < k
      <4>1. t[j] = st[j - 1] /\ j - 1 \in 1 .. n /\ i < j - 1
        BY <1>6, <2>5, <3>3
      <4>2. t[i] = st[i] /\ i \in 1 .. n
        BY <1>6, <2>4, <3>3
      <4> QED
        BY <1>3, <4>1, <4>2
    <3>4. CASE k < j /\ i = k
      <4>1. t[j] = st[j - 1] /\ j - 1 \in k .. n
        BY <1>6, <2>5, <3>4
      <4> QED
        BY <1>8, <2>4, <2>6, <3>4, <4>1, <1>4, <1>6
    <3>5. CASE k < j /\ k < i
      <4>1. t[j] = st[j - 1] /\ j - 1 \in 1 .. n /\ t[i] = st[i - 1] /\ i - 1 \in 1 .. n
        BY <1>6, <2>5, <3>5
      <4> QED
        BY <1>3, <2>8, <4>1
    <3> QED
      BY <1>6, <3>1, <3>2, <3>3, <3>4, <3>5
  <2>9. RowInOrder(new)
    BY <2>2, <2>4, <2>7, <2>8 DEF RowInOrder
  <2>10. HasEntry(new, col, value)
    BY <1>6, <1>8, <2>4, <2>7 DEF HasEntry
  <2>11. ASSUME NEW d \in Nat \ {col}, NEW v \in Int, HasEntry(row, d, v)
         PROVE  HasEntry(new, d, v)
    <3>1. CASE \E i \in 1 .. n : st[i].column = d /\ st[i].value = v
      <4>1. PICK i \in 1 .. n : st[i].column = d /\ st[i].value = v
        BY <3>1
      <4>2. CASE i < k
        <5>1. i \in 1 .. n + 1 /\ t[i] = st[i]
          BY <1>6, <2>4, <4>2
        <5> QED
          BY <2>4, <2>7, <4>1, <5>1 DEF HasEntry
      <4>3. CASE k <= i
        <5>1. i + 1 \in 1 .. n + 1 /\ t[i + 1] = st[i]
          BY <1>6, <2>3, <4>3 DEF IsWith
        <5> QED
          BY <2>4, <2>7, <4>1, <5>1 DEF HasEntry
      <4> QED
        BY <1>6, <4>2, <4>3
    <3>2. CASE (\A i \in 1 .. n : st[i].column # d) /\ v = 0
      <4> SUFFICES ASSUME NEW i \in 1 .. n + 1 PROVE t[i].column # d
        BY <2>4, <2>7, <3>2 DEF HasEntry
      <4>1. CASE i < k
        BY <1>6, <2>4, <3>2, <4>1
      <4>2. CASE i = k
        BY <1>8, <2>4, <4>2
      <4>3. CASE k < i
        BY <1>6, <2>5, <3>2, <4>3
      <4> QED
        BY <1>6, <4>1, <4>2, <4>3
    <3> QED
      BY <1>1, <1>2, <2>11, <3>1, <3>2 DEF HasEntry
  <2> QED
    BY <2>9, <2>10, <2>11
<1> QED
  BY <1>9, <1>10, <1>11

MatrixInOrder(im) ==
  im = [r \in DOMAIN im |-> im[r]] /\ \A r \in DOMAIN im : RowInOrder(im[r])

LEMMA NewMatrixInOrder ==
  ASSUME NEW n \in Nat
  PROVE  MatrixInOrder(Matrix!newIMatrix(n))
<1>1. PICK empty : empty = [nodes |-> <<>>, length |-> 0]
  OBVIOUS
<1>2. Matrix!newIMatrix(n) = [r \in 0 .. n - 1 |-> empty]
  BY <1>1 DEF Matrix!newIMatrix
<1>3. RowInOrder(empty)
  <2>1. empty.nodes = <<>> /\ empty.length = 0
    BY <1>1
  <2>2. <<>> \in Seq(RowNode) /\ Len(<<>>) = 0 /\ DOMAIN <<>> = {}
    OBVIOUS
  <2> QED
    BY <1>1, <2>1, <2>2 DEF RowInOrder
<1> QED
  BY <1>2, <1>3 DEF MatrixInOrder

\* The intermediate matrix of the parser, whatever is entered and in whatever
\* order (sparse-matrix.c:105-237): its rows stay sorted and free of zeros, the
\* place that is entered has the new value, be it 0, and no other place changes.
THEOREM MatrixStaysInOrder ==
  ASSUME NEW im, MatrixInOrder(im),
         NEW row \in DOMAIN im, NEW col \in Nat, NEW value \in Int
  PROVE  LET new == Matrix!addEntryToIMatrix(im, row, col, value)
         IN  /\ DOMAIN new = DOMAIN im
             /\ MatrixInOrder(new)
             /\ HasEntry(new[row], col, value)
             /\ \A r \in DOMAIN im, c \in Nat, v \in Int :
                  <<r, c>> # <<row, col>> /\ HasEntry(im[r], c, v) => HasEntry(new[r], c, v)
<1> DEFINE new == Matrix!addEntryToIMatrix(im, row, col, value)
           to == Matrix!addEntryToRow(im[row], col, value)
<1>1. RowInOrder(im[row])
  BY DEF MatrixInOrder
<1>2. /\ RowInOrder(to) /\ HasEntry(to, col, value)
      /\ \A d \in Nat \ {col}, v \in Int : HasEntry(im[row], d, v) => HasEntry(to, d, v)
  BY <1>1, RowStaysInOrder
<1>3. new = [im EXCEPT ![row] = to]
  BY DEF Matrix!addEntryToIMatrix
<1> HIDE DEF new, to
<1>4. /\ new = [r \in DOMAIN im |-> new[r]] /\ DOMAIN new = DOMAIN im
      /\ new[row] = to /\ \A r \in DOMAIN im : r # row => new[r] = im[r]
  BY <1>3
<1>5. MatrixInOrder(new)
  BY <1>2, <1>4 DEF MatrixInOrder
<1>6. ASSUME NEW r \in DOMAIN im, NEW c \in Nat, NEW v \in Int,
             <<r, c>> # <<row, col>>, HasEntry(im[r], c, v)
      PROVE  HasEntry(new[r], c, v)
  <2>1. CASE r = row
    <3>1. c \in Nat \ {col}
      BY <1>6, <2>1
    <3> QED
      BY <1>2, <1>4, <1>6, <2>1, <3>1
  <2>2. CASE r # row
    BY <1>4, <1>6, <2>2
  <2> QED
    BY <2>1, <2>2
<1> QED
  BY <1>2, <1>4, <1>5, <1>6 DEF new
=============================================================================
