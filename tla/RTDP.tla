-------------------------------- MODULE RTDP --------------------------------
(***************************************************************************)
(* What all search strategies share (search/RTDPCore.cc: one trial per     *)
(* call, the limit on backups, the log of backups) with the two strategies *)
(* that keep no marks on nodes: RTDP, whose trials follow the best action  *)
(* and a sampled outcome to a terminal state, and ScriptedUpdater, which   *)
(* repeats the backups of a log.                                           *)
(***************************************************************************)
EXTENDS BoundPair, StateLog

CONSTANTS
  MaxRepeats,  \* bound on the detours of a trial, see MaySample
  MaxBackups   \* numBackups is counted up to here

ASSUME RTDPAssumption == {MaxRepeats, MaxBackups} \subseteq Nat

VARIABLES
  problem,          \* the problem, read from a file
  settings,         \* the settings of the command that runs
  bp,               \* the bounds
  numBackups,       \* updates so far, up to MaxBackups
  backedUpNodes,    \* the nodes updated so far, when a log is wanted
  stack,            \* nodes of the active calls of trialRecurse, root first
  script,           \* the log being repeated
  currentLogEntry,  \* how many of its entries have been done
  firstInTrial,     \* no entry has been done in this trial
  done,             \* what planFixedTime returned
  pc

searchVars == <<bp, numBackups, backedUpNodes, stack, script, currentLogEntry,
                firstInTrial, done>>

NoScript == [read |-> FALSE, index |-> <<>>, entries |-> <<>>]

\* A solver just made.
SearchInit ==
  /\ bp = EmptyTable
  /\ numBackups = 0
  /\ backedUpNodes = <<>>
  /\ stack = <<>>
  /\ script = NoScript
  /\ currentLogEntry = 0
  /\ firstInTrial = TRUE
  /\ done = FALSE

ResetSearch ==
  /\ bp' = EmptyTable
  /\ numBackups' = 0
  /\ backedUpNodes' = <<>>
  /\ stack' = <<>>
  /\ script' = NoScript
  /\ currentLogEntry' = 0
  /\ firstInTrial' = TRUE
  /\ done' = FALSE

\* Mutant of TrackBackup: the log misses the second update of a node in a row.
TrackBackupOnce(s) ==
  backedUpNodes' = IF settings.useLogBackups /\ s \notin ToSet(backedUpNodes)
                   THEN Append(backedUpNodes, s) ELSE backedUpNodes

TrackBackup(s) ==
  backedUpNodes' = IF settings.useLogBackups
                   THEN Append(backedUpNodes, s) ELSE backedUpNodes

\* bounds->update and trackBackup.
BackUp(s) ==
  /\ bp' = Update(problem, GetNodes(problem, bp, {s}), s)
  /\ numBackups' = IF numBackups < MaxBackups THEN numBackups + 1 ELSE numBackups
  /\ TrackBackup(s)

\* planFixedTime returns once doTrial has returned result.
ReturnPlan(result) ==
  /\ done' = (result \/ numBackups' >= settings.terminateNumBackups)
  /\ pc' = "planned"

-----------------------------------------------------------------------------
\* planFixedTime calls doTrial on the root.
StartTrial ==
  /\ pc = "planFixedTime"
  /\ settings.searchStrategy = "rtdp"
  /\ bp' = GetNodes(problem, bp, {problem.initial})
  /\ stack' = <<problem.initial>>
  /\ pc' = "trialRecurse"
  /\ UNCHANGED <<numBackups, backedUpNodes, script, currentLogEntry,
                 firstInTrial, done>>

\* trialRecurse returns at a terminal node.
TrialAtTerminal ==
  /\ pc = "trialRecurse"
  /\ problem.terminal[Last(stack)]
  /\ stack' = Front(stack)
  /\ pc' = "unwind"
  /\ UNCHANGED <<bp, numBackups, backedUpNodes, script, currentLogEntry,
                 firstInTrial, done>>

\* The outcomes a trial may sample.  The code has no bound on the length of a
\* trial; here one that has come back MaxRepeats times to nodes of its own
\* path samples an outcome that does not come back, where there is one.
MaySample(s, a) ==
  LET fresh == {o \in Edges(problem, s, a) :
                  problem.next[s][a][o] \notin ToSet(stack)}
  IN  IF fresh = {} \/ Len(stack) - Cardinality(ToSet(stack)) < MaxRepeats
      THEN Edges(problem, s, a)
      ELSE fresh

\* On the way down a node is updated and an outcome of its best action taken.
TrialStep(o) ==
  LET s == Last(stack)
      a == MaxUBAction(bp', s)
  IN  /\ pc = "trialRecurse"
      /\ ~problem.terminal[s]
      /\ BackUp(s)
      /\ o \in MaySample(s, a)
      /\ stack' = Append(stack, problem.next[s][a][o])
      /\ UNCHANGED <<script, currentLogEntry, firstInTrial, done, pc>>

\* On the way up it is updated again.
Unwind ==
  /\ pc = "unwind"
  /\ stack # <<>>
  /\ BackUp(Last(stack))
  /\ stack' = Front(stack)
  /\ UNCHANGED <<script, currentLogEntry, firstInTrial, done, pc>>

EndTrial ==
  /\ pc = "unwind"
  /\ stack = <<>>
  /\ UNCHANGED <<bp, numBackups, backedUpNodes, stack, script, currentLogEntry,
                 firstInTrial>>
  /\ ReturnPlan(FALSE)

-----------------------------------------------------------------------------
\* doTrial of ScriptedUpdater: the first call reads the files.
StartScript(index, lines) ==
  /\ pc = "planFixedTime"
  /\ settings.searchStrategy = "script"
  /\ bp' = GetNodes(problem, bp, {problem.initial})
  /\ script' = IF script.read THEN script
               ELSE [read |-> TRUE, index |-> ReadIndex(index), entries |-> ReadLog(lines)]
  /\ firstInTrial' = TRUE
  /\ pc' = "script"
  /\ UNCHANGED <<numBackups, backedUpNodes, stack, currentLogEntry, done>>

\* The root met again marks the end of a trial.
EndsTrial(id) == ~firstInTrial /\ id = 0

ScriptStep ==
  /\ pc = "script"
  /\ currentLogEntry < Len(script.entries)
  /\ \E id \in {script.entries[currentLogEntry + 1]} :
       /\ BackUp(script.index[id + 1])
       /\ currentLogEntry' = currentLogEntry + 1
       /\ firstInTrial' = FALSE
       /\ IF EndsTrial(id) THEN ReturnPlan(FALSE) ELSE UNCHANGED <<pc, done>>
  /\ UNCHANGED <<stack, script>>

ScriptEnd ==
  /\ pc = "script"
  /\ currentLogEntry = Len(script.entries)
  /\ UNCHANGED <<bp, numBackups, backedUpNodes, stack, script, currentLogEntry,
                 firstInTrial>>
  /\ ReturnPlan(TRUE)

SearchStep ==
  \/ StartTrial
  \/ TrialAtTerminal
  \/ \E o \in Outcome : TrialStep(o)
  \/ Unwind
  \/ EndTrial
  \/ ScriptStep
  \/ ScriptEnd
=============================================================================
