---------------------------- MODULE UseCacheLoop ----------------------------
(***************************************************************************)
(* The loop of PointUpperBound::updateUseCache (bounds/PointUpperBound.cc) *)
(* one pass per step: an upper bound is backed up without recomputing the  *)
(* Q values of actions that cannot be the best.                            *)
(*                                                                         *)
(* The backup of an action reads bounds of other nodes, which the loop     *)
(* does not change, so that fresh, the values the backups would find, is a *)
(* constant of the call.                                                   *)
(***************************************************************************)
EXTENDS BoundPair

CONSTANT Values  \* the values a cached or a fresh Q value may have

ASSUME ValuesAssumption == Values \subseteq Int

VARIABLES
  cached,            \* the Q values cached by earlier updates of the node
  fresh,             \* the values getNewUBValueQ computes
  cachedUpperBound,  \* the local array of the loop
  updatedAction,     \* actions whose value in the array is fresh
  maxUBAction,       \* the best action of the array
  running            \* the loop has not been left

loopVars == <<cached, fresh, cachedUpperBound, updatedAction, maxUBAction, running>>

LoopInit ==
  /\ cached \in [Action -> Values]
  /\ fresh \in [Action -> Values]
  /\ cachedUpperBound = cached
  /\ updatedAction = {}
  /\ maxUBAction = MaxAction(cached)
  /\ running = TRUE

\* The array with the backup of action a done.
Store(a) == [cachedUpperBound EXCEPT ![a] = fresh[a]]

\* Mutant of GoesOn: the loop is left after one pass.
GoesOnNever == FALSE

\* The best action after the update is not one already updated.
GoesOn == maxUBAction' \notin updatedAction'

\* Mutant of Pass: the action is not marked as updated.
PassUnmarked ==
  /\ running
  /\ cachedUpperBound' = Store(maxUBAction)
  /\ maxUBAction' = MaxAction(cachedUpperBound')
  /\ running' = (maxUBAction' \notin updatedAction)
  /\ UNCHANGED <<cached, fresh, updatedAction>>

\* One pass of the loop.
Pass ==
  /\ running
  /\ cachedUpperBound' = Store(maxUBAction)
  /\ updatedAction' = updatedAction \cup {maxUBAction}
  /\ maxUBAction' = MaxAction(cachedUpperBound')
  /\ running' = GoesOn
  /\ UNCHANGED <<cached, fresh>>

LoopNext == Pass

\* A plain loop, which nothing waits for.
LoopSpec == LoopInit /\ [][LoopNext]_loopVars /\ WF_loopVars(LoopNext)

-----------------------------------------------------------------------------
LoopTypeOK ==
  /\ cached \in [Action -> Values]
  /\ fresh \in [Action -> Values]
  /\ cachedUpperBound \in [Action -> Values]
  /\ updatedAction \in SUBSET Action
  /\ maxUBAction \in Action
  /\ running \in BOOLEAN

\* The array is fresh where it was updated and as cached elsewhere.
FreshWhereUpdated ==
  \A a \in Action :
    cachedUpperBound[a] = IF a \in updatedAction THEN fresh[a] ELSE cached[a]

\* When no value rises, as under a uniformly improvable upper bound, the best
\* value the loop finds is the best of all the fresh ones.
Exact ==
  ~running /\ (\A a \in Action : fresh[a] <= cached[a]) =>
    /\ maxUBAction \in updatedAction
    /\ \A a \in Action : fresh[a] <= cachedUpperBound[maxUBAction]

\* Whatever the values, the loop and the closed form used by the solvers'
\* modules leave the same Q values behind.
ImplementsUseCache == ~running => cachedUpperBound = UseCache(cached, fresh)

\* The loop never backs an action up twice, so it ends within one pass per
\* action.
NoRepeat == running => maxUBAction \notin updatedAction

\* The loop is left, with the values of the closed form, though the best action
\* changes from pass to pass, may come back to one that was best before, and has
\* a fresh value lower or higher than the cached one (PointUpperBound.cc:126-141).
EndsAsUseCache == <>(~running /\ ImplementsUseCache)
=============================================================================
