---------------------------- MODULE MCMaxPlanes ----------------------------
(***************************************************************************)
(* MaxPlanes on the POMDPs of Doors, and the values its planes must stay   *)
(* below.                                                                  *)
(***************************************************************************)
EXTENDS MaxPlanes, Doors

CONSTANT Horizon

\* The default settings, and those in which single parts are switched off.
Setting(masking, supportList, cache, extraPruning) ==
  [masking |-> masking, supportList |-> supportList, cache |-> cache,
   extraPruning |-> extraPruning]

Ages == {<<-2, -2, 0, MaxBackups + 1>>}

AllProblems == DoorsAndDrift \cup {"unmasked", "unaged", "plain"}
PomdpsOfAll ==
  DoorsAndDriftPomdps
    @@ ("unmasked" :> Drift(0) @@ "unaged" :> Drift(0) @@ "plain" :> Drift(320))
AllPomdps == PomdpsOfAll
AllConfigs ==
  [n \in DoorsAndDrift |-> Setting(TRUE, TRUE, TRUE, TRUE)]
    @@ ("unmasked" :> Setting(FALSE, FALSE, TRUE, TRUE)
          @@ "unaged" :> Setting(TRUE, TRUE, FALSE, FALSE)
          @@ "plain" :> Setting(FALSE, FALSE, FALSE, FALSE))

\* What the best policy of a number of steps earns, if afterwards it gets more
\* than any policy can.
Ceilings(p) ==
  LET best[k \in 0 .. 2 * Horizon] ==
        IF k = 0 THEN Table([b \in Belief |-> 1280 * (Total(b) - b[over])])
        ELSE LET last == best[k - 1]
             IN  Table([b \in Belief |->
                   Max({ Inner(p.reward[a], b) - (-GoingOn(p, last, b, a)) \div 8 : a \in Action })])
  IN  best[2 * Horizon]

CeilingsOfAll == Table([n \in Problems |-> Ceilings(AllPomdps[n])])
AllCeilings == CeilingsOfAll

\* What a policy earns when it is executed for k steps from a belief, given as
\* its weights v, from above what any policy can do afterwards.
RECURSIVE Earned(_, _, _, _)
Earned(policy, b, v, k) ==
  IF k = 0 THEN 1280 * MapThenSumSet(LAMBDA i : IF i = over THEN 0 ELSE v[i], State)
  ELSE MapThenSumSet(LAMBDA i : v[i] * pomdp.reward[policy[b]][i], State)
         + MapThenSumSet(LAMBDA o :
             IF pomdp.next[b][policy[b]][o] = NoBelief THEN 0
             ELSE Earned(policy, pomdp.next[b][policy[b]][o],
                         Pushed(v, pomdp.trans, pomdp.obs, policy[b], o), k - 1),
             Observation) \div 8

\* The policy that was read earns what the solver promised: the look-ahead of
\* the executive finds at every belief on its way the planes it needs, though
\* all those were deleted that no node of the search pointed to.
PolicyDelivers ==
  pc = "read" =>
    EveryBeliefCovered /\ \E policy \in {Table([b \in pomdp.reachable |-> ChooseAction(b)])} :
      Earned(policy, pomdp.initial, pomdp.initial, Horizon) >= lbVal[pomdp.initial]
=============================================================================
