------------------------------- MODULE Labels -------------------------------
(***************************************************************************)
(* What a labelling search promises, whatever way it finds the nodes: the  *)
(* contract of LRTDP and HDP.  Labels are set for sets of nodes that are   *)
(* settled and whose plan stays inside; what has a label is left alone,    *)
(* and anything may happen to the rest.                                    *)
(***************************************************************************)
CONSTANT Node

VARIABLES
  plan,     \* the nodes the greedy action of a node leads to
  value,    \* the upper bound of a node
  settled,  \* its value agrees with its plan, up to the precision
  solved    \* the nodes with a label

vars == <<plan, value, settled, solved>>

Init == solved = {}

LeaveSolvedAlone ==
  \A n \in solved : plan'[n] = plan[n] /\ value'[n] = value[n] /\ settled'[n]

Search == LeaveSolvedAlone /\ solved' = solved

Label ==
  /\ LeaveSolvedAlone
  /\ \E S \in SUBSET (Node \ solved) :
       /\ solved' = solved \cup S
       /\ \A n \in S : settled'[n] /\ plan'[n] \subseteq solved'

Next == Search \/ Label

Spec == Init /\ [][Next]_vars

\* Following the plan from a node with a label meets settled nodes with
\* labels only.
Sound == \A n \in solved : settled[n] /\ plan[n] \subseteq solved
=============================================================================
