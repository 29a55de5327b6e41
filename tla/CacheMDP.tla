------------------------------ MODULE CacheMDP ------------------------------
(***************************************************************************)
(* A model remembered as it is used (mdps/CacheMDP.cc): states are         *)
(* numbered as they are met, here from 1, and the outcomes of an action    *)
(* are asked of the model once.  A cache is a record:                      *)
(*   nodeTable  the states, by number                                      *)
(*   Q          the outcomes of the <<state, action>> pairs asked for, as  *)
(*              the numbers of the next states; 0 is an outcome of         *)
(*              probability zero                                           *)
(***************************************************************************)
EXTENDS MDP, StateLog, TLC

NewCache(model) == [nodeTable |-> <<model.initial>>, Q |-> <<>>]

\* The table with a node for outcome o, and the number of that node.
NodeX(model, nodeTable, s, a, o) ==
  IF o \in Edges(model, s, a)
  THEN LET t == WithState(nodeTable, model.next[s][a][o])
       IN  <<t, StateId(t, model.next[s][a][o]) + 1>>
  ELSE <<nodeTable, 0>>

\* The cache once the outcomes of action a in state number si are known.
GetQ(cache, model, si, a) ==
  IF <<si, a>> \in DOMAIN cache.Q THEN cache
  ELSE LET s   == cache.nodeTable[si]
           one == NodeX(model, cache.nodeTable, s, a, 0)
           two == NodeX(model, one[1], s, a, 1)
       IN  [nodeTable |-> two[1],
            Q |-> cache.Q @@ (<<si, a>> :>
                    [o \in Outcome |-> IF o = 0 THEN one[2] ELSE two[2]])]
=============================================================================
