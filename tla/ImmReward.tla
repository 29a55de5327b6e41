------------------------------ MODULE ImmReward ------------------------------
(***************************************************************************)
(* The rewards of a model file (parsers/imm-reward.c) and the decision     *)
(* tree that finds one (parsers/decision-tree.c).  A reward is given for   *)
(* an action, a state, a next state and an observation, each of them a     *)
(* number or a wildcard.  The sizes of the model are passed as a record p. *)
(***************************************************************************)
EXTENDS SparseMatrix

WILDCARD_SPEC == -1
NOT_PRESENT   == -99

-----------------------------------------------------------------------------
\* decision-tree.c

DT_TABLE_DEPTH == 4

NULL == [type |-> "NULL"]

\* gTableSizes: the numbers at each level.
TableSizes(p) == <<p.actions, p.states, p.states, p.observations>>

dtNewNodeVal(val) == [type |-> "VAL", val |-> val]

\* dtConvertToTable: a value becomes the default of a table without entries.
dtConvertToTable(node, numEntries) ==
  IF node.type = "TABLE" THEN node
  ELSE [ type         |-> "TABLE",
         entries      |-> [i \in 0 .. numEntries - 1 |-> NULL],
         defaultEntry |-> node ]

RECURSIVE dtAddInternal(_, _, _, _, _)

\* Mutant of dtAddInternal: a wildcard leaves the entries that are there alone.
AddInDefaultOnly(node, sizes, vec, index, val) ==
  LET table   == dtConvertToTable(node, sizes[index])
      Add(n)  == dtAddInternal(n, sizes, vec, index + 1, val)
      i       == vec[index]
      current == IF table.entries[i] = NULL THEN table.defaultEntry ELSE table.entries[i]
  IN  IF \A k \in index .. DT_TABLE_DEPTH : vec[k] = WILDCARD_SPEC
      THEN dtNewNodeVal(val)
      ELSE IF i = WILDCARD_SPEC THEN [table EXCEPT !.defaultEntry = Add(@)]
      ELSE [table EXCEPT !.entries[i] = Add(current)]

\* A wildcard that is not the last thing is entered in the default and in
\* every entry there is.  An entry that is not there begins as a copy of the
\* default.
dtAddInternal(node, sizes, vec, index, val) ==
  LET table   == dtConvertToTable(node, sizes[index])
      Add(n)  == dtAddInternal(n, sizes, vec, index + 1, val)
      i       == vec[index]
      current == IF table.entries[i] = NULL THEN table.defaultEntry ELSE table.entries[i]
  IN  IF \A k \in index .. DT_TABLE_DEPTH : vec[k] = WILDCARD_SPEC
      THEN dtNewNodeVal(val)
      ELSE IF i = WILDCARD_SPEC
      THEN [table EXCEPT !.defaultEntry = Add(@),
                         !.entries = [e \in DOMAIN @ |-> IF @[e] = NULL THEN NULL
                                                         ELSE Add(@[e])] @@ <<>>]
      ELSE [table EXCEPT !.entries[i] = Add(current)]

RECURSIVE dtGetInternal(_, _, _)

dtGetInternal(node, vec, index) ==
  IF node.type = "VAL" THEN node.val
  ELSE LET entry == node.entries[vec[index]]
       IN  dtGetInternal(IF entry = NULL THEN node.defaultEntry ELSE entry, vec, index + 1)

dtInit == dtNewNodeVal(0)

dtAdd(tree, p, vec, val) == dtAddInternal(tree, TableSizes(p), vec, 1, val)

dtGet(tree, vec) == dtGetInternal(tree, vec, 1)

-----------------------------------------------------------------------------
\* imm-reward.c

IsPomdp(p) == p.type = "pomdp"

\* newImmReward: a node for one R statement.  What is not present is given by
\* the numbers that follow; for an MDP observations are ignored.
newImmReward(p, action, curState, nextState, obs) ==
  LET last   == IF IsPomdp(p) THEN obs ELSE nextState
      before == IF IsPomdp(p) THEN nextState ELSE curState
      length == IF IsPomdp(p) THEN p.observations ELSE p.states
      node   == [action |-> action, cur_state |-> curState, next_state |-> nextState,
                 obs |-> obs]
  IN  IF last # NOT_PRESENT THEN node @@ [type |-> "ir_value", rep |-> 0]
      ELSE IF before # NOT_PRESENT
      THEN node @@ [type |-> "ir_vector", rep |-> [k \in 0 .. length - 1 |-> 0]]
      ELSE node @@ [type |-> "ir_matrix", rep |-> newIMatrix(p.states)]

\* enterImmReward: one number of the statement.
enterImmReward(p, node, curState, nextState, obs, value) ==
  CASE node.type = "ir_value"  -> [node EXCEPT !.rep = value]
    [] node.type = "ir_vector" ->
         [node EXCEPT !.rep[IF IsPomdp(p) THEN obs ELSE nextState] = value]
    [] node.type = "ir_matrix" ->
         [node EXCEPT !.rep = IF IsPomdp(p)
                              THEN addEntryToIMatrix(@, nextState, obs, value)
                              ELSE addEntryToIMatrix(@, curState, nextState, value)]

\* What a done node enters in the decision tree, in this order: places and
\* values.  A matrix has only those that are not zero.
Entries(p, node) ==
  LET at(s, j, o) == <<node.action, s, j, IF IsPomdp(p) THEN o ELSE WILDCARD_SPEC>>
      m == transformIMatrix(node.rep)
      row(k) == CHOOSE r \in DOMAIN node.rep : k \in RowOf(m, r)
  IN  CASE node.type = "ir_value" ->
             << <<at(node.cur_state, node.next_state, node.obs), node.rep>> >>
        [] node.type = "ir_vector" ->
             [k \in 1 .. Cardinality(DOMAIN node.rep) |->
                <<IF IsPomdp(p) THEN at(node.cur_state, node.next_state, k - 1)
                  ELSE at(node.cur_state, k - 1, 0), node.rep[k - 1]>>]
        [] node.type = "ir_matrix" ->
             [k \in 1 .. m.num_non_zero |->
                <<IF IsPomdp(p) THEN at(node.cur_state, row(k), m.col[k])
                  ELSE at(row(k), m.col[k], 0), m.mat_val[k]>>]

\* doneImmReward, with irAddToDecisionTree.
doneImmReward(p, tree, node) ==
  FoldLeft(LAMBDA t, entry : dtAdd(t, p, entry[1], entry[2]), tree, Entries(p, node))

getImmediateReward(tree, action, curState, nextState, obs) ==
  dtGet(tree, <<action, curState, nextState, obs>>)
=============================================================================
