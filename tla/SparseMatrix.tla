---------------------------- MODULE SparseMatrix ----------------------------
(***************************************************************************)
(* The matrices of the Cassandra parser (parsers/sparse-matrix.c): while a *)
(* file is parsed, an intermediate matrix has a linked list for each row,  *)
(* sorted by column and without zeros; later it is packed into arrays.     *)
(* Rows and columns are numbered from 0, as in the code; an index into an  *)
(* array is one more than in the code.                                     *)
(***************************************************************************)
EXTENDS Integers, Sequences, SequencesExt, FiniteSetsExt

\* newIMatrix: no row has an entry.
newIMatrix(numRows) == [r \in 0 .. numRows - 1 |-> [nodes |-> <<>>, length |-> 0]]

\* removeRowNode: without the node of the column, if there is one.
removeRowNode(row, col) ==
  LET at == {i \in DOMAIN row.nodes : row.nodes[i].column = col}
  IN  IF at = {} THEN row
      ELSE [nodes |-> RemoveAt(row.nodes, Min(at)), length |-> row.length - 1]

\* Where addEntryToRow stops: at the first node that is not left of the column.
Stop(nodes, col) ==
  Min({i \in DOMAIN nodes : nodes[i].column >= col} \cup {Len(nodes) + 1})

\* addEntryToRow, which nothing calls to accumulate.
addEntryToRow(row, col, value) ==
  LET i    == Stop(row.nodes, col)
      node == [column |-> col, value |-> value]
  IN  IF value = 0 THEN removeRowNode(row, col)
      ELSE IF i <= Len(row.nodes) /\ row.nodes[i].column = col
      THEN [row EXCEPT !.nodes[i] = node]
      ELSE [nodes |-> InsertAt(row.nodes, i, node), length |-> row.length + 1]

addEntryToIMatrix(im, row, col, value) ==
  [im EXCEPT ![row] = addEntryToRow(@, col, value)]

\* The loops of the parser that enter values in different places, given as
\* triples of row, column and value; their order makes no difference.
AddEntries(im, entries) ==
  FoldSet(LAMBDA e, m : addEntryToIMatrix(m, e[1], e[2], e[3]), im, entries)

sumIMatrixRowValues(im, row) ==
  FoldLeft(LAMBDA sum, node : sum + node.value, 0, im[row].nodes)

-----------------------------------------------------------------------------
countEntriesInIMatrix(im) == MapThenSumSet(LAMBDA r : im[r].length, DOMAIN im)

\* transformIMatrix: the rows one after the other in two arrays.
transformIMatrix(im) ==
  LET entries == FlattenSeq([r \in 1 .. Cardinality(DOMAIN im) |-> im[r - 1].nodes])
  IN  [ num_rows     |-> Cardinality(DOMAIN im),
        num_non_zero |-> countEntriesInIMatrix(im),
        col          |-> [k \in DOMAIN entries |-> entries[k].column],
        mat_val      |-> [k \in DOMAIN entries |-> entries[k].value],
        row_length   |-> [r \in DOMAIN im |-> im[r].length],
        row_start    |-> [r \in DOMAIN im |->
                            1 + MapThenSumSet(LAMBDA q : im[q].length, 0 .. r - 1)] ]

\* The indices of a row's entries.
RowOf(m, row) == m.row_start[row] .. m.row_start[row] + m.row_length[row] - 1

getEntryMatrix(m, row, col) ==
  LET at == {k \in RowOf(m, row) : m.col[k] = col}
  IN  IF at = {} THEN 0 ELSE m.mat_val[Min(at)]

sumRowValues(m, row) == MapThenSumSet(LAMBDA k : m.mat_val[k], RowOf(m, row))
=============================================================================
