--------------------------------- MODULE Sla ---------------------------------
(***************************************************************************)
(* Sparse linear algebra (common/sla.h).  A dvector is a function of its   *)
(* indices, from 0; a cvector has its entries in the order of their        *)
(* indices; a kmatrix has entries in the order in which they were added; a *)
(* cmatrix has them column by column.                                      *)
(***************************************************************************)
EXTENDS Integers, Sequences, SequencesExt, FiniteSetsExt

Indices(size) == 0 .. size - 1

\* fabs.
Abs(v) == IF v < 0 THEN -v ELSE v

\* Values this small are dropped; the smallest value of the model is larger.
SPARSE_EPS == 0

-----------------------------------------------------------------------------
\* kmatrix and cmatrix

NewKMatrix(size1, size2) == [size1 |-> size1, size2 |-> size2, data |-> <<>>]

\* kmatrix_set_entry: an entry that is there is not looked for.
kmatrix_set_entry(A, r, c, v) == [A EXCEPT !.data = Append(@, [r |-> r, c |-> c, value |-> v])]

ColumnMajor(e, f) == e.c < f.c \/ (e.c = f.c /\ e.r < f.r)

\* The place of an entry after a stable sort.
PlaceOf(data, i) ==
  1 + Cardinality({j \in DOMAIN data :
        ColumnMajor(data[j], data[i]) \/ (j < i /\ ~ColumnMajor(data[i], data[j]))})

\* Mutant of canonicalize: the first of equal places is kept.
CanonicalizeKeepsFirst(A) ==
  LET sorted == [k \in DOMAIN A.data |->
                   A.data[CHOOSE i \in DOMAIN A.data : PlaceOf(A.data, i) = k]]
      SamePlace(e, f) == e.r = f.r /\ e.c = f.c
  IN  [A EXCEPT !.data =
         FoldLeft(LAMBDA d, e : IF d # <<>> /\ SamePlace(Last(d), e) THEN d
                                ELSE Append(d, e), <<>>, sorted)]

\* kmatrix::canonicalize: the entries in column major order, the last one of
\* several for the same place.
canonicalize(A) ==
  LET sorted == [k \in DOMAIN A.data |->
                   A.data[CHOOSE i \in DOMAIN A.data : PlaceOf(A.data, i) = k]]
      SamePlace(e, f) == e.r = f.r /\ e.c = f.c
  IN  [A EXCEPT !.data =
         FoldLeft(LAMBDA d, e : IF d # <<>> /\ SamePlace(Last(d), e) THEN Append(Front(d), e)
                                ELSE Append(d, e), <<>>, sorted)]

kmatrix_transpose_in_place(A) ==
  canonicalize([size1 |-> A.size2, size2 |-> A.size1,
                data  |-> [i \in DOMAIN A.data |->
                             [r |-> A.data[i].c, c |-> A.data[i].r, value |-> A.data[i].value]]])

\* copy of a kmatrix to a cmatrix: col_starts says where each column's entries
\* begin, and those of the next one.  push_back and canonicalize count what
\* was added before.
copy(A) ==
  LET data == SelectSeq(canonicalize(A).data, LAMBDA e : Abs(e.value) > SPARSE_EPS)
  IN  [ size1 |-> A.size1, size2 |-> A.size2,
        data  |-> [i \in DOMAIN data |-> [index |-> data[i].r, value |-> data[i].value]],
        col_starts |-> [c \in 0 .. A.size2 |->
                          Cardinality({i \in DOMAIN data : data[i].c < c})] ]

filled_in_column(A, c) == A.col_starts[c + 1] - A.col_starts[c]

\* The entries of column c, in order.
Column(A, c) == SubSeq(A.data, A.col_starts[c] + 1, A.col_starts[c + 1])

copy_from_column(A, c) == [size |-> A.size1, data |-> Column(A, c)]

\* The value at an index, of entries in the order of their indices.
ValueAt(data, i) ==
  LET at == {k \in DOMAIN data : data[k].index >= i}
  IN  IF at # {} /\ data[Min(at)].index = i THEN data[Min(at)].value ELSE 0

Get(A, r, c) == ValueAt(Column(A, c), r)

-----------------------------------------------------------------------------
\* cvector and dvector

\* push_back, for indices in ascending order.
push_back(x, i, v) == [x EXCEPT !.data = Append(@, [index |-> i, value |-> v])]

NewCVector(size) == [size |-> size, data |-> <<>>]

\* copy of a cvector to a dvector, and of a dvector to a cvector.
ToDense(x) == [i \in Indices(x.size) |-> ValueAt(x.data, i)] @@ <<>>

ToSparse(d) ==
  LET data == [k \in 1 .. Cardinality(DOMAIN d) |-> [index |-> k - 1, value |-> d[k - 1]]]
  IN  [size |-> Cardinality(DOMAIN d),
       data |-> SelectSeq(data, LAMBDA e : Abs(e.value) > SPARSE_EPS)]

sum(x) == FoldLeft(LAMBDA v, e : v + e.value, 0, x.data)

norm_1(x) == FoldLeft(LAMBDA v, e : v + Abs(e.value), 0, x.data)

norm_inf(x) == FoldLeft(LAMBDA v, e : Max({v, Abs(e.value)}), 0, x.data)

Scaled(data, s) == [k \in DOMAIN data |-> [data[k] EXCEPT !.value = s * @]]

\* The main loop of add and subtract, and what follows it: y's values count
\* sign times.
RECURSIVE Merge(_, _, _)
Merge(x, y, sign) ==
  IF x = <<>> THEN Scaled(y, sign)
  ELSE IF y = <<>> THEN x
  ELSE IF Head(x).index < Head(y).index THEN <<Head(x)>> \o Merge(Tail(x), y, sign)
  ELSE IF Head(x).index = Head(y).index
  THEN <<[Head(x) EXCEPT !.value = @ + sign * Head(y).value]>> \o Merge(Tail(x), Tail(y), sign)
  ELSE Scaled(<<Head(y)>>, sign) \o Merge(x, Tail(y), sign)

add(x, y)      == [x EXCEPT !.data = Merge(x.data, y.data, 1)]
subtract(x, y) == [x EXCEPT !.data = Merge(x.data, y.data, -1)]

\* dominates, the same way: what is not there is 0.
RECURSIVE DominatesIn(_, _, _)
DominatesIn(x, y, eps) ==
  IF x = <<>> THEN \A k \in DOMAIN y : 0 >= y[k].value - eps
  ELSE IF y = <<>> THEN \A k \in DOMAIN x : x[k].value >= -eps
  ELSE IF Head(x).index < Head(y).index
  THEN Head(x).value >= -eps /\ DominatesIn(Tail(x), y, eps)
  ELSE IF Head(x).index = Head(y).index
  THEN Head(x).value >= Head(y).value - eps /\ DominatesIn(Tail(x), Tail(y), eps)
  ELSE 0 >= Head(y).value - eps /\ DominatesIn(x, Tail(y), eps)

dominates(x, y, eps) == DominatesIn(x.data, y.data, eps)

\* Where an iterator stops that goes on to the first entry not before i.
NextOf(data, at, i) == Min({k \in at .. Len(data) : data[k].index >= i} \cup {Len(data) + 1})

\* emult_cc_internal: for each entry of x, y's iterator goes on to the first
\* entry that is not before it.
ElementProducts(x, y) ==
  LET step(r, e) ==
        LET k == NextOf(y, r.at, e.index)
        IN  [ at   |-> k,
              data |-> IF k <= Len(y) /\ y[k].index = e.index
                       THEN Append(r.data, [e EXCEPT !.value = @ * y[k].value])
                       ELSE r.data ]
  IN  FoldLeft(step, [at |-> 1, data |-> <<>>], x).data

emult(x, y) == [x EXCEPT !.data = ElementProducts(x.data, y.data)]

emult_column(A, c, x) == [x EXCEPT !.data = ElementProducts(Column(A, c), x.data)]

\* inner_prod, which goes through the entries in the same way.
inner_prod(x, y) == sum([x EXCEPT !.data = ElementProducts(x.data, y.data)])

inner_prod_column(A, c, x) == inner_prod(copy_from_column(A, c), x)

\* inner_prod with a dvector.
DenseInnerProd(d, y) == FoldLeft(LAMBDA v, e : v + d[e.index] * e.value, 0, y.data)

\* A * x as a dvector: each entry of x adds to the rows of its column.
MultDense(A, x) ==
  LET addColumn(result, e) ==
        FoldLeft(LAMBDA r, a : [r EXCEPT ![a.index] = @ + e.value * a.value],
                 result, Column(A, e.index))
  IN  FoldLeft(addColumn, [i \in Indices(x.size) |-> 0], x.data)

\* A * x as a cvector, for few entries without a dense vector.
MultSparse(A, x) ==
  LET addColumn(accum, e) ==
        add(accum, [size |-> x.size, data |-> Scaled(Column(A, e.index), e.value)])
  IN  [ size |-> x.size,
        data |-> SelectSeq(FoldLeft(addColumn, NewCVector(x.size), x.data).data,
                           LAMBDA e : Abs(e.value) > SPARSE_EPS) ]

mult(A, x) ==
  IF 10 * Len(x.data) * Len(A.data) < A.size1 * A.size2
  THEN MultSparse(A, x)
  ELSE ToSparse(MultDense(A, x))

\* x * A, for a dvector and for a cvector.
DenseTimes(x, A) ==
  [c \in Indices(A.size2) |-> DenseInnerProd(x, copy_from_column(A, c))] @@ <<>>

SparseTimes(x, A) == ToSparse([c \in Indices(A.size2) |-> inner_prod_column(A, c, x)] @@ <<>>)

-----------------------------------------------------------------------------
\* Masks (common/sla_mask.h) are cvectors, whose indices count.

mask_set_all(size) == FoldLeft(LAMBDA m, i : push_back(m, i - 1, 1), NewCVector(size),
                               [i \in 1 .. size |-> i])

mask_set_to_one(m) == [m EXCEPT !.data = [k \in DOMAIN @ |-> [@[k] EXCEPT !.value = 1]]]

\* The iterator of the mask goes on for each entry of the vector.
mask_subset(x, m) ==
  LET step(at, e) == LET k == NextOf(m.data, at, e.index)
                     IN  IF k <= Len(m.data) /\ m.data[k].index = e.index
                         THEN k + 1 ELSE Len(m.data) + 2
  IN  FoldLeft(step, 1, x.data) <= Len(m.data) + 1

\* mask_copy of a cvector, and of a dvector.
mask_copy(x, m) ==
  LET step(r, e) == LET k == NextOf(m.data, r.at, e.index)
                    IN  [ at |-> k,
                          data |-> IF k <= Len(m.data) /\ m.data[k].index = e.index
                                   THEN Append(r.data, e) ELSE r.data ]
  IN  [x EXCEPT !.data = FoldLeft(step, [at |-> 1, data |-> <<>>], x.data).data]

mask_copy_dense(d, m) ==
  LET entries == [k \in DOMAIN m.data |-> [m.data[k] EXCEPT !.value = d[m.data[k].index]]]
  IN  [m EXCEPT !.data = SelectSeq(entries, LAMBDA e : Abs(e.value) > SPARSE_EPS)]

mask_dominates(x, y, eps, xm, ym) == mask_subset(ym, xm) /\ dominates(x, y, eps)
=============================================================================
