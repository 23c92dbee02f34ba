---------------------------- MODULE FilterMatrix ----------------------------
(***************************************************************************)
(* The matrix that merge works on: filter/filter_matrix.c, filter/swar.c   *)
(* and filter/sparse.c, as operators on the structure filter_matrix_t.     *)
(*                                                                         *)
(* A row is the set of its columns (the code keeps it sorted and without   *)
(* repetition), R[j] is the set of the rows of column j, and the lists     *)
(* S[w] are the sets S(mat, w) of the columns that have a cell (the field  *)
(* alive stands for A[j] # NULL) and the weight w.  Which column comes     *)
(* first in a list, and which row first in R[j], is left open.  The field  *)
(* his is the history file (report.c) and ok is FALSE once an assertion of *)
(* the code has failed.                                                    *)
(***************************************************************************)
EXTENDS Integers, Sequences, FiniteSets, Chain

\* The density above which a heavy column is buried (the literal 2000).
CONSTANT DENSITY

\* The null pointer, as a row or as an R[j].
NULL == {-1}

RowsOf(mat) == DOMAIN mat.rows
ColsOf(mat) == DOMAIN mat.wt
isRowNull(mat, i) == mat.rows[i] = NULL
lengthRow(mat, i) == Cardinality(mat.rows[i])

decrS(w) == IF w >= 0 THEN w - 1 ELSE w + 1
incrS(w) == IF w >= 0 THEN w + 1 ELSE w - 1

\* The columns of the list S[w]; the last list, cwmax + 1, collects the columns
\* that have become too heavy.
S(mat, w) ==
  {j \in ColsOf(mat) :
     mat.alive[j] /\ (IF mat.wt[j] > mat.cwmax THEN mat.cwmax + 1 ELSE mat.wt[j]) = w}

(***************************************************************************)
(* Reading the purged file.                                                *)
(***************************************************************************)

filter_matrix_read_weights(rels, cols) ==
  [j \in cols |-> Cardinality({i \in DOMAIN rels : j \in rels[i]})]

\* Columns heavier than cwmax get a negative weight, no cell and no R[j].
fillmat(wt, par) == [j \in DOMAIN wt |-> IF wt[j] <= par.cwmax THEN wt[j] ELSE -wt[j]]

\* initMat, initSWAR, fillmat and filter_matrix_read.  An empty relation is no
\* row at all; a relation with heavy columns only is dropped from memory but
\* still counted in rem_nrows; buried columns are counted, not stored.
filter_matrix_read(rels, cols, par) ==
  LET wt == fillmat(filter_matrix_read_weights(rels, cols), par)
      wmax == -(Cardinality(DOMAIN rels) \div DENSITY)
      tooheavy == {j \in cols : wt[j] < wmax}
      dropped(i) == \A j \in rels[i] : wt[j] < 0
      cells == {c \in (DOMAIN rels) \X cols : c[2] \in rels[c[1]]}
  IN [rows |-> [i \in DOMAIN rels |-> IF dropped(i) THEN NULL ELSE rels[i] \ tooheavy],
      wt |-> wt,
      alive |-> [j \in cols |-> wt[j] >= 0],
      R |-> [j \in cols |-> IF wt[j] < 0 THEN NULL ELSE {i \in DOMAIN rels : j \in rels[i]}],
      wburied |-> [i \in DOMAIN rels |-> Cardinality(rels[i] \cap tooheavy)],
      nburied |-> Cardinality(tooheavy),
      rem_nrows |-> Cardinality({i \in DOMAIN rels : rels[i] # {}}),
      rem_ncols |-> Cardinality(cols),
      weight |-> Cardinality(cells),
      cwmax |-> par.cwmax, rwmax |-> par.rwmax, keep |-> par.keep,
      his |-> <<>>, ok |-> TRUE]

(***************************************************************************)
(* The history file.                                                       *)
(***************************************************************************)

reportn(mat, line) == [mat EXCEPT !.his = Append(@, [kind |-> "rows", v |-> line])]
reportCost(mat, kind, c) == [mat EXCEPT !.his = Append(@, [kind |-> kind, v |-> <<c>>])]

(***************************************************************************)
(* Rows and columns.                                                       *)
(***************************************************************************)

SymDiff(a, b) == (a \ b) \cup (b \ a)

destroyRow(mat, i) == [mat EXCEPT !.rows[i] = NULL]

\* Estimated weight of the sum of two rows: exact on the columns that are
\* stored, an upper bound on the buried ones.
buriedSum(mat, i1, i2) ==
  LET w == mat.wburied[i1] + mat.wburied[i2] IN IF w > mat.nburied THEN mat.nburied ELSE w
weightSum(mat, i1, i2) == buriedSum(mat, i1, i2) + Cardinality(SymDiff(mat.rows[i1], mat.rows[i2]))

\* Mutant of removeRowAndUpdate: the row stays in R[j].
removeRowKeepR(mat, i) ==
  LET touched == {j \in mat.rows[i] : mat.wt[j] >= 0} IN
  [mat EXCEPT
     !.weight = @ - (lengthRow(mat, i) + mat.wburied[i]),
     !.wt = [j \in DOMAIN @ |-> IF j \in touched THEN decrS(@[j]) ELSE @[j]],
     !.alive = [j \in DOMAIN @ |-> j \in touched \/ @[j]]]

\* removeCellAndUpdate for every cell of row i: light columns lose the row.
removeRowAndUpdate(mat, i) ==
  LET touched == {j \in mat.rows[i] : mat.wt[j] >= 0} IN
  [mat EXCEPT
     !.weight = @ - (lengthRow(mat, i) + mat.wburied[i]),
     !.wt = [j \in DOMAIN @ |-> IF j \in touched THEN decrS(@[j]) ELSE @[j]],
     !.alive = [j \in DOMAIN @ |-> j \in touched \/ @[j]],
     !.R = [j \in DOMAIN @ |-> IF j \in touched /\ @[j] # NULL THEN @[j] \ {i} ELSE @[j]]]

\* addCellAndUpdate for every cell of row i: a column that was heavy stays so.
addOneRowAndUpdate(mat, i) ==
  LET row == mat.rows[i]
      wt == [j \in ColsOf(mat) |-> IF j \in row THEN incrS(mat.wt[j]) ELSE mat.wt[j]]
      touched == {j \in row : wt[j] >= 0}
  IN [mat EXCEPT
        !.weight = @ + lengthRow(mat, i) + mat.wburied[i],
        !.wt = wt,
        !.alive = [j \in DOMAIN @ |-> j \in touched \/ @[j]],
        !.R = [j \in DOMAIN @ |-> IF j \in touched THEN @[j] \cup {i} ELSE @[j]]]

\* rows[i1] += rows[i2]; len is the length the caller announces, -1 if none.
addRows(mat, i1, i2, len) ==
  LET sum == SymDiff(mat.rows[i1], mat.rows[i2]) IN
  [mat EXCEPT
     !.rows[i1] = sum,
     !.ok = @ /\ ~isRowNull(mat, i1) /\ ~isRowNull(mat, i2) /\ len \in {-1, Cardinality(sum)}]

addRowsAndUpdate(mat, i1, i2, len) ==
  Then(removeRowAndUpdate(mat, i1), LAMBDA M :
    Then(addRows(M, i1, i2, len), LAMBDA N : addOneRowAndUpdate(N, i1)))

removeRowDefinitely(mat, i) ==
  [reportn(destroyRow(removeRowAndUpdate(mat, i), i), <<i>>) EXCEPT !.rem_nrows = @ - 1]

\* remove_j_from_SWAR, then R[j] and the weight are cleared.
removeColumnAndUpdate(mat, j) ==
  [mat EXCEPT !.alive[j] = FALSE, !.wt[j] = 0, !.R[j] = NULL]

remove_j_from_row(mat, i, j) == [mat EXCEPT !.rows[i] = @ \ {j}, !.weight = @ - 1]

\* The columns of S[cwmax + 1] leave the structure with a negative weight.
deleteHeavyColumns(mat) ==
  LET heavy == S(mat, mat.cwmax + 1) IN
  [mat EXCEPT !.alive = [j \in DOMAIN @ |-> @[j] /\ j \notin heavy],
              !.wt = [j \in DOMAIN @ |-> IF j \in heavy THEN -@[j] ELSE @[j]],
              !.R = [j \in DOMAIN @ |-> IF j \in heavy THEN NULL ELSE @[j]]]

deleteEmptyColumnsSWAR(mat) ==
  LET empty == S(mat, 0) IN
  [mat EXCEPT !.alive = [j \in DOMAIN @ |-> @[j] /\ j \notin empty],
              !.wt = [j \in DOMAIN @ |-> IF j \in empty THEN 0 ELSE @[j]],
              !.R = [j \in DOMAIN @ |-> IF j \in empty THEN NULL ELSE @[j]],
              !.rem_ncols = @ - Cardinality(empty)]

minColWeight(mat) ==
  LET used == {w \in 1..mat.cwmax : S(mat, w) # {}} IN
  IF used = {} THEN -1 ELSE CHOOSE w \in used : \A v \in used : w <= v

(***************************************************************************)
(* Prim's algorithm on a binary heap: filter/mst.c.  A is the symmetric    *)
(* matrix of the weights of the sums of two rows, m the number of rows; an *)
(* edge in the heap is a triple <<u, v, A[u][v]>> and the heap a sequence  *)
(* (the code's Q[1] .. Q[Q[0][0]]).                                        *)
(***************************************************************************)
swap(Q, k, l) == [Q EXCEPT ![k] = Q[l], ![l] = Q[k]]

RECURSIVE upQueue(_, _)
upQueue(Q, k) ==
  IF k > 1 /\ Q[k \div 2][3] >= Q[k][3]
  THEN Then(swap(Q, k, k \div 2), LAMBDA P : upQueue(P, k \div 2))
  ELSE Q

addEdge(Q, u, v, Auv) == Then(Append(Q, <<u, v, Auv>>), LAMBDA P : upQueue(P, Len(P)))

\* The son that the entry at k is compared with: the lighter one.
lightSon(Q, k) ==
  IF 2 * k < Len(Q) /\ Q[2 * k][3] > Q[2 * k + 1][3] THEN 2 * k + 1 ELSE 2 * k

RECURSIVE downQueue(_, _)
downQueue(Q, k) ==
  IF k <= Len(Q) \div 2 /\ Q[k][3] > Q[lightSon(Q, k)][3]
  THEN Then(swap(Q, k, lightSon(Q, k)), LAMBDA P : downQueue(P, lightSon(Q, k)))
  ELSE Q

popQueue(Q) ==
  IF Len(Q) = 1 THEN <<>>
  ELSE Then([SubSeq(Q, 1, Len(Q) - 1) EXCEPT ![1] = Q[Len(Q)]], LAMBDA P : downQueue(P, 1))

\* All edges from u to the vertices from v on that are not in the tree yet.
RECURSIVE addAllEdges(_, _, _, _, _, _)
addAllEdges(Q, u, v, father, A, m) ==
  IF v = m THEN Q
  ELSE Then(IF v # u /\ father[v] < 0 THEN addEdge(Q, u, v, A[u][v]) ELSE Q,
            LAMBDA P : addAllEdges(P, u, v + 1, father, A, m))

\* The loop of minimalSpanningTreeWithPrim: st holds the heap, the tree (fathers
\* and sons), its weight w and the number nV of vertices still outside.
RECURSIVE primLoop(_, _, _)
primLoop(st, A, m) ==
  IF st.Q = <<>> THEN st ELSE
  LET s == st.Q[1][1]
      t == st.Q[1][2]
      popped == [st EXCEPT !.Q = popQueue(@)]
      grown == [popped EXCEPT !.w = @ + A[s][t], !.father[t] = s,
                              !.sons[s] = Append(@, t), !.nV = @ - 1]
      more(g) == [g EXCEPT !.Q = addAllEdges(@, t, 0, g.father, A, m)]
  IN IF st.father[t] # -1 THEN Then(popped, LAMBDA p : primLoop(p, A, m))
     ELSE IF st.nV = 1 THEN grown
     ELSE Then(grown, LAMBDA g : Then(more(g), LAMBDA h : primLoop(h, A, m)))

minimalSpanningTree(A, m) ==
  LET father == [i \in 0..m-1 |-> IF i = 0 THEN 0 ELSE -1]
  IN Then([Q |-> addAllEdges(<<>>, 0, 0, father, A, m), father |-> father,
           sons |-> [i \in 0..m-1 |-> <<>>], w |-> 0, nV |-> m - 1],
          LAMBDA st : primLoop(st, A, m))

(***************************************************************************)
(* Reference: a set of m - 1 edges that connects all vertices, of least    *)
(* total weight.                                                           *)
(***************************************************************************)
Edges(m) == {e \in (0..m-1) \X (0..m-1) : e[1] < e[2]}

RECURSIVE Reached(_, _)
Reached(V, E) ==
  LET W == V \cup {e[2] : e \in {f \in E : f[1] \in V}} \cup {e[1] : e \in {f \in E : f[2] \in V}}
  IN IF W = V THEN V ELSE Reached(W, E)

SpanningTrees(m) ==
  {E \in SUBSET Edges(m) : Cardinality(E) = m - 1 /\ Reached({0}, E) = 0..m-1}

RECURSIVE TreeWeight(_, _)
TreeWeight(E, A) ==
  IF E = {} THEN 0
  ELSE LET e == CHOOSE e \in E : TRUE IN A[e[1]][e[2]] + TreeWeight(E \ {e}, A)
====
