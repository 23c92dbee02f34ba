------------------------------- MODULE Merge --------------------------------
(***************************************************************************)
(* The program merge: filter/merge.c and filter/merge_mono.c in the build  *)
(* of filter/merge_opts.h (SWAR lists, M_STRATEGY 3).  mergeOneByOne       *)
(* repeatedly takes a column of least weight m: with m = 1 its row is      *)
(* removed, with m = 2 and m > 2 the column is eliminated by adding its    *)
(* rows to each other, and in between superfluous rows are deleted.  Every *)
(* row operation goes to the history file; a later run may resume from a   *)
(* history file, also from one that a kill has left incomplete.            *)
(***************************************************************************)
EXTENDS FilterMatrix

CONSTANTS
  Inputs,     \* the purged files: functions from rows to sets of columns
  Cols,       \* the columns
  Pars,       \* command lines (see par below)
  TARGET,     \* columns between two cleanings (10000)
  NCOSTMAX,   \* increases of the cost that are put up with (20)
  NIREMMAX,   \* heavy rows removed by one inspection (128)
  MaxKills    \* bound: how often the program is killed

VARIABLES
  rels,   \* the purged file
  par,    \* cwmax, rwmax, keep, maxlevel, forbw (0, 1 or 3; function 2 is floating point),
          \* ratio (num/den), coverNmax, itermax
  mat,    \* the matrix (module FilterMatrix)
  loc,    \* the local variables of mergeOneByOne
  pc,     \* where mergeOneByOne is
  kills   \* number of kills so far

vars == <<rels, par, mat, loc, pc, kills>>

excess(M) == M.rem_nrows - M.rem_ncols

(***************************************************************************)
(* Eliminating a column.                                                   *)
(***************************************************************************)

\* The rows of column j in some order: R[j] without its -1 entries.
Orderings(T) ==
  {f \in [0..Cardinality(T)-1 -> T] : \A a, b \in DOMAIN f : f[a] = f[b] => a = b}

fillRowAddMatrix(M, m, ind) ==
  [i \in 0..m-1 |-> [j \in 0..m-1 |-> IF i = j THEN 0 ELSE weightSum(M, ind[i], ind[j])]]

\* Mutant of historyLines: the level of an inner son is not kept, so that the
\* lines of its brothers overwrite it.
RECURSIVE historyLinesLevel(_, _, _)
historyLinesLevel(tree, ind, u) ==
  LET sons == tree.sons[u]
      first == IF u = tree.father[u] THEN ind[u] ELSE -(ind[u] + 1)
      inner == {k \in DOMAIN sons : tree.sons[sons[k]] # <<>>}
      last == CHOOSE k \in inner : \A l \in inner : l <= k
  IN IF sons = <<>> THEN <<>>
     ELSE <<(<<first>> \o [k \in DOMAIN sons |-> ind[sons[k]]])>>
          \o (IF inner = {} THEN <<>> ELSE historyLinesLevel(tree, ind, sons[last]))

\* The history lines of the subtree of u, the fathers first: a line adds its
\* first row to the others, and destroys it only if it is the root.
RECURSIVE historyLines(_, _, _)
historyLines(tree, ind, u) ==
  LET sons == tree.sons[u]
      first == IF u = tree.father[u] THEN ind[u] ELSE -(ind[u] + 1)
      RECURSIVE below(_)
      below(k) == IF k > Len(sons) THEN <<>>
                  ELSE historyLines(tree, ind, sons[k]) \o below(k + 1)
  IN IF sons = <<>> THEN <<>>
     ELSE <<(<<first>> \o [k \in DOMAIN sons |-> ind[sons[k]]])>> \o below(1)

\* Mutant of addFatherToSons: u is added to a son before the son hands down.
RECURSIVE addFatherFirst(_, _, _, _, _, _)
addFatherFirst(M, tree, ind, A, u, k) ==
  IF k > Len(tree.sons[u]) THEN M ELSE
  LET s == tree.sons[u][k]
      len == A[s][u] - buriedSum(M, ind[s], ind[u])
  IN Then(addRowsAndUpdate(M, ind[s], ind[u], len), LAMBDA added :
       Then(addFatherFirst(added, tree, ind, A, s, 1), LAMBDA N :
         addFatherFirst(N, tree, ind, A, u, k + 1)))

\* addFatherToSonsRec: the sons of u hand down their rows before they receive
\* the row of u; the length of each sum is known from A.
RECURSIVE addFatherToSons(_, _, _, _, _, _)
addFatherToSons(M, tree, ind, A, u, k) ==
  IF k > Len(tree.sons[u]) THEN M ELSE
  LET s == tree.sons[u][k]
      len == A[s][u] - buriedSum(M, ind[s], ind[u])
  IN Then(addFatherToSons(M, tree, ind, A, s, 1), LAMBDA deep :
       Then(addRowsAndUpdate(deep, ind[s], ind[u], len), LAMBDA N :
         addFatherToSons(N, tree, ind, A, u, k + 1)))

RECURSIVE reportAll(_, _, _)
reportAll(M, lines, i) == IF i = 0 THEN M ELSE reportAll(reportn(M, lines[i]), lines, i - 1)

destroyPivot(M, i) == destroyRow(removeRowAndUpdate(M, i), i)

MSTWithA(M, m, ind, A) ==
  Then(minimalSpanningTree(A, m), LAMBDA tree :
    Then(historyLines(tree, ind, 0), LAMBDA lines :
      Then(addFatherToSons(M, tree, ind, A, 0, 1), LAMBDA added :
        Then(reportAll(added, lines, Len(lines)), LAMBDA N : destroyPivot(N, ind[0])))))

\* Mutant of tryAllCombinations: the two rows are written in the wrong order.
tryAllSwapped(M, ind) ==
  Then(reportn(addRowsAndUpdate(M, ind[1], ind[0], -1), <<ind[1], ind[0]>>),
       LAMBDA N : destroyPivot(N, ind[0]))

\* With two rows the first one is the pivot.
tryAllCombinations(M, ind) ==
  Then(reportn(addRowsAndUpdate(M, ind[1], ind[0], -1), <<ind[0], ind[1]>>),
       LAMBDA N : destroyPivot(N, ind[0]))

findOptimalCombination(M, m, ind) ==
  IF m <= 2 THEN tryAllCombinations(M, ind)
  ELSE Then(fillRowAddMatrix(M, m, ind), LAMBDA A : MSTWithA(M, m, ind, A))

mergeForColumn(M, j, ind) ==
  removeColumnAndUpdate([findOptimalCombination(M, M.wt[j], ind) EXCEPT
                           !.rem_nrows = @ - 1, !.rem_ncols = @ - 1], j)

mergeForColumn2(M, j, ind) == Then(mergeForColumn(M, j, ind), LAMBDA N : deleteHeavyColumns(N))

(***************************************************************************)
(* Deleting rows.                                                          *)
(***************************************************************************)

rowsOfSingleton(M, j) ==
  LET RECURSIVE rows(_, _)
      rows(N, T) ==
        IF T = {} THEN N ELSE
        LET i == CHOOSE i \in T : TRUE
        IN Then(remove_j_from_row(N, i, j), LAMBDA K :
             Then([removeRowDefinitely(K, i) EXCEPT !.rem_ncols = @ - 1], LAMBDA L : rows(L, T \ {i})))
  IN rows(M, M.R[j])

\* Mutant of removeColDefinitely: the column keeps its cell.
removeColKeepCell(M, j) == [rowsOfSingleton(M, j) EXCEPT !.R[j] = {}]

\* The column has one row left: column and row go.
removeColDefinitely(M, j) == removeColumnAndUpdate(rowsOfSingleton(M, j), j)

isRowToBeDeleted(M, i) == ~isRowNull(M, i) /\ \A j \in M.rows[i] : M.wt[j] < 0

\* Mutant of dropUseless: the useless rows are removed from the matrix.
RECURSIVE dropUselessDef(_, _)
dropUselessDef(M, T) ==
  IF T = {} THEN M
  ELSE LET i == CHOOSE i \in T : TRUE
       IN Then(removeRowDefinitely(M, i), LAMBDA N : dropUselessDef(N, T \ {i}))

\* The rows that are no longer useful leave the memory, not the matrix.
RECURSIVE dropUseless(_, _)
dropUseless(M, T) ==
  IF T = {} THEN M
  ELSE LET i == CHOOSE i \in T : TRUE
       IN Then(destroyPivot(M, i), LAMBDA N : dropUseless(N, T \ {i}))

RECURSIVE inspectRowWeight(_, _, _)
inspectRowWeight(M, i, nirem) ==
  LET useless == {k \in RowsOf(M) : isRowToBeDeleted(M, k)} IN
  IF i = Cardinality(RowsOf(M)) \/ nirem > NIREMMAX THEN dropUseless(M, useless)
  ELSE IF excess(M) <= M.keep THEN M
  ELSE IF ~isRowNull(M, i) /\ lengthRow(M, i) > M.rwmax
       THEN Then(removeRowDefinitely(M, i), LAMBDA N : inspectRowWeight(N, i + 1, nirem + 1))
       ELSE inspectRowWeight(M, i + 1, nirem)

\* The rows of tmp[] in the order of their scores, the largest first; rows of
\* equal scores come in any order.
RECURSIVE deleteRows(_, _, _, _, _)
deleteRows(M, keep, nirem, cand, score) ==
  IF nirem = 0 \/ excess(M) <= keep \/ cand = {} THEN {M}
  ELSE UNION {Then(removeRowDefinitely(M, i), LAMBDA N :
                     deleteRows(N, keep, nirem - 1, cand \ {i}, score)) :
                i \in {k \in cand : \A l \in cand : score[l] <= score[k]}}

\* findSuperfluousRowsFor2: of each column of weight 3 a heaviest row, for at
\* most rem_nrows columns.
heaviest(M, j) == {i \in M.R[j] : \A k \in M.R[j] : lengthRow(M, k) <= lengthRow(M, i)}
findSuperfluousRowsFor2(M) ==
  {C \in SUBSET UNION {heaviest(M, j) : j \in S(M, 3)} :
     /\ Cardinality(C) <= Cardinality(S(M, 3))
     /\ IF Cardinality(S(M, 3)) <= M.rem_nrows
        THEN \A j \in S(M, 3) : heaviest(M, j) \cap C # {}
        ELSE C # {}}

\* The possible results of deleteSuperfluousRows.
deleteSuperfluousRows(M, keep, niremmax, m) ==
  LET live == {i \in RowsOf(M) : ~isRowNull(M, i)}
      length == [i \in live |-> lengthRow(M, i)]
  IN IF excess(M) <= keep \/ niremmax <= 0 THEN {M}
     ELSE IF m = 2 /\ S(M, 3) # {}
     THEN UNION {deleteRows(M, keep, niremmax, C, [i \in C |-> 0]) : C \in findSuperfluousRowsFor2(M)}
     ELSE deleteRows(M, keep, niremmax, live, length)

\* C division rounds towards zero.
cdiv(a, b) == IF a >= 0 THEN a \div b ELSE -((-a) \div b)

number_of_superfluous_rows(M) ==
  LET kappa == cdiv(excess(M), M.keep) IN
  IF kappa <= 2^4 THEN M.keep \div 2
  ELSE IF kappa <= 2^5 THEN M.keep * (kappa \div 4)
  ELSE IF kappa <= 2^10 THEN M.keep * (kappa \div 8)
  ELSE IF kappa <= 2^15 THEN M.keep * (kappa \div 16)
  ELSE IF kappa <= 2^20 THEN M.keep * (kappa \div 32)
  ELSE M.keep * (kappa \div 64)

my_cost(M) ==
  IF par.forbw = 3 THEN M.weight \div M.rem_nrows ELSE M.rem_nrows * M.weight

(***************************************************************************)
(* mergeOneByOne.                                                          *)
(***************************************************************************)

loc0 == [m |-> 2, mmax |-> 0, njproc |-> 0, target |-> TARGET, ncost |-> 0,
         bwcost |-> 0, oldbwcost |-> 0, bwcostmin |-> 0, old_ncols |-> 0]

Init ==
  /\ rels \in Inputs
  /\ par \in Pars
  /\ mat = filter_matrix_read(rels, Cols, par)
  /\ loc = loc0
  /\ pc = "loop"
  /\ kills = 0

\* The head of the loop: stop, or choose the kind of merge by the least weight.
LoopHead ==
  LET m == minColWeight(mat)
      mmax == IF m > loc.mmax THEN m ELSE loc.mmax
      stop == \/ par.itermax # 0 /\ loc.njproc >= par.itermax
              \/ mmax > par.maxlevel
              \/ m = -1
  IN /\ pc = "loop"
     /\ loc' = [loc EXCEPT !.m = m, !.mmax = mmax, !.oldbwcost = loc.bwcost,
                           !.old_ncols = mat.rem_ncols]
     /\ pc' = IF stop THEN "final" ELSE "merge"
     /\ UNCHANGED <<rels, par, mat, kills>>

\* doOneMerge with m = 1: all columns of S[1] in turn.
RemoveSingletons ==
  /\ pc = "merge" /\ loc.m = 1
  /\ \E j \in S(mat, 1) : mat' = removeColDefinitely(mat, j)
  /\ pc' = IF S(mat', 1) = {} THEN "clean" ELSE "merge"
  /\ UNCHANGED <<rels, par, loc, kills>>

\* doOneMerge with m = 2 (merge_m_fast: all columns of S[2]) and with m > 2 (one).
MergeColumn ==
  /\ pc = "merge" /\ loc.m > 1
  /\ \E j \in S(mat, loc.m) : \E ind \in Orderings(mat.R[j]) :
       mat' = mergeForColumn2(mat, j, ind)
  /\ pc' = IF loc.m = 2 /\ S(mat', 2) # {} THEN "merge" ELSE "clean"
  /\ UNCHANGED <<rels, par, loc, kills>>

\* Empty columns are dropped; every TARGET columns superfluous and heavy rows are.
Clean ==
  LET njproc == loc.njproc + loc.old_ncols - mat.rem_ncols
      due == njproc >= loc.target
  IN /\ pc = "clean"
     /\ \E M \in {deleteEmptyColumnsSWAR(mat)} :
        \E N \in (IF due THEN deleteSuperfluousRows(M, M.keep, number_of_superfluous_rows(M), loc.m)
                  ELSE {M}) :
          LET seen == IF due THEN inspectRowWeight(N, 0, 0) ELSE N
          IN /\ mat' = IF due /\ par.forbw \notin {0, 3}
                       THEN reportCost(seen, "BWCOST", my_cost(M)) ELSE seen
             /\ loc' = [loc EXCEPT !.njproc = njproc, !.bwcost = my_cost(M),
                                   !.target = IF due THEN njproc + TARGET ELSE @]
     /\ pc' = "cost"
     /\ UNCHANGED <<rels, par, kills>>

\* The least cost is kept (and noted in the history), a cost that is too high
\* deletes the rows in excess, and stops the loop once there are none.
Cost ==
  LET lower == loc.bwcostmin = 0 \/ loc.bwcost < loc.bwcostmin
      min == IF lower THEN loc.bwcost ELSE loc.bwcostmin
      noted == IF lower /\ par.forbw \notin {0, 3} THEN reportCost(mat, "BWCOST", loc.bwcost) ELSE mat
      high == par.forbw = 0 /\ loc.bwcost * par.ratio[2] > min * par.ratio[1]
      surplus == excess(mat) > mat.keep
  IN /\ pc = "cost"
     /\ \E M \in {noted} :
          mat' \in (IF high /\ surplus THEN deleteSuperfluousRows(M, M.keep, excess(M) + M.keep, -1)
                   ELSE {M})
     /\ loc' = [loc EXCEPT !.bwcostmin = min]
     /\ pc' = IF (high /\ ~surplus) \/ (par.forbw = 3 /\ loc.bwcost > par.coverNmax)
              THEN "final" ELSE "trend"
     /\ UNCHANGED <<rels, par, kills>>

\* With an optimization function other than 0 the loop also stops when the cost
\* has increased too often in a row and no row can be deleted.
Trend ==
  LET worse == par.forbw # 0 /\ loc.oldbwcost # 0 /\ loc.bwcost > loc.oldbwcost
      ncost == IF worse THEN loc.ncost + 1 ELSE 0
  IN /\ pc = "trend"
     /\ IF worse /\ ncost >= NCOSTMAX
        THEN /\ mat' \in deleteSuperfluousRows(mat, mat.keep, 128, loc.m)
             /\ LET nirem == mat.rem_nrows - mat'.rem_nrows
                IN /\ pc' = IF nirem = 0 THEN "final" ELSE "loop"
                   /\ loc' = [loc EXCEPT !.ncost = ncost, !.njproc = @ + nirem]
        ELSE mat' = mat /\ loc' = [loc EXCEPT !.ncost = ncost] /\ pc' = "loop"
     /\ UNCHANGED <<rels, par, kills>>

Final ==
  /\ pc = "final"
  /\ \E N \in (IF par.itermax = 0
               THEN deleteSuperfluousRows(mat, mat.keep, excess(mat) + mat.keep, -1) ELSE {mat}) :
       mat' = IF par.forbw \in {0, 3} THEN N ELSE reportCost(N, "BWCOSTMIN", loc.bwcostmin)
  /\ pc' = "done"
  /\ UNCHANGED <<rels, par, loc, kills>>

(***************************************************************************)
(* Resuming from a history file.                                           *)
(***************************************************************************)

\* doAllAdds: a line "i i1 .. ik" adds row i to the others and destroys it; with
\* a negative first number row -i - 1 is added and kept.
doAllAdds(M, v) ==
  LET i0 == IF v[1] < 0 THEN -v[1] - 1 ELSE v[1]
      RECURSIVE adds(_, _)
      adds(N, k) == IF k > Len(v) THEN N
                    ELSE Then(addRowsAndUpdate(N, v[k], i0, -1), LAMBDA L : adds(L, k + 1))
  IN Then(reportn(adds(M, 2), v), LAMBDA added :
       IF v[1] < 0 THEN added
       ELSE [destroyPivot(added, i0) EXCEPT !.rem_nrows = @ - 1])

RECURSIVE readHistory(_, _, _)
readHistory(M, his, k) ==
  IF k > Len(his) THEN M
  ELSE Then(IF his[k].kind = "rows" THEN doAllAdds(M, his[k].v) ELSE M,
            LAMBDA N : readHistory(N, his, k + 1))

\* At the end the columns that have become empty leave, the others are counted.
resume(M, his) ==
  Then(readHistory(M, his, 1), LAMBDA read :
    LET empty == {j \in ColsOf(M) : read.wt[j] = 0 /\ read.alive[j]} IN
    [read EXCEPT !.alive = [j \in DOMAIN @ |-> @[j] /\ j \notin empty],
                 !.R = [j \in DOMAIN @ |-> IF j \in empty THEN NULL ELSE @[j]],
                 !.rem_ncols = Cardinality({j \in ColsOf(M) : read.wt[j] # 0})])

\* The program is killed: its memory is lost, some prefix of the history is on
\* disk (an incomplete last line is not read).
Kill ==
  /\ pc \notin {"done", "killed"} /\ kills < MaxKills
  /\ \E n \in 0..Len(mat.his) :
       mat' = [filter_matrix_read(rels, Cols, par) EXCEPT !.his = SubSeq(mat.his, 1, n)]
  /\ loc' = loc0 /\ pc' = "killed" /\ kills' = kills + 1
  /\ UNCHANGED <<rels, par>>

\* A new run reads the purged file and the history file, without -itermax.
Resume ==
  /\ pc = "killed" \/ (pc = "done" /\ par.itermax # 0)
  /\ par' = [par EXCEPT !.itermax = 0]
  /\ mat' = Then(filter_matrix_read(rels, Cols, par), LAMBDA M : resume(M, mat.his))
  /\ loc' = loc0
  /\ pc' = "loop"
  /\ UNCHANGED <<rels, kills>>

Done == pc = "done" /\ par.itermax = 0 /\ UNCHANGED vars

Step == LoopHead \/ RemoveSingletons \/ MergeColumn \/ Clean \/ Cost \/ Trend \/ Final \/ Resume

Next == Step \/ Kill \/ Done

\* The program runs on; kills come at any time.
Spec == Init /\ [][Next]_vars /\ WF_vars(Step)
====
