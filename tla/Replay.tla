------------------------------- MODULE Replay -------------------------------
(***************************************************************************)
(* The program replay, filter/replay.c: the matrix for the linear algebra  *)
(* and the index file are computed from the purged file and the history.   *)
(* A row is a set of columns (kept sorted by the code), a new row the set  *)
(* of the purged relations that are added up in it.                        *)
(***************************************************************************)
EXTENDS FilterMatrix

\* doAllAdds on the sets of relations: addRows, then the first row is destroyed
\* unless the number was negative.
replayAdds(newrows, v) ==
  LET destroy == v[1] >= 0
      i == IF destroy THEN v[1] ELSE -v[1] - 1
      others == {v[k] : k \in 2..Len(v)}
      added == [k \in DOMAIN newrows |->
                  IF k \in others THEN SymDiff(newrows[k], newrows[i]) ELSE newrows[k]]
  IN IF destroy THEN [added EXCEPT ![i] = NULL] ELSE added

\* Reading stops at the line that gives the cost bwcostmin, if one is asked for.
RECURSIVE readAdds(_, _, _, _)
readAdds(newrows, his, k, bwcostmin) ==
  IF k > Len(his) THEN newrows
  ELSE IF his[k].kind = "rows"
       THEN Then(replayAdds(newrows, his[k].v), LAMBDA rows : readAdds(rows, his, k + 1, bwcostmin))
  ELSE IF his[k].kind = "BWCOST" /\ bwcostmin # 0 /\ his[k].v[1] = bwcostmin THEN newrows
  ELSE readAdds(newrows, his, k + 1, bwcostmin)

build_newrows_from_file(rows, his, bwcostmin) ==
  Then([i \in rows |-> {i}], LAMBDA newrows : readAdds(newrows, his, 1, bwcostmin))

\* The rows that are left, in the order of their old numbers.
newIndex(newrows, i) == Cardinality({k \in DOMAIN newrows : k < i /\ newrows[k] # NULL})
oldrows(newrows, i) ==
  {newIndex(newrows, k) : k \in {l \in DOMAIN newrows : newrows[l] # NULL /\ i \in newrows[l]}}

\* addrel: relation buf is added to row i, the column weights follow.
addrel(st, buf, i) ==
  LET old == IF st.sparsemat[i] = NULL THEN {} ELSE st.sparsemat[i]
      new == SymDiff(old, buf)
  IN [sparsemat |-> [st.sparsemat EXCEPT ![i] = new],
      colweight |-> [j \in DOMAIN st.colweight |->
                       st.colweight[j] - (IF j \in old THEN 1 ELSE 0) + (IF j \in new THEN 1 ELSE 0)]]

\* Each relation of the purged file goes to all new rows it takes part in; an
\* empty one is skipped.
RECURSIVE addToRows(_, _, _)
addToRows(st, buf, T) ==
  IF T = {} \/ buf = {} THEN st
  ELSE LET i == CHOOSE i \in T : TRUE
       IN Then(addrel(st, buf, i), LAMBDA new : addToRows(new, buf, T \ {i}))

RECURSIVE makeSparse(_, _, _, _)
makeSparse(st, rels, newrows, i) ==
  IF i \notin DOMAIN rels THEN st
  ELSE Then(addToRows(st, rels[i], oldrows(newrows, i)),
            LAMBDA new : makeSparse(new, rels, newrows, i + 1))

\* The columns that occur are numbered from 1 by decreasing weight; code[j] is
\* the number of column j, 0 if it does not occur.  Equal weights: any order.
renumberings(colweight) ==
  LET used == {j \in DOMAIN colweight : colweight[j] > 0} IN
  {code \in [DOMAIN colweight -> 0..Cardinality(used)] :
     /\ \A j \in DOMAIN colweight : code[j] = 0 <=> j \notin used
     /\ \A j, k \in used : code[j] = code[k] => j = k
     /\ \A j, k \in used : colweight[j] > colweight[k] => code[j] < code[k]}

\* flushSparse: columns numbered below skip go to the dense file; row weights are
\* written only for rows that received something.
flushSparse(sparsemat, ncols, code, skip) ==
  LET row(i) == IF sparsemat[i] = NULL THEN {} ELSE {code[j] - 1 : j \in sparsemat[i]}
      written == {i \in DOMAIN sparsemat : sparsemat[i] # NULL}
      wt(x) == Cardinality({i \in DOMAIN sparsemat : x \in row(i)})
  IN [smat |-> [i \in DOMAIN sparsemat |-> {x - skip : x \in {y \in row(i) : y >= skip}}],
      dmat |-> [i \in DOMAIN sparsemat |-> {x \in row(i) : x < skip}],
      srw |-> [i \in written |-> Cardinality({x \in row(i) : x >= skip})],
      scw |-> [x \in 0..ncols-skip-1 |-> wt(x + skip)],
      dcw |-> [x \in 0..skip-1 |-> wt(x)]]

\* makeIndexFile: for each row of the matrix the relations it is made of.
makeIndexFile(newrows) ==
  LET live == {i \in DOMAIN newrows : newrows[i] # NULL} IN
  [k \in 0..Cardinality(live)-1 |-> newrows[CHOOSE i \in live : newIndex(newrows, i) = k]]

replaySparse(rels, cols, newrows) ==
  LET n == Cardinality({i \in DOMAIN newrows : newrows[i] # NULL})
  IN Then([sparsemat |-> [i \in 0..n-1 |-> NULL], colweight |-> [j \in cols |-> 0]],
          LAMBDA st : makeSparse(st, rels, newrows, 0))
====
