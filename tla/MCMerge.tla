---- MODULE MCMerge ----
(***************************************************************************)
(* Merge and replay on small purged files.                                 *)
(***************************************************************************)
EXTENDS Merge, Replay

CONSTANTS NROWS, NCOLS

MCCols == 0..NCOLS-1

\* A purged file: no column with a single row, more rows than columns.  Columns are
\* interchangeable and taken by increasing weight, relations are taken in the order
\* of a number for each set; at most two are equal.
weightOf(r, j) == Cardinality({i \in DOMAIN r : j \in r[i]})
RECURSIVE code(_)
code(s) == IF s = {} THEN 0 ELSE LET x == CHOOSE x \in s : TRUE IN 2^x + code(s \ {x})

MCInputs ==
  {r \in [0..NROWS-1 -> SUBSET MCCols] :
     /\ \A i \in 1..NROWS-1 : code(r[i - 1]) <= code(r[i])
     /\ Cardinality({r[i] : i \in 0..NROWS-1}) >= NROWS - 1
     /\ \A j \in MCCols : weightOf(r, j) >= 2 /\ (j > 0 => weightOf(r, j - 1) <= weightOf(r, j))}

Par(cwmax, rwmax, keep, maxlevel, forbw, ratio, coverNmax, itermax) ==
  [cwmax |-> cwmax, rwmax |-> rwmax, keep |-> keep, maxlevel |-> maxlevel, forbw |-> forbw,
   ratio |-> ratio, coverNmax |-> coverNmax, itermax |-> itermax]

\* One command line for each optimization function.
MCPars == {Par(4, 2, 1, 4, 0, <<11, 10>>, 0, 0),
           Par(3, 9, 2, 3, 1, <<11, 10>>, 0, 1),
           Par(2, 1, 1, 4, 3, <<11, 10>>, 1, 0)}

(***************************************************************************)
(* What the rows are worth.                                                *)
(***************************************************************************)
RECURSIVE Xor(_, _)
Xor(r, T) == IF T = {} THEN {} ELSE LET i == CHOOSE i \in T : TRUE IN SymDiff(r[i], Xor(r, T \ {i}))

New == build_newrows_from_file(DOMAIN rels, mat.his, 0)
Buried == {j \in Cols : -fillmat(filter_matrix_read_weights(rels, Cols), par)[j] > Cardinality(DOMAIN rels) \div DENSITY}
Start == filter_matrix_read(rels, Cols, par)
Live == {i \in RowsOf(mat) : ~isRowNull(mat, i)}

RECURSIVE SumOver(_, _)
SumOver(f, T) == IF T = {} THEN 0 ELSE LET i == CHOOSE i \in T : TRUE IN f[i] + SumOver(f, T \ {i})
Running == pc # "killed"

\* The fields of the matrix keep their types; rem_ncols never leaves 0..NCOLS.
TypeOK ==
  /\ mat.rows \in [DOMAIN rels -> SUBSET Cols \cup {NULL}]
  /\ mat.wt \in [Cols -> Int] /\ mat.alive \in [Cols -> BOOLEAN]
  /\ pc \in {"loop", "merge", "clean", "cost", "trend", "final", "done", "killed"}
  /\ mat.rem_nrows \in Nat /\ mat.rem_ncols \in 0..NCOLS

\* The history file tells the truth at every moment: each row in memory is the sum
\* of the purged relations that replay would add up for it (buried columns aside),
\* a row destroyed in the history is gone from memory, and rem_nrows counts the
\* rows replay will see.  It also holds after a kill and a resumed run.
HistoryFaithful ==
  Running =>
  /\ \A i \in Live : New[i] # NULL /\ mat.rows[i] = Xor(rels, New[i]) \ Buried
  /\ Cardinality({i \in DOMAIN rels : New[i] # NULL})
       = mat.rem_nrows + Cardinality({i \in DOMAIN rels : rels[i] = {}})

\* The column side of the structure agrees with the rows: R[j] and wt[j] of every
\* column with a cell, no row keeps an eliminated column, rem_ncols is the number of
\* columns left, and no assertion of addRows fails (lengths taken from the spanning
\* tree included).
ColumnsAccurate ==
  Running =>
  /\ mat.ok
  /\ \A j \in Cols : mat.alive[j] =>
       /\ mat.R[j] = {i \in Live : j \in mat.rows[i]}
       /\ mat.wt[j] = Cardinality(mat.R[j])
  /\ \A j \in Cols : ~mat.alive[j] /\ mat.wt[j] = 0 => \A i \in Live : j \notin mat.rows[i]
  /\ mat.rem_ncols = Cardinality({j \in Cols : mat.wt[j] # 0}) + Cardinality(S(mat, 0))

\* mat->weight, from which all stopping conditions are computed, is the weight of
\* the rows in memory plus that of the relations dropped while reading.
WeightAccurate ==
  Running =>
  mat.weight = SumOver([i \in Live |-> lengthRow(mat, i) + mat.wburied[i]], Live)
               + SumOver([i \in DOMAIN rels |-> IF Start.rows[i] = NULL THEN Cardinality(rels[i]) ELSE 0], DOMAIN rels)

MCMinOf(a, b) == IF a < b THEN a ELSE b

\* No sequence of merges, deletions, kills and resumed runs brings the excess of
\* rows over columns below keep (or below what the purged file had).
ExcessKept ==
  Running => excess(mat) >= MCMinOf(par.keep, excess(Start))

\* What replay writes from the final history, read to its end or to the least cost:
\* dense and sparse part of each row together are the sum of the relations that the
\* index file names, with the columns renamed, and the column weights are right.
ReplayFaithful ==
  (pc = "done") =>
  \A min \in {0, loc.bwcostmin} :
  LET newrows == build_newrows_from_file(DOMAIN rels, mat.his, min)
      index == makeIndexFile(newrows)
      built == replaySparse(rels, Cols, newrows)
      used == {j \in Cols : \E k \in DOMAIN index : j \in Xor(rels, index[k])}
  IN /\ \A j \in Cols : built.colweight[j] = Cardinality({k \in DOMAIN index : j \in Xor(rels, index[k])})
     /\ \A cd \in renumberings(built.colweight), skip \in {0, 1} \cap 0..Cardinality(used) :
          LET out == flushSparse(built.sparsemat, Cardinality(used), cd, skip)
          IN \A k \in DOMAIN index :
               out.dmat[k] \cup {x + skip : x \in out.smat[k]} = {cd[j] - 1 : j \in Xor(rels, index[k])}

\* The excess that merge aims at is really there in the matrix that replay builds.
SmallExcess ==
  (pc = "done" /\ par.itermax = 0) =>
  LET newrows == build_newrows_from_file(DOMAIN rels, mat.his, 0)
      index == makeIndexFile(newrows)
      used == {j \in Cols : \E k \in DOMAIN index : j \in Xor(rels, index[k])}
  IN Cardinality(DOMAIN index) - Cardinality(used) >= MCMinOf(par.keep, excess(Start))

\* The merge comes to its end, with a run that is not limited by -itermax.
Terminates == <>[](pc = "done" /\ par.itermax = 0)

\* The redundant state of merge agrees with the matrix: columns, weights,
\* counters and excess.
MatrixAccurate == TypeOK /\ ColumnsAccurate /\ WeightAccurate /\ ExcessKept /\ SmallExcess

\* The history is what was done to the rows, and replay rebuilds them from it.
HistoryReplays == HistoryFaithful /\ ReplayFaithful

====
