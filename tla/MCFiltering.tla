---- MODULE MCFiltering ----
(***************************************************************************)
(* Two relation files with duplicates inside and across files, two       *)
(* slices, and hash values that meet in one cluster.                       *)
(***************************************************************************)
EXTENDS Filtering

\* Relations 1 .. 7; 1 and 5 agree in all that dup2 keeps of them, and 4 has j = 0.
MCLinesOf(f) ==
  CASE f = "a" -> <<1, 2, 3, 4>>
    [] f = "b" -> <<3, 5, 6, 1, 7, 2>>

MCSliceOf(r) == r % 2

MCHashOf(r) ==
  <<(CASE r \in {1, 3, 5} -> 3 [] r = 7 -> 0 [] OTHER -> 2),
    (CASE r \in {1, 5} -> 1 [] r = 4 -> 0 [] r = 2 -> 1 [] OTHER -> r)>>

Rel(rp, ap, roots) == [free |-> FALSE, prime |-> 0, rp |-> rp, ap |-> ap, root |-> roots]
Free(p, roots) == [free |-> TRUE, prime |-> p, rp |-> <<p>>, ap |-> roots, root |-> <<>>]
At(x, y) == [p \in {5, 7} |-> IF p = 5 THEN x ELSE y]

\* Small and large primes on both sides, even exponents, two ideals above 5, a free
\* relation.
Kinds == <<Rel(<<5>>, <<5>>, At(1, 2)), Rel(<<2, 5, 5>>, <<7>>, At(1, 2)),
           Rel(<<2, 5>>, <<5>>, At(3, 2)), Free(5, <<1, 3>>)>>

\* Relations 4 and 5 never reach purge together with the others; the first is of the
\* first kind.
MCContents == {k \in [1..5 -> DOMAIN Kinds] : k[1] = 1 /\ \A i \in 1..4 : k[i] <= k[i + 1]}
MCRelation(k, r) == Kinds[CASE r \in 1..3 -> k[r] [] r \in 4..5 -> 1 [] OTHER -> k[r - 2]]

\* Few starting points, long clusters.
MCInitialAddress(pair) == (pair[1] + pair[2]) % 3

Seen(s) == UNION {Range(nodup[s][f]) : f \in made}
LinesIn(s) == FoldSet(LAMBDA f, n : n + Len(nodup[s][f]), 0, made)
SameHash(r, q) == HashOf(r)[2] = HashOf(q)[2]

\* The types of the variables.
TypeOK ==
  /\ made \subseteq relfiles /\ relfiles \subseteq Files /\ cut \subseteq made
  /\ \A s \in Slices, f \in Files : \A r \in Range(nodup[s][f]) : r \in Range(LinesOf(f)) /\ SliceOf(r) = s
  /\ P.rel_used \subseteq DOMAIN P.rels /\ P.nrel \in Nat /\ P.nprimes \in Nat
  /\ out.status \in {"none", "ok", "few", "mismatch"}

\* dup1 and dup2 lose nothing, at no moment, not even by a kill: a relation of a file
\* that has been split is in its slice, or was taken for another one with the same 32
\* bits (or with the bits 0, the mark of a free cell).  The exception is a file in
\* whose splitting dup1 was killed: it exists in slice 0 and is never split again.
NothingLost ==
  \A f \in made \ (cut \cup (IF pc = "split" THEN {Head(todo)} ELSE {})) :
    \A r \in Range(LinesOf(f)) :
      \/ HashOf(r)[2] = 0
      \/ \E q \in Seen(SliceOf(r)) : SameHash(r, q)

\* When purge starts there are no duplicates left, in whatever order the files were
\* listed and however often dup2 was killed half-way, and the number in the logs is
\* the number of relations.
NoDuplicatesLeft ==
  (pc = "purge") =>
  \A s \in Slices : LinesIn(s) = Cardinality(Seen(s)) /\ logs[s] = LinesIn(s)

\* What the driver takes for "not enough relations" is never a disagreement between
\* the number it passed to purge and the number that purge read.
CountMatches == out.status # "mismatch"

\* The ideals of the relations that the pass looks at (as a table).
IdealTable ==
  [i \in DOMAIN P.rels |->
     idealsOf(P.rels[i], IF P.final THEN 0 ELSE minpr0, IF P.final THEN 0 ELSE minpa0)] @@ <<>>
LeftIn(ideals) == UNION {ideals[i] : i \in P.rel_used}
WeightOf(ideals, x) == Cardinality({i \in P.rel_used : x \in ideals[i]})

\* Through all deletions nrel and nprimes, whose difference decides everything, are
\* the numbers of relations and ideals left, and the table counts each ideal right.
CountersExact ==
  (pc \in {"remove", "passed"}) =>
  \A ideals \in {IdealTable} :
  /\ P.nrel = Cardinality(P.rel_used)
  /\ P.nprimes = Cardinality(LeftIn(ideals))
  /\ \A i \in P.rel_used : Cardinality(P.rel_compact[i]) = Cardinality(ideals[i])
  /\ \A x \in LeftIn(ideals) : \E h \in Slots : P.H.pair[h] = x /\ P.H.hashcount[h] = WeightOf(ideals, x)

SingletonFree(ideals, T) == \A i \in T : \A x \in ideals[i] : \E k \in T \ {i} : x \in ideals[k]

\* The first pass ends with the largest set of relations without singletons: the
\* order of the deletions does not matter.
LargestKept ==
  (pc = "passed" /\ ~P.final) =>
  \A ideals \in {IdealTable} :
    P.rel_used = UNION {T \in SUBSET (DOMAIN P.rels) : SingletonFree(ideals, T)}

\* Pruning leaves an excess of at most keep, and brings it down no further than to
\* keep (nor to less than what the last pass began with).
ExcessPruned ==
  (pc = "passed" /\ P.final) =>
  LET e == P.nrel - P.nprimes IN e <= keep /\ (e >= keep \/ e >= P.start)

\* The purged file: as many rows and columns as its header says, columns 0 .. ncols-1,
\* each in at least two rows, and two relations share a column exactly if they share
\* the ideal.
PurgedFaithful ==
  (pc = "check" /\ out.status = "ok") =>
  \A ideals \in {IdealTable} :
  LET rows == out.rows
      col(x) == {c \in 0..out.ncols-1 : \A i \in P.rel_used : x \in ideals[i] <=> c \in rows[i]}
  IN /\ Cardinality(DOMAIN rows) = out.nrows
     /\ \A i \in DOMAIN rows : rows[i] \subseteq 0..out.ncols-1 /\ Cardinality(rows[i]) = Cardinality(ideals[i])
     /\ \A c \in 0..out.ncols-1 : Cardinality({i \in DOMAIN rows : c \in rows[i]}) >= 2
     /\ \A x \in LeftIn(ideals) : col(x) # {}

\* The filtering comes to an end: enough relations, or no file left to sieve.
Terminates == <>(pc = "done")

\* Through splits, kills and restarts every relation is kept, and kept once.
EachRelationOnce == TypeOK /\ NothingLost /\ NoDuplicatesLeft /\ CountMatches

\* The counters that steer purge are exact, and what it writes is the largest
\* set of relations without singletons, with the excess asked for.
PurgeRight == CountersExact /\ LargestKept /\ ExcessPruned /\ PurgedFaithful

====
