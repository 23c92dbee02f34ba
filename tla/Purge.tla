------------------------------- MODULE Purge --------------------------------
(***************************************************************************)
(* The program purge, filter/purge.c, as operators on a record             *)
(*   rel_used, rel_compact, H, nrel, nprimes                               *)
(* that Filtering steps through: relations are scanned into the hash table *)
(* of ideals, relations with an ideal that occurs once are deleted until   *)
(* there are none, in the last pass also one relation of each of the       *)
(* largest cliques while the excess is too high, and what is left is       *)
(* written with the ideals renumbered.                                     *)
(*                                                                         *)
(* A relation is a record: free (b = 0), the primes of both sides as read  *)
(* from its line, and root, the value of a/b modulo each prime; the primes *)
(* of the algebraic side of a free relation are roots modulo prime.        *)
(***************************************************************************)
EXTENDS Sequences, SequencesExt, Integers, FiniteSets, Chain

(***************************************************************************)
(* The counting hash table of utils/hashpair.c: open addressing with       *)
(* linear probing.  A slot is free exactly when its count is 0, so that a  *)
(* count that drops to 0 makes a hole in the cluster of its neighbours.    *)
(***************************************************************************)
CONSTANTS
  hashmod,                    \* the number of slots
  getInitialAddressMod(_)     \* the slot where the search for a pair (p, r) starts

Slots == 0..hashmod-1
NoPair == <<-1, -1>>

hashClear == [hashcount |-> [h \in Slots |-> 0], pair |-> [h \in Slots |-> NoPair]]

\* The first slot from h on that is free or holds the pair.  (With neither, the
\* loop of the code has no end: the caller sizes the table.)
getHashAddrAux(H, pair, h) ==
  LET hit(d) == LET s == (h + d) % hashmod IN H.hashcount[s] = 0 \/ H.pair[s] = pair
      first == CHOOSE d \in Slots : hit(d) /\ \A e \in 0..d-1 : ~hit(e)
  IN (h + first) % hashmod

getHashAddr(H, pair) == getHashAddrAux(H, pair, getInitialAddressMod(pair))

\* A free slot takes the pair; the count goes up.
hashInsert(H, pair) ==
  LET h == getHashAddr(H, pair)
  IN [hashcount |-> [H.hashcount EXCEPT ![h] = @ + 1],
      pair |-> IF H.hashcount[h] = 0 THEN [H.pair EXCEPT ![h] = pair] ELSE H.pair]

minus2 == -2

(***************************************************************************)
(* utils/relation.c                                                        *)
(***************************************************************************)

\* Equal primes of a line are put together with their multiplicity.
relation_compress_primes(primes) ==
  [p \in Range(primes) |-> Cardinality({k \in DOMAIN primes : primes[k] = p})]

reduce_exponents_mod2(exps) == {p \in DOMAIN exps : exps[p] % 2 = 1}

\* The ideals of a relation, free or not, that are looked at.
idealsOf(rel, minpr, minpa) ==
  IF rel.free
  THEN (IF rel.prime >= minpr THEN {<<rel.prime, minus2>>} ELSE {})
       \cup {<<rel.prime, r>> : r \in {q \in DOMAIN relation_compress_primes(rel.ap) : rel.prime >= minpa}}
  ELSE {<<p, minus2>> : p \in {q \in reduce_exponents_mod2(relation_compress_primes(rel.rp)) : q >= minpr}}
       \cup {<<p, rel.root[p]>> : p \in {q \in reduce_exponents_mod2(relation_compress_primes(rel.ap)) : q >= minpa}}

(***************************************************************************)
(* Scanning.                                                               *)
(***************************************************************************)

RECURSIVE insertAll(_, _)
insertAll(st, ideals) ==
  IF ideals = {} THEN st
  ELSE LET pair == CHOOSE x \in ideals : TRUE
           h == getHashAddr(st.H, pair)
           H == hashInsert(st.H, pair)
       IN Then([H |-> H, tmp |-> st.tmp \cup {h},
                nprimes |-> st.nprimes + (IF H.hashcount[h] = 1 THEN 1 ELSE 0)],
               LAMBDA new : insertAll(new, ideals \ {pair}))

\* insertNormalRelation and insertFreeRelation: rel_compact[irel] is the set of
\* the slots of the ideals.
insertRelation(P, irel, rel, minpr, minpa) ==
  Then(insertAll([H |-> P.H, tmp |-> {}, nprimes |-> P.nprimes], idealsOf(rel, minpr, minpa)),
       LAMBDA st : [P EXCEPT !.H = st.H, !.nprimes = st.nprimes, !.rel_compact[irel] = st.tmp])

RECURSIVE scanFrom(_, _, _, _, _)
scanFrom(P, rels, irel, minpr, minpa) ==
  IF irel > Len(rels) THEN P
  ELSE Then(IF irel \in P.rel_used THEN insertRelation(P, irel, rels[irel], minpr, minpa) ELSE P,
            LAMBDA Q : scanFrom(Q, rels, irel + 1, minpr, minpa))

\* Only the relations still in use are inserted in the (cleared) table.
scan_relations(P, rels, minpr, minpa) ==
  scanFrom([P EXCEPT !.nprimes = 0, !.H = hashClear], rels, 1, minpr, minpa)

(***************************************************************************)
(* Deleting.                                                               *)
(***************************************************************************)

has_singleton(P, i) == \E h \in P.rel_compact[i] : P.H.hashcount[h] = 1

\* Mutant of delete_relation: ideals that have disappeared are still counted.
delete_keep_nprimes(P, i) ==
  LET tab == P.rel_compact[i]
      count == [h \in Slots |-> P.H.hashcount[h] - (IF h \in tab THEN 1 ELSE 0)]
  IN [P EXCEPT !.H.hashcount = count, !.rel_compact[i] = {},
               !.rel_used = @ \ {i}, !.nrel = @ - 1]

\* delete_relation, and the caller's nrel.
delete_relation(P, i) ==
  LET tab == P.rel_compact[i]
      count == [h \in Slots |-> P.H.hashcount[h] - (IF h \in tab THEN 1 ELSE 0)]
  IN [P EXCEPT !.H.hashcount = count,
               !.nprimes = @ - Cardinality({h \in tab : count[h] = 0}),
               !.rel_compact[i] = {}, !.rel_used = @ \ {i}, !.nrel = @ - 1]

\* The other row of an ideal of weight 2 is found from the sum of the indices.
sumOf(P, h) ==
  FoldSet(LAMBDA i, s : s + i, 0, {i \in P.rel_used : h \in P.rel_compact[i]})

\* compute_connected_component: the rows reached from the rows of T.
RECURSIVE component(_, _)
component(P, T) ==
  LET next == T \cup {sumOf(P, x[2]) - x[1] :
                        x \in {y \in T \X Slots : y[2] \in P.rel_compact[y[1]] /\ P.H.hashcount[y[2]] = 2}}
  IN IF next = T THEN T ELSE component(P, next)

\* One relation of each of the chosen components goes while the excess is above
\* the target; larger components first, in any order among equals.
RECURSIVE deleteDown(_, _, _)
deleteDown(P, comps, target) ==
  IF comps = {} \/ P.nrel - P.nprimes <= target THEN {P}
  ELSE UNION {Then(delete_relation(P, Min(C)), LAMBDA Q : deleteDown(Q, comps \ {C}, target)) :
                C \in {D \in comps : \A E \in comps : Cardinality(E) <= Cardinality(D)}}

\* The possible results of deleteHeavierRows.
deleteHeavierRows(P, keep) ==
  IF P.nrel - P.nprimes <= keep THEN {P}
  ELSE deleteDown(P, {component(P, {i}) : i \in P.rel_used}, (P.nrel - P.nprimes + keep) \div 2)

RECURSIVE onepass(_, _, _)
onepass(P, i, n) ==
  IF i > n THEN P
  ELSE Then(IF i \in P.rel_used /\ has_singleton(P, i) THEN delete_relation(P, i) ELSE P,
            LAMBDA Q : onepass(Q, i + 1, n))

onepass_singleton_removal(P, nrelmax) == onepass(P, 1, nrelmax)

(***************************************************************************)
(* Renumbering and output.                                                 *)
(***************************************************************************)

\* Ideals are numbered from 1 in the order of their slots; free slots get -1, so
\* that a search no longer stops at them.
renumber(H) ==
  [H EXCEPT !.hashcount = [h \in Slots |->
     IF H.hashcount[h] = 0 THEN -1 ELSE Cardinality({k \in 0..h : H.hashcount[k] # 0})]]

\* fprint_rel_row: the numbers of the ideals, from 0.
fprint_rel_row(H, rel) == {H.hashcount[getHashAddr(H, pair)] - 1 : pair \in idealsOf(rel, 0, 0)}

\* reread: the relations still in use, in the order of the files.
reread(H, rels, rel_used, nrows, ncols) ==
  [nrows |-> nrows, ncols |-> ncols, status |-> "ok",
   rows |-> [i \in rel_used |-> fprint_rel_row(H, rels[i])]]
====
