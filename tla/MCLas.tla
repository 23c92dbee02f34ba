---- MODULE MCLas ----
(* Runs of Las: 16 points a line, regions of two lines, two threads or one,   *)
(* primes up to 97, on the algebraic or the rational side of the special q.   *)
EXTENDS Las

Common == [powers |-> TRUE, skew |-> 2, rlim |-> 61, alim |-> 61, lpbr |-> 7, lpba |-> 7, mfbr |-> 14, mfba |-> 14,
           bucket_thresh |-> 16, td_thresh |-> 5, rpow_lim |-> 15, word |-> 256, rat_bound |-> 20, alg_bound |-> 20,
           logmax_rat |-> 16, logmax_alg |-> 24]

MCSettings ==
    {[f |-> <<7, 1, 6>>, g |-> <<-130, 3>>, q0 |-> 61, q1 |-> 97, ratq |-> FALSE, nb_threads |-> 2, alim |-> 97, rlim |-> 89] @@ Common,
     [f |-> <<5, 0, 1, 3>>, g |-> <<-211, 4>>, q0 |-> 53, q1 |-> 60, ratq |-> TRUE, nb_threads |-> 1] @@ Common,
     [f |-> <<-3, 2, 7>>, g |-> <<157, 4>>, q0 |-> 59, q1 |-> 79, ratq |-> FALSE, nb_threads |-> 2] @@ [powers |-> FALSE] @@ Common}

\* The pair (a, b) of a position, and whether the root R modulo p hits it.
Pair(x, s) == xToAB(x, s)
HitBy(e, R, ab) == IF R < e.p THEN (ab.a - R * ab.b) % e.p = 0 ELSE (ab.b - (R - e.p) * ab.a) % e.p = 0

\* Not sieved: the special q itself, and large powers that are projective in (i, j).
LeftOut(e, R, s) ==
    e.p >= s.bucket_thresh /\ (e.p = s.q \/ fb_root_in_qlattice(e.p, R, e.invp, s) > e.p)

\* The sum of the logarithms of what divides at X.
LogsAt(fb, X, s) ==
    Then(Pair(X, s), LAMBDA ab :
    For(1, Len(fb), 0, LAMBDA k, t :
        t + fb[k].plog * Cardinality({n \in DOMAIN fb[k].roots :
                                         HitBy(fb[k], fb[k].roots[n], ab) /\ ~LeftOut(fb[k], fb[k].roots[n], s)})))

Counted(N, x) == LET c == NxToIJ(N, x) IN c.j >= 1 /\ Coprime(c.i, c.j)

\* A logarithm without updates in bucket N before its k-th update: from there on
\* apply_one_bucket fetches the logarithms late.
FetchedLate(B, N, k) ==
    \E l \in 1 .. Len(B.logp) - 1 : B.logp[l].idx[N] = B.logp[l + 1].idx[N] /\ B.logp[l].idx[N] < k

\* Every byte has lost the logarithms of the ideals that divide there, no more and no
\* less, whether they were sieved by buckets, patterns, lines or as bad primes.
SideExact(S0, S, fb, BAs) ==
    \A x \in 0 .. REGION - 1 :
        (/\ Counted(done.N, x)
         /\ \A t \in DOMAIN BAs : \A k \in DOMAIN BAs[t].updates[done.N] :
               BAs[t].updates[done.N][k].x = x => ~FetchedLate(BAs[t], done.N, k))
        => S[x] = (S0[x] - LogsAt(fb, x + done.N * REGION, si)) % 256

\* When a region has been processed, every byte of both sides at a pair that counts
\* holds its first logarithm less those of all factor base ideals that divide there:
\* buckets of all threads, words of patterns, lines and the starting positions of
\* each thread's share add up (apply_one_bucket, sieve_small_bucket_region,
\* process_bucket_region).
SieveExact ==
    done /= Nothing =>
        /\ SideExact(done.rat0, done.rat, par.fb_rat, [t \in Threads |-> BA[t].rat])
        /\ SideExact(done.alg0, done.alg, par.fb_alg, [t \in Threads |-> BA[t].alg])

Product(f) == For(1, Len(f), 1, LAMBDA k, n : n * f[k])

LargePowers == {e.p : e \in {d \in Range(par.fb_alg) : d.p >= par.bucket_thresh /\ ~PrimeNumber(d.p)}}

\* The printed relations are relations of the special q: coprime pairs of its lattice,
\* each once whichever thread finds it, with prime factors (the large powers of the
\* file apart) whose products are the norms (factor_survivors).
RelationsRight ==
    /\ \A k \in DOMAIN rels :
          LET r == rels[k] IN
          /\ (r.a - si.rho * r.b) % si.q = 0
          /\ Coprime(r.a, r.b)
          /\ Product(r.rat) = eval_fij(par.g, r.a, r.b)
          /\ Product(r.alg) = eval_fij(par.f, r.a, r.b)
          /\ \A n \in DOMAIN r.rat : PrimeNumber(r.rat[n])
          /\ \A n \in DOMAIN r.alg : PrimeNumber(r.alg[n]) \/ r.alg[n] \in LargePowers
    /\ \A k, l \in DOMAIN rels : k /= l => <<rels[k].a, rels[k].b>> /= <<rels[l].a, rels[l].b>>

\* What sieving and division leave of a norm: the primes that are not in the factor
\* base, and the special q again.
Cofactor(n, fb) == Product(SelectSeq(PrimeFactors(n), LAMBDA p : p = si.q \/ \A k \in DOMAIN fb : fb[k].p /= p))
Smooth(n, l) == \A p \in Range(PrimeFactors(n)) : p <= 2^l

\* The norms of a pair that should give a relation.
Acceptable(ab) ==
    Then(<<eval_fij(par.g, ab.a, ab.b) \div (IF par.ratq THEN si.q ELSE 1),
           eval_fij(par.f, ab.a, ab.b) \div (IF par.ratq THEN 1 ELSE si.q)>>, LAMBDA n :
         /\ Smooth(n[1], par.lpbr) /\ Smooth(n[2], par.lpba)
         /\ check_leftover_norm(Cofactor(n[1], par.fb_rat), par.lpbr, par.rlim, par.mfbr)
         /\ check_leftover_norm(Cofactor(n[2], par.fb_alg), par.lpba, par.alim, par.mfba))

\* No survivor with an acceptable cofactorization on both sides is lost between the
\* sieve and the output: the primes that resieving, the purged buckets with their cut
\* primes and the trial division find are all the factor base primes of the norms
\* (purge_bucket, resieve_small_bucket_region, trial_div).
RelationsComplete ==
    done /= Nothing =>
        \A x \in 0 .. REGION - 1 :
            (done.rat[x] <= par.rat_bound /\ done.alg[x] <= par.alg_bound /\ Counted(done.N, x)) =>
                Then(Pair(x + done.N * REGION, si), LAMBDA ab :
                     (ab.b /= 0 /\ ~(ab.b >= si.q /\ ab.b % si.q = 0) /\ Acceptable(ab)) =>
                         \E k \in DOMAIN rels : rels[k].a = ab.a /\ rels[k].b = ab.b)
====
