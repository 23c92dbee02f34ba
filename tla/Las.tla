---- MODULE Las ----
(* The program las: factor bases, then for every special q and root the        *)
(* threads fill their buckets, are joined, and process their shares of the     *)
(* bucket regions, printing relations as they find them.  Settings holds the   *)
(* polynomials and parameters of the runs.                                     *)
EXTENDS Sieve

CONSTANT Settings

VARIABLES pc,      \* where main is
          par,     \* the setting, with factor bases and trial division
          q, roots,
          si,      \* sieve_info of the special q
          BA,      \* by thread, its buckets of both sides, <<>> before
          ssd,     \* by thread, the small sieves of both sides
          region,  \* by thread, its next bucket region
          done,    \* the bytes of the last region processed
          rels     \* the relations printed for the special q

vars == <<pc, par, q, roots, si, BA, ssd, region, done, rels>>

Nothing == [none |-> TRUE]
Threads == 0 .. par.nb_threads - 1

Init ==
    /\ pc = "start" /\ par \in Settings /\ q = 0 /\ roots = <<>>
    /\ si = Nothing /\ BA = <<>> /\ ssd = <<>> /\ region = <<>> /\ done = Nothing /\ rels = <<>>

\* Odd divisors for the trial division, 1 at their end.
trialdiv_init(primes, W) ==
    Then(Append(SelectSeq(primes, LAMBDA p : p /= 2), 1), LAMBDA ps : [k \in DOMAIN ps |-> trialdiv_init_divisor(ps[k], W)])

\* Factor bases and trial division.
Prepare ==
    /\ pc = "start"
    /\ \E lines \in {IF par.powers THEN makefb_with_powers(par.f, par.alim) ELSE makefb(par.f, par.alim)} :
       \E alg \in {fb_read_addproj(lines, factor_small(Last(par.f), par.alim))} :
       \E rat \in {fb_make_linear(par.g[1], par.g[2], par.rlim, Min({par.rpow_lim, par.bucket_thresh - 1}), TRUE)} :
       \E da \in {fb_extract_bycost(alg, par.bucket_thresh, par.td_thresh)} :
       \E dr \in {fb_extract_bycost(rat, par.bucket_thresh, par.td_thresh)} :
          par' = [fb_alg |-> alg, fb_rat |-> rat, primes_alg |-> da, primes_rat |-> dr,
                  trialdiv_alg |-> trialdiv_init(da, par.word), trialdiv_rat |-> trialdiv_init(dr, par.word)] @@ par
    /\ pc' = "next" /\ q' = par.q0 - 1
    /\ UNCHANGED <<roots, si, BA, ssd, region, done, rels>>

\* The next prime with roots, when those of the last one are used up.
NextQ ==
    /\ pc = "next" /\ roots = <<>>
    /\ q' = While(q + 1, LAMBDA n : ~PrimeNumber(n), LAMBDA n : n + 1)
    /\ IF q' >= par.q1 THEN pc' = "end" /\ roots' = <<>>
       ELSE pc' = "next" /\ roots' = poly_roots_ulong(IF par.ratq THEN par.g ELSE par.f, q')
    /\ UNCHANGED <<par, si, BA, ssd, region, done, rels>>

\* The lattice of the last root; the threads are started on empty buckets.
TakeRoot ==
    /\ pc = "next" /\ roots /= <<>>
    /\ roots' = Front(roots)
    /\ si' = sieve_info_update(q, Last(roots), par)
    /\ BA' = [t \in Threads |-> <<>>] /\ ssd' = <<>> /\ region' = <<>> /\ done' = Nothing /\ rels' = <<>>
    /\ pc' = "fill"
    /\ UNCHANGED <<par, q>>

\* The first entry of thread t: the t-th of those above the threshold.
FirstOf(fb, t) == Min({k \in DOMAIN fb : fb[k].p >= par.bucket_thresh}) + t

Fill(t) ==
    /\ pc = "fill" /\ BA[t] = <<>>
    /\ BA' = [BA EXCEPT ![t] = [alg |-> fill_in_buckets(par.fb_alg, FirstOf(par.fb_alg, t), si),
                                rat |-> fill_in_buckets(par.fb_rat, FirstOf(par.fb_rat, t), si)]]
    /\ UNCHANGED <<pc, par, q, roots, si, ssd, region, done, rels>>

\* All joined: the small sieves are set up, each thread gets its copy of them and
\* its share of the regions.
Distribute ==
    /\ pc = "fill" /\ \A t \in Threads : BA[t] /= <<>>
    /\ \E alg \in {init_small_sieve(par.fb_alg, si)} : \E rat \in {init_small_sieve(par.fb_rat, si)} :
          ssd' = [t \in Threads |->
                     Then(<<first_positions(alg, t, si), first_positions(rat, t, si)>>, LAMBDA s :
                          [alg |-> s[1], rat |-> s[2], again |-> [alg |-> copy_small_sieve(s[1], par.primes_alg),
                                                                  rat |-> copy_small_sieve(s[2], par.primes_rat)]])]
    /\ region' = [t \in Threads |-> (si.nb_buckets \div par.nb_threads) * t]
    /\ pc' = "regions"
    /\ UNCHANGED <<par, q, roots, si, BA, done, rels>>

\* Both sides of one region are sieved, the survivors factored.
sieve_region(S0, BAs, small, N) ==
    Then(For(0, par.nb_threads - 1, S0, LAMBDA t, S : apply_one_bucket(S, BAs[t], N)), LAMBDA S : sieve_small_bucket_region(S, small))

Region(t) ==
    LET N == region[t]
        alg_BA == [u \in Threads |-> BA[u].alg]
        rat_BA == [u \in Threads |-> BA[u].rat]
    IN  /\ pc = "regions" /\ N < (si.nb_buckets \div par.nb_threads) * (t + 1)
        /\ \E R0 \in {init_rat_norms_bucket_region(N, si)} :
           \E R \in {sieve_region(R0, rat_BA, ssd[t].rat, N)} :
           \E A0 \in {init_alg_norms_bucket_region(R, N, si)} :
           \E A \in {sieve_region(A0, alg_BA, ssd[t].alg, N)} :
           \E S \in {mark_survivors(R, A, N, si)} :
              /\ rels' = rels \o factor_survivors(S, N, rat_BA, alg_BA, ssd[t].again, si)
              /\ done' = [N |-> N, rat0 |-> R0, rat |-> R, alg0 |-> A0, alg |-> A]
        /\ ssd' = [ssd EXCEPT ![t] = [alg |-> next_region(@.alg), rat |-> next_region(@.rat),
                                      again |-> [alg |-> next_region(@.again.alg), rat |-> next_region(@.again.rat)]]]
        /\ region' = [region EXCEPT ![t] = @ + 1]
        /\ UNCHANGED <<pc, par, q, roots, si, BA>>

AllDone == \A t \in Threads : region[t] = (si.nb_buckets \div par.nb_threads) * (t + 1)

\* The threads are joined.
Join ==
    /\ pc = "regions" /\ AllDone
    /\ pc' = "next"
    /\ UNCHANGED <<par, q, roots, si, BA, ssd, region, done, rels>>

Next == Prepare \/ NextQ \/ TakeRoot \/ (\E t \in 0 .. 1 : t < par.nb_threads /\ Fill(t)) \/ Distribute
          \/ (\E t \in 0 .. 1 : t < par.nb_threads /\ Region(t)) \/ Join

Spec == Init /\ [][Next]_vars
====
