---- MODULE Ecm ----
(* Cofactorization (sieve/ecm): the plans of P-1, P+1 and ECM (makeplan.c),    *)
(* with their Lucas chains as compressed byte code (prac_bc.c) and the pairs   *)
(* of stage 2 (stage2.c); the methods themselves (pm1.c, pp1.c, ecm.c) and the *)
(* strategy that splits a cofactor into large primes (facul.c, facul_doit.c).  *)
(* A residue is its representative in 0 .. m-1: the arithmetic behind it is    *)
(* the subject of Arith.                                                       *)
EXTENDS Chain, FiniteSets, FiniteSetsExt, Sequences, SequencesExt, TLC

CONSTANTS LONG_BIT      \* width of a word, which chooses the arithmetic of facul

\* op over the elements of a sequence, from left to right
Over(seq, x, op(_, _)) == For(1, Len(seq), x, LAMBDA i, y : op(y, seq[i]))

NEXT_D == 254
NEXT_PASS == 255
FACUL_NOT_SMOOTH == -1
PrimesIn(lo, hi) == {p \in lo .. hi : PrimeNumber(p)}
Ascending(S) == SelectSeq([i \in 1 .. Max(S \cup {0}) |-> i], LAMBDA i : i \in S)

(* stage2.c: the pairs of stage 2                                              *)

\* The flagged number f the division of n by its small factors comes across
\* first, or 0.
find_prime_div(n, min_f, primes) ==
    Then(While([p |-> n, f |-> min_f, hit |-> 0],
               LAMBDA s : s.hit = 0 /\ s.p >= s.f * s.f,
               LAMBDA s : IF s.p % s.f /= 0 THEN [s EXCEPT !.f = @ + 2]
                          ELSE LET q == s.p \div s.f IN
                               [s EXCEPT !.p = q, !.hit = IF q \in primes THEN q ELSE 0]),
         LAMBDA s : IF s.hit /= 0 THEN s.hit ELSE IF s.p \in primes THEN s.p ELSE 0)

D == 210
not_in_d == 11          \* the smallest prime not in d
\* The j below d/2 that are coprime to d.
S_1 == Ascending({j \in 1 .. (D \div 2) - 1 : Divisor(j, D) = 1})

\* One of i d - j and i d + j is flagged.
Needed(i, j, primes) == (i * D >= j /\ i * D - j \in primes) \/ i * D + j \in primes
Row(i, primes, S1) == \E m \in DOMAIN S1 : Needed(i, S1[m], primes)

\* The first pass: a flagged prime's partner that is no flagged prime may have
\* a flagged factor, which then needs no pair of its own.
PairWithComposites(B2, max_i, primes0) ==
    Down(B2, (max_i * D + (D \div 2) - 1) \div not_in_d, primes0, LAMBDA p, primes :
        LET j == p % D
            sj == IF j > D \div 2 THEN j - D ELSE j
            q == p - 2 * sj
        IN  IF p \in primes /\ p >= 2 * sj /\ q \notin primes
            THEN primes \ {find_prime_div(q, not_in_d, primes)} ELSE primes)

\* The second and the third pass, over all pairs in order of decreasing i: the
\* second takes those with a small prime on both sides, the third those with
\* one on either side.
CoverComposites(min_i, max_i, both, S1, primes0) ==
    Down(max_i, IF min_i > 1 THEN min_i ELSE 1, primes0, LAMBDA i, row :
        For(1, Len(S1), row, LAMBDA m, primes :
            LET p == i * D - S1[m]
                q == i * D + S1[m]
            IN  IF q \in primes \/ (~both /\ p \in primes) THEN primes
                ELSE Then(<<find_prime_div(p, not_in_d, primes), find_prime_div(q, not_in_d, primes)>>,
                          LAMBDA r : IF (IF both THEN r[1] /= 0 /\ r[2] /= 0 ELSE r[1] /= 0 \/ r[2] /= 0)
                                     THEN (primes \cup {p}) \ {r[1], r[2]} ELSE primes)))

\* The list of pairs for the flags left: NEXT_D for every increase of i.
WritePairs(min_i, max_i, B2, S1, primes0) ==
    For(min_i, max_i, [pairs |-> <<>>, need |-> 0, primes |-> primes0], LAMBDA i, row :
        Then(For(1, Len(S1), row, LAMBDA m, s :
                 LET j == S1[m] IN
                 IF ~Needed(i, j, s.primes) THEN s
                 ELSE [pairs |-> s.pairs \o [k \in 1 .. s.need |-> NEXT_D] \o <<m - 1>>, need |-> 0,
                       primes |-> s.primes \ ((IF i * D >= j THEN {i * D - j} ELSE {})
                                              \cup (IF i * D + j <= B2 THEN {i * D + j} ELSE {}))]),
             LAMBDA s : [s EXCEPT !.need = @ + 1]))

stage2_make_plan(B2min, B2) ==
    IF B2 <= B2min THEN [B2 |-> B2, d |-> 0, s1 |-> 0, S1 |-> <<>>, i0 |-> 0, i1 |-> 0, pairs |-> <<>>, lost |-> {}, room |-> 0]
    ELSE LET lo == (B2min + (D \div 2)) \div D
             hi == (B2 + (D \div 2)) \div D
         IN  Then(S_1, LAMBDA S1 :
             Then(PrimesIn(B2min + 1, B2), LAMBDA primes :
             Then(Max({i \in lo .. hi : Row(i, primes, S1)}), LAMBDA max_i :
             Then(CoverComposites(lo, max_i, FALSE, S1,
                      CoverComposites(lo, max_i, TRUE, S1, PairWithComposites(B2, max_i, primes))), LAMBDA flags :
             Then(Min({i \in lo .. max_i : Row(i, flags, S1)} \cup {max_i + 1}), LAMBDA min_i :
             Then(WritePairs(min_i, max_i, B2, S1, flags), LAMBDA w :
                  [B2 |-> B2, d |-> D, s1 |-> Len(S1), S1 |-> S1, i0 |-> min_i, i1 |-> max_i + 1,
                   pairs |-> Append(w.pairs, NEXT_PASS),
                   lost |-> w.primes \cap (B2min + 1 .. B2),                          \* "is still set": abort
                   room |-> Cardinality(primes) + ((B2 - B2min) \div D) + 1]))))))

\* What the pairs of a plan stand for: the numbers i d - j and i d + j.
PairValues(plan) ==
    For(1, Len(plan.pairs), [i |-> plan.i0, v |-> {}], LAMBDA k, s :
        IF plan.pairs[k] = NEXT_D THEN [s EXCEPT !.i = @ + 1]
        ELSE IF plan.pairs[k] = NEXT_PASS THEN s
        ELSE LET j == plan.S1[plan.pairs[k] + 1] IN [s EXCEPT !.v = @ \cup {s.i * D - j, s.i * D + j}])

(* prac_bc.c: byte code with a dictionary, and Lucas chains                    *)

\* A dictionary: the key, then the code that stands for it (0: nothing).
pp1_dict == << <<<<11>>, 0>>, <<<<10>>, 0>>, <<<<11, 10>>, 10>>, <<<<3, 0>>, 11>>,
               <<<<3, 11, 10>>, 13>>, <<<<3, 0, 3, 0>>, 14>> >>
ecm_dict == << <<<<11>>, 0>>, <<<<10>>, 0>>, <<<<11, 10>>, 10>>, <<<<3, 0>>, 11>> >>

bytecoder_init(dict) == [dict |-> dict, history |-> <<>>, buffer |-> <<>>,
                         histlen |-> Max({1} \cup {Len(dict[e][1]) + 1 : e \in DOMAIN dict}), overrun |-> FALSE]

dict_matchlen(state, entry) ==
    LET key == state.dict[entry][1]
        agree(n) == \A i \in 1 .. n : state.history[i] = key[i]
    IN  Max({n \in 0 .. Len(key) : n <= Len(state.history) /\ agree(n)})

\* The first entry with the longest match, of a whole key unless partial.
dict_longestmatch(state, partial) ==
    For(1, Len(state.dict), [idx |-> 0, len |-> 0], LAMBDA i, best :
        LET t == dict_matchlen(state, i) IN
        IF t > best.len /\ (partial \/ t = Len(state.dict[i][1])) THEN [idx |-> i, len |-> t] ELSE best)

coder_histadd(c, state) ==
    [state EXCEPT !.history = Append(@, c), !.overrun = @ \/ Len(state.history) + 1 > state.histlen]

coder_histremove(n, state) == [state EXCEPT !.history = SubSeq(@, n + 1, Len(@))]

bytecoder_output(c, state) == [state EXCEPT !.buffer = Append(@, c)]

coder_outputbest(state) ==
    Then(dict_longestmatch(state, FALSE), LAMBDA best :
        IF best.idx = 0 THEN coder_histremove(1, bytecoder_output(state.history[1], state))
        ELSE coder_histremove(best.len,
                 IF state.dict[best.idx][2] /= 0 THEN bytecoder_output(state.dict[best.idx][2], state) ELSE state))

bytecoder_flush(state) == While(state, LAMBDA s : s.history /= <<>>, coder_outputbest)

bytecoder(c, state) ==
    IF state.dict = <<>> THEN bytecoder_output(c, state)
    ELSE While(coder_histadd(c, state),
               LAMBDA s : dict_longestmatch(s, TRUE).len /= Len(s.history), coder_outputbest)

\* The multipliers, in 10^-5.
prac_mul == <<161803, 138197, 172361, 158018, 163284, 161243, 162018, 161721, 161835, 161791>>

\* One step of the chain from (d, e), d >= e: the rule, the new pair, and the
\* additions and doublings it costs.
PracRule(d, e) ==
    IF 4 * d <= 5 * e /\ (d + e) % 3 = 0
    THEN LET d1 == (2 * d - e) \div 3 IN [rule |-> 1, d |-> d1, e |-> (e - d1) \div 2, add |-> 3, dbl |-> 0]
    ELSE IF 4 * d <= 5 * e /\ (d - e) % 6 = 0 THEN [rule |-> 2, d |-> (d - e) \div 2, e |-> e, add |-> 1, dbl |-> 1]
    ELSE IF d <= 4 * e THEN [rule |-> 3, d |-> d - e, e |-> e, add |-> 1, dbl |-> 0]
    ELSE IF (d + e) % 2 = 0 THEN [rule |-> 4, d |-> (d - e) \div 2, e |-> e, add |-> 1, dbl |-> 1]
    ELSE IF d % 2 = 0 THEN [rule |-> 5, d |-> d \div 2, e |-> e, add |-> 1, dbl |-> 1]
    ELSE IF d % 3 = 0 THEN [rule |-> 6, d |-> (d \div 3) - e, e |-> e, add |-> 3, dbl |-> 1]
    ELSE IF (d + e) % 3 = 0 THEN [rule |-> 7, d |-> (d - 2 * e) \div 3, e |-> e, add |-> 3, dbl |-> 1]
    ELSE IF (d - e) % 3 = 0 THEN [rule |-> 8, d |-> (d - e) \div 3, e |-> e, add |-> 3, dbl |-> 1]
    ELSE [rule |-> 9, d |-> d, e |-> e \div 2, add |-> 1, dbl |-> 1]

\* The chain for n with multiplier v: its code goes to state; a chain that ends
\* in a common divisor d # 1 costs 0.
prac_chain(n, v, addcost, doublecost, state) ==
    LET r == (200000 * n + v) \div (2 * v) IN
    IF r >= n THEN [cost |-> addcost * n, state |-> state]
    ELSE Then(While([d |-> n - r, e |-> 2 * r - n, cost |-> doublecost + addcost, state |-> bytecoder(10, state)],
                    LAMBDA s : s.d /= s.e,
                    LAMBDA s : LET swap == s.d < s.e IN
                        Then(IF swap THEN PracRule(s.e, s.d) ELSE PracRule(s.d, s.e), LAMBDA t :
                             [d |-> t.d, e |-> t.e, cost |-> s.cost + t.add * addcost + t.dbl * doublecost,
                              state |-> bytecoder(t.rule, IF swap THEN bytecoder(0, s.state) ELSE s.state)])),
              LAMBDA s : [cost |-> IF s.d = 1 THEN s.cost ELSE 0, state |-> bytecoder(11, s.state)])

\* The index of the first multiplier with the cheapest chain; 0 if there is none.
prac_best(n, addcost, doublecost, bytecost, changecost, dict) ==
    For(1, Len(prac_mul), [best |-> 0, mul |-> 0, state |-> bytecoder_init(dict)], LAMBDA i, b :
        Then(prac_chain(n, prac_mul[i], addcost, doublecost, b.state), LAMBDA c :
            IF c.cost = 0 THEN [b EXCEPT !.state = c.state]
            ELSE Then(bytecoder_flush(c.state), LAMBDA st :
                 Then(c.cost + bytecost * Len(st.buffer)
                      + changecost * Cardinality({j \in 2 .. Len(st.buffer) : st.buffer[j - 1] /= st.buffer[j]}),
                      LAMBDA cost : [best |-> IF b.best = 0 \/ cost < b.best THEN cost ELSE b.best,
                                     mul |-> IF b.best = 0 \/ cost < b.best THEN i ELSE b.mul,
                                     state |-> [st EXCEPT !.buffer = <<>>]])))).mul

\* bytecost and changecost are 1 in all plans.
prac_bytecode(k, addcost, doublecost, state) ==
    prac_chain(k, prac_mul[prac_best(k, addcost, doublecost, 1, 1, state.dict)], addcost, doublecost, state).state

(* makeplan.c                                                                  *)

\* How many factors p stage 1 takes: one for every power of p up to the bound.
Powers(p, bound) == While([q |-> 1, n |-> 0], LAMBDA s : s.q <= bound, LAMBDA s : [q |-> s.q * p, n |-> s.n + 1]).n

\* E is the list of its prime factors.
pm1_make_plan(B1, B2) ==
    [B1 |-> B1, exp2 |-> Powers(2, B1 \div 2),
     E |-> Over(Ascending(PrimesIn(3, B1)), <<>>, LAMBDA E, p : E \o [k \in 1 .. Powers(p, B1 \div (p - 1)) |-> p]),
     stage2 |-> stage2_make_plan(B1, B2)]

Chains(ps, addcost, doublecost, dict) ==
    bytecoder_flush(bytecoder(12, Over(ps, bytecoder_init(dict), LAMBDA st, p : prac_bytecode(p, addcost, doublecost, st))))

\* The odd primes of stage 1 with their multiplicities.
OddPrimes(B1) == Over(Ascending(PrimesIn(3, B1)), <<>>, LAMBDA ps, p : ps \o [k \in 1 .. Powers(p, B1 \div p) |-> p])

pp1_make_plan(B1, B2) ==
    [B1 |-> B1, exp2 |-> Powers(2, B1 \div 2), bc |-> Chains(OddPrimes(B1), 10, 10, pp1_dict).buffer,
     stage2 |-> stage2_make_plan(B1, B2)]

ecm_make_plan(B1, B2, parameterization, sigma, extra_primes) ==
    LET two == IF extra_primes THEN IF parameterization = "MONTY16" THEN 4 ELSE 2 ELSE 0
        three == IF extra_primes /\ parameterization \in {"BRENT12", "MONTY12"} THEN <<3>> ELSE <<>>
    IN  [B1 |-> B1, exp2 |-> two + Powers(2, B1 \div 2), parameterization |-> parameterization, sigma |-> sigma,
         bc |-> Chains(three \o OddPrimes(B1), 6, 5, ecm_dict).buffer, stage2 |-> stage2_make_plan(B1, B2)]

(* pp1.c and pm1.c                                                             *)

pp1_add(a, b, d, m) == (a * b - d) % m
pp1_double(a, m) == (a * a - 2) % m

\* One byte of code: A and B with their difference C.
pp1_code(c, s, m) ==
    LET A == s[1] B == s[2] C == s[3]
        sum == pp1_add(A, B, C, m)
        twice == pp1_double(A, m)
    IN  CASE c = 0  -> <<B, A, C>>
          [] c = 1  -> <<pp1_add(sum, A, B, m), pp1_add(B, sum, A, m), C>>
          [] c = 2  -> <<twice, sum, C>>
          [] c = 3  -> <<A, sum, B>>
          [] c = 4  -> <<twice, sum, C>>
          [] c = 5  -> <<twice, B, pp1_add(C, A, B, m)>>
          [] c = 6  -> <<pp1_add(twice, A, A, m), pp1_add(twice, sum, C, m), B>>
          [] c = 7  -> <<pp1_add(A, twice, A, m), pp1_add(sum, A, B, m), C>>
          [] c = 8  -> <<pp1_add(A, twice, A, m), sum, pp1_add(C, A, B, m)>>
          [] c = 9  -> <<A, pp1_double(B, m), pp1_add(C, B, A, m)>>
          [] c = 10 -> <<pp1_double(sum, m), sum, sum>>
          [] c = 11 -> <<sum, A, B>>
          [] c = 13 -> LET n == pp1_add(A, sum, B, m) IN <<pp1_double(n, m), n, n>>
          [] c = 14 -> <<pp1_add(A, sum, B, m), sum, A>>

pp1_stage1(X, code, m) ==
    Then(Over(code, <<pp1_double(X, m), X, X>>, LAMBDA s, c : IF c = 12 THEN s ELSE pp1_code(c, s, m)),
         LAMBDA s : pp1_add(s[1], s[2], s[3], m))

\* mod_V_ul: V_n(X)
V(X, n, m) ==
    IF n = 0 THEN 2 % m
    ELSE For(2, n, <<2 % m, X>>, LAMBDA i, s : <<s[2], pp1_add(X, s[2], s[1], m)>>)[2]

\* V_j(X) for the j of S_1, along the progressions 1 + 6k and 5 + 6k, and V_d(X).
pp1_progressions(X, S1, m) ==
    Then(pp1_double(X, m), LAMBDA X2 : Then(pp1_add(X2, X, X, m), LAMBDA X3 :
    Then(<<pp1_add(X3, X2, X, m), pp1_double(X3, m)>>, LAMBDA y :
    LET X5 == y[1] X6 == y[2]
        first == IF S1[1] = 1 THEN <<X>> ELSE <<>>
        start == IF Len(first) < Len(S1) /\ S1[Len(first) + 1] = 5 THEN Append(first, X5) ELSE first
    IN  Then(While([Xj |-> start, i1 |-> 7, i5 |-> 11, p1 |-> <<X, pp1_add(X6, X, X5, m)>>, p5 |-> <<X5, pp1_add(X6, X5, X, m)>>],
                   LAMBDA s : Len(s.Xj) < Len(S1),
                   LAMBDA s : LET j == S1[Len(s.Xj) + 1] IN
                       IF j = s.i1 THEN [s EXCEPT !.Xj = Append(@, s.p1[2])]
                       ELSE IF j = s.i5 THEN [s EXCEPT !.Xj = Append(@, s.p5[2])]
                       ELSE [s EXCEPT !.p1 = <<@[2], pp1_add(@[2], X6, @[1], m)>>, !.i1 = @ + 6,
                                      !.p5 = <<@[2], pp1_add(@[2], X6, @[1], m)>>, !.i5 = @ + 6]),
             LAMBDA s : [Xj |-> s.Xj, Xd |-> V(X6, D \div 6, m)]))))

\* The product of the V_{id}(X) - V_j(X); it goes back to its value at the last
\* increase of i when it becomes 0.
pp1_stage2(X, plan, m) ==
    Then(pp1_progressions(X, plan.S1, m), LAMBDA pre :
    While([l |-> 1, a |-> 1 % m, bk |-> 1 % m, id |-> <<V(pre.Xd, plan.i0, m), V(pre.Xd, plan.i0 + 1, m)>>, stop |-> FALSE],
          LAMBDA s : ~s.stop /\ plan.pairs[s.l] /= NEXT_PASS,
          LAMBDA s0 :
              Then(While(s0, LAMBDA s : plan.pairs[s.l] < NEXT_D,
                         LAMBDA s : [s EXCEPT !.a = (@ * (s.id[1] - pre.Xj[plan.pairs[s.l] + 1])) % m, !.l = @ + 1]), LAMBDA s :
                   IF s.a = 0 THEN [s EXCEPT !.a = s.bk, !.stop = TRUE]
                   ELSE IF plan.pairs[s.l] = NEXT_D
                   THEN [s EXCEPT !.bk = s.a, !.id = <<@[2], pp1_add(@[2], pre.Xd, @[1], m)>>, !.l = @ + 1]
                   ELSE [s EXCEPT !.bk = s.a]))).a

\* The factor f found and whether backtracking was used. A base that becomes 1
\* while the factors 2 are taken is set back once.
pm1(m, plan) ==
    Then(While([x |-> Over(plan.E, 2 % m, LAMBDA x, p : PowerMod(x, p, m)), i |-> 0, bt |-> 0],
               LAMBDA s : s.i < plan.exp2 /\ s.bt = 0,
               LAMBDA s : LET sq == (s.x * s.x) % m IN
                          IF sq = 1 THEN [s EXCEPT !.bt = 1] ELSE [s EXCEPT !.x = sq, !.i = @ + 1]), LAMBDA s :
    Then(Divisor(m, (s.x - 1) % m), LAMBDA f :
         IF f > 1 \/ plan.B1 >= plan.stage2.B2 THEN [f |-> f, bt |-> 0]
         ELSE [f |-> Divisor(m, pp1_stage2((Reciprocal(s.x, m) + s.x) % m, plan.stage2, m)), bt |-> s.bt]))

pp1(m, plan) ==
    Then(For(1, plan.exp2, pp1_stage1((2 * Reciprocal(7, m)) % m, plan.bc, m), LAMBDA i, b : pp1_double(b, m)), LAMBDA b :
    Then(Divisor(m, (b - 2) % m), LAMBDA f :
         [f |-> IF f = 1 /\ plan.stage2.B2 > plan.B1 THEN Divisor(m, pp1_stage2(b, plan.stage2, m)) ELSE f, bt |-> 0]))

(* ecm.c: curves in Montgomery form, a point being (x::z)                      *)

ellM_double(P, m, b) ==
    Then(<<((P.x + P.z) * (P.x + P.z)) % m, ((P.x - P.z) * (P.x - P.z)) % m>>, LAMBDA s :
    LET w == (s[1] - s[2]) % m IN
    [x |-> (s[1] * s[2]) % m, z |-> (w * ((((w * b) % m) + s[2]) % m)) % m])

\* P + Q, whose difference is D; (0::0) when P and Q are the same point.
ellM_add(P, Q, Df, m) ==
    Then(<<((P.x - P.z) * ((Q.x + Q.z) % m)) % m, (((P.x + P.z) % m) * (Q.x - Q.z)) % m>>, LAMBDA s :
    Then(<<(s[1] + s[2]) % m, (s[1] - s[2]) % m>>, LAMBDA w :
    [x |-> (((w[1] * w[1]) % m) * Df.z) % m, z |-> (((w[2] * w[2]) % m) * Df.x) % m]))

Bits(e) == While(<<e, 0>>, LAMBDA s : s[1] > 1, LAMBDA s : <<s[1] \div 2, s[2] + 1>>)[2]
BitOf(e, n) == (e \div 2^n) % 2

ellM_mul_ul(P, e, m, b) ==
    CASE e = 0 -> [x |-> 0, z |-> 0]
      [] e = 1 -> P
      [] e = 2 -> ellM_double(P, m, b)
      [] e = 3 -> ellM_add(ellM_double(P, m, b), P, P, m)
      [] e = 4 -> ellM_double(ellM_double(P, m, b), m, b)
      [] OTHER -> Down(Bits(e - 1) - 1, 0, <<P, ellM_double(P, m, b)>>, LAMBDA n, t :
                       IF BitOf(e - 1, n) = 1 THEN <<ellM_add(t[1], t[2], P, m), ellM_double(t[2], m, b)>>
                       ELSE <<ellM_double(t[1], m, b), ellM_add(t[1], t[2], P, m)>>)[2]

ellM_code(c, s, m, b) ==
    LET A == s[1] B == s[2] C == s[3]
        sum == ellM_add(A, B, C, m)
        twice == ellM_double(A, m, b)
    IN  CASE c = 0  -> <<B, A, C>>
          [] c = 1  -> Then(sum, LAMBDA t : <<ellM_add(t, A, B, m), ellM_add(B, t, A, m), C>>)
          [] c = 2  -> <<twice, sum, C>>
          [] c = 3  -> <<A, sum, B>>
          [] c = 4  -> <<twice, sum, C>>
          [] c = 5  -> <<twice, B, ellM_add(C, A, B, m)>>
          [] c = 6  -> Then(twice, LAMBDA t : <<ellM_add(t, A, A, m), ellM_add(t, sum, C, m), B>>)
          [] c = 7  -> <<ellM_add(A, twice, A, m), ellM_add(sum, A, B, m), C>>
          [] c = 8  -> <<ellM_add(A, twice, A, m), sum, ellM_add(C, A, B, m)>>
          [] c = 9  -> <<A, ellM_double(B, m, b), ellM_add(C, B, A, m)>>
          [] c = 10 -> Then(sum, LAMBDA t : <<ellM_double(t, m, b), t, t>>)
          [] c = 11 -> <<sum, A, B>>

ellM_interpret_bytecode(P, code, m, b) ==
    Then(Over(code, <<ellM_double(P, m, b), P, P>>, LAMBDA s, c : IF c = 12 THEN s ELSE ellM_code(c, s, m, b)),
         LAMBDA s : ellM_add(s[1], s[2], s[3], m))

(* Curves in Weierstrass form; the point at infinity is Inf.                   *)

Inf == [x |-> -1, y |-> -1]
Invertible(a, m) == Divisor(m, a % m) = 1
Slope(P, Q, lambda, m) ==
    Then((lambda * lambda - P.x - Q.x) % m, LAMBDA u : [x |-> u, y |-> ((P.x - u) * lambda - P.y) % m])

ellW_double(P, a, m) ==
    IF ~Invertible(2 * P.y, m) THEN Inf
    ELSE Then((((3 * P.x * P.x + a) % m) * Reciprocal(2 * P.y, m)) % m, LAMBDA l : Slope(P, P, l, m))

ellW_add(P, Q, a, m) ==
    IF Invertible(Q.x - P.x, m) THEN Then(((Q.y - P.y) * Reciprocal(Q.x - P.x, m)) % m, LAMBDA l : Slope(P, Q, l, m))
    ELSE IF P = Q THEN ellW_double(P, a, m) ELSE Inf

ellW_mul_ui(P, e, a, m) ==
    IF e = 0 THEN Inf
    ELSE Down(Bits(e) - 1, 0, P, LAMBDA n, T :
              Then(IF T = Inf THEN T ELSE ellW_double(T, a, m), LAMBDA U :
                   IF BitOf(e, n) = 0 THEN U ELSE IF U = Inf THEN P ELSE ellW_add(U, P, a, m)))

(* The curves. On failure x holds the value that has no inverse.               *)

Mul(a, b, m) == (a * b) % m
Cube(a, m) == Mul(Mul(a, a, m), a, m)

Brent12_curve_from_sigma(sigma, m) ==
    Then([u |-> (Mul(sigma, sigma, m) - 5) % m, v |-> (4 * sigma) % m], LAMBDA s :
    Then([x |-> Cube(s.u, m), z |-> Cube(s.v, m), A |-> Mul(Cube((s.v - s.u) % m, m), (3 * s.u + s.v) % m, m)], LAMBDA c :
    Then((4 * Mul(c.x, s.v, m)) % m, LAMBDA b :
    Then(Mul(b, c.z, m), LAMBDA bz :
         IF ~Invertible(bz, m) THEN [ok |-> FALSE, x |-> bz, A |-> c.A]
         ELSE Then(Reciprocal(bz, m), LAMBDA i :
              [ok |-> TRUE, x |-> Mul(c.x, Mul(i, b, m), m), A |-> (Mul(c.A, Mul(i, c.z, m), m) - 2) % m])))))

\* From a and 1/a.
Montgomery12_curve(a, ia, m) ==
    Then(Mul(a, a, m), LAMBDA a2 :
    Then(Mul(ia, Reciprocal(2, m), m), LAMBDA h :
         [ok |-> TRUE, A |-> Mul((ia - Mul((3 * (a2 + 2)) % m, a, m)) % m, Mul(h, h, m), m),
          x |-> Mul((3 * a2 + 1) % m, Mul(h, Reciprocal(2, m), m), m)]))

Montgomery12_curve_from_k(k, m) ==
    IF k = 2 THEN Montgomery12_curve(Mul(-3, Reciprocal(13, m), m), Mul(-13, Reciprocal(3, m), m), m)
    ELSE IF k = 3
    THEN Then(Mul(37, Reciprocal(28, m), m), LAMBDA v :
              IF Invertible(v, m) THEN Montgomery12_curve(Reciprocal(v, m), v, m) ELSE [ok |-> FALSE, x |-> v, A |-> 0])
    ELSE LET P0 == [x |-> (-2) % m, y |-> 4 % m] IN
         Then(ellW_mul_ui(P0, k, (-12) % m, m), LAMBDA T :
         Then(IF T = Inf THEN P0.x ELSE T.x, LAMBDA u :
         Then([u |-> (u * u + 12 * u - 12) % m, v |-> (u * u - 4 * u - 12) % m], LAMBDA s :
         Then(Mul(s.u, s.v, m), LAMBDA t2 :
              IF ~Invertible(t2, m) THEN [ok |-> FALSE, x |-> t2, A |-> 0]
              ELSE Then(Reciprocal(t2, m), LAMBDA i :
                   Montgomery12_curve(Mul(Mul(s.v, s.v, m), i, m), Mul(Mul(s.u, s.u, m), i, m), m))))))

\* The one curve there is, k = 1: it yields (A + 2)/4.
Montgomery16_curve_from_k(m) ==
    Then(<<Reciprocal(3, m), Reciprocal(5, m)>>, LAMBDA r :
    Then((Mul((Mul(r[1], Reciprocal(16, m), m) + 1) % m, r[2], m) + 1) % m, LAMBDA t :
         [x |-> (r[1] + r[2]) % m, b |-> Mul(t, t, m)]))

\* (X, 1) on G Y^2 = X^3 + A X^2 + X as a point of y^2 = x^3 + a x + b
curveW_from_Montgomery(X, A, m) ==
    Then(Mul((Mul((X + A) % m, X, m) + 1) % m, X, m), LAMBDA G :
         IF ~Invertible(G, m) THEN [ok |-> FALSE]
         ELSE Then(<<Reciprocal(G, m), Mul(A, Reciprocal(3, m), m)>>, LAMBDA s :
              [ok |-> TRUE, P |-> [x |-> Mul((X + s[2]) % m, s[1], m), y |-> s[1]],
               a |-> Mul(Mul((1 - s[2] * A) % m, s[1], m), s[1], m)]))

\* Multiplies every x by the z of all the others; the two lists follow one
\* another. t holds the products of the z from the left, p that from the right.
common_z(x, z, m) ==
    LET n == Len(x) IN
    IF n < 2 THEN x
    ELSE Then(For(2, n, <<z[1]>>, LAMBDA i, t : Append(t, Mul(t[i - 1], z[i], m))), LAMBDA t :
         Then(Down(n - 1, 2, [x |-> [x EXCEPT ![n] = Mul(@, t[n - 1], m)], p |-> z[n]], LAMBDA i, s :
                   [x |-> [s.x EXCEPT ![i] = Mul(Mul(@, s.p, m), t[i - 1], m)], p |-> Mul(s.p, z[i], m)]), LAMBDA s :
              [s.x EXCEPT ![1] = Mul(@, s.p, m)]))

\* jP for the j of S_1, and dP as the sum of the last points of the progressions.
ecm_progressions(P, S1, m, b) ==
    Then(ellM_double(P, m, b), LAMBDA P2 : Then(ellM_add(P2, P, P, m), LAMBDA P3 :
    Then(<<ellM_add(P3, P2, P, m), ellM_double(P3, m, b)>>, LAMBDA y :
    LET P5 == y[1] P6 == y[2]
        first == IF S1[1] = 1 THEN <<P>> ELSE <<>>
        start == IF Len(first) < Len(S1) /\ S1[Len(first) + 1] = 5 THEN Append(first, P5) ELSE first
        Next1(s) == [s EXCEPT !.p1 = <<@[2], ellM_add(@[2], P6, @[1], m)>>, !.i1 = @ + 6]
        Next5(s) == [s EXCEPT !.p5 = <<@[2], ellM_add(@[2], P6, @[1], m)>>, !.i5 = @ + 6]
    IN  Then(While([Pj |-> start, i1 |-> 7, i5 |-> 11, p1 |-> <<P, ellM_add(P6, P, P5, m)>>, p5 |-> <<P5, ellM_add(P6, P5, P, m)>>],
                   LAMBDA s : Len(s.Pj) < Len(S1),
                   LAMBDA s : LET j == S1[Len(s.Pj) + 1] IN
                       IF j = s.i1 THEN [s EXCEPT !.Pj = Append(@, s.p1[2])]
                       ELSE IF j = s.i5 THEN [s EXCEPT !.Pj = Append(@, s.p5[2])]
                       ELSE Next5(Next1(s))), LAMBDA s0 :
        Then(IF s0.i1 + s0.i5 >= D THEN s0 ELSE IF s0.i1 < s0.i5 THEN Next1(s0) ELSE Next5(s0), LAMBDA s :
             [Pj |-> s.Pj, last |-> <<s.i1, s.i5>>,
              Pd |-> ellM_add(s.p1[2], s.p5[2], IF s.i1 + 4 = s.i5 THEN ellM_double(P2, m, b) ELSE P2, m)])))))

\* i d P for i0 <= i < i1; the point at infinity is (0::0) for i0 = 0.
ecm_multiples(Pd, i0, i1, m, b) ==
    Then(IF i0 = 0 THEN <<[x |-> 0, z |-> 0]>> ELSE <<>>, LAMBDA s0 :
    Then(i0 + Len(s0), LAMBDA i :
    Then(s0 \o <<ellM_mul_ul(Pd, i, m, b)>> \o (IF i + 1 < i1 THEN <<ellM_mul_ul(Pd, i + 1, m, b)>> ELSE <<>>), LAMBDA s1 :
         For(i + 2, i1 - 1, s1, LAMBDA k, s : Append(s, ellM_add(s[Len(s)], Pd, s[Len(s) - 1], m))))))

ecm_stage2(P, plan, b, m) ==
    Then(ecm_progressions(P, plan.S1, m, b), LAMBDA pre :
    Then(ecm_multiples(pre.Pd, plan.i0, plan.i1, m, b), LAMBDA id :
    LET skip == IF plan.i0 = 0 THEN 1 ELSE 0
        all == pre.Pj \o SubSeq(id, skip + 1, Len(id))
        nj == Len(pre.Pj)
    IN  Then(common_z([k \in DOMAIN all |-> all[k].x], [k \in DOMAIN all |-> all[k].z], m), LAMBDA x :
        LET idx(i) == IF i < skip THEN 0 ELSE x[nj + 1 + i - skip] IN
        Then(While([l |-> 1, i |-> 0, a |-> x[1], bk |-> x[1], bt |-> 0],
                   LAMBDA s : s.bt = 0 /\ plan.pairs[s.l] /= NEXT_PASS,
                   LAMBDA s0 :
                       Then(While(s0, LAMBDA s : plan.pairs[s.l] < NEXT_D,
                                  LAMBDA s : [s EXCEPT !.a = (@ * (idx(s.i) - x[plan.pairs[s.l] + 1])) % m, !.l = @ + 1]), LAMBDA s :
                            IF s.a = 0 THEN [s EXCEPT !.a = s.bk, !.bt = 1]
                            ELSE IF plan.pairs[s.l] = NEXT_D THEN [s EXCEPT !.bk = s.a, !.i = @ + 1, !.l = @ + 1]
                            ELSE [s EXCEPT !.bk = s.a])),
             LAMBDA s : [r |-> s.a, bt |-> s.bt]))))

\* The starting point and (A + 2)/4, or the number without an inverse.
ecm_curve(m, plan) ==
    IF plan.parameterization = "MONTY16"
    THEN Then(Montgomery16_curve_from_k(m), LAMBDA c : [ok |-> TRUE, x |-> c.x, b |-> c.b])
    ELSE Then(IF plan.parameterization = "BRENT12" THEN Brent12_curve_from_sigma(plan.sigma % m, m)
              ELSE Montgomery12_curve_from_k(plan.sigma, m), LAMBDA c :
              [ok |-> c.ok, x |-> c.x, b |-> Mul((c.A + 2) % m, Reciprocal(4, m), m)])

ecm(m, plan) ==
    Then(ecm_curve(m, plan), LAMBDA c :
    IF ~c.ok THEN [f |-> Divisor(m, c.x), bt |-> 0]
    ELSE Then(While([P |-> ellM_interpret_bytecode([x |-> c.x, z |-> 1], plan.bc, m, c.b), i |-> 0, bt |-> 0],
                    LAMBDA s : s.i < plan.exp2 /\ s.bt = 0,
                    LAMBDA s : Then(ellM_double(s.P, m, c.b), LAMBDA Q :
                               IF Q.z = 0 THEN [s EXCEPT !.bt = 1] ELSE [s EXCEPT !.P = Q, !.i = @ + 1])), LAMBDA s :
         Then(Divisor(m, s.P.z), LAMBDA f :
              IF s.bt = 0 /\ f = 1 /\ plan.B1 < plan.stage2.B2
              THEN Then(ecm_stage2(s.P, plan.stage2, c.b, m), LAMBDA t : [f |-> Divisor(m, t.r), bt |-> t.bt])
              ELSE [f |-> f, bt |-> s.bt])))

(* The order of the starting point, by baby steps and giant steps through the  *)
(* multiples of it in Hasse's interval, then by removing primes.               *)

Root(n) == Max({k \in 0 .. n : k * k <= n})

\* The first multiple i of the order the steps come across; 0 for none (abort).
OrderMultiple(P, a, m, known_m, known_r) ==
    LET two == Root(4 * m)
        lo == m - two
        hi == m + two
        ratio == Max({g \in 1 .. 2 * two : (g - 1) * (g - 1) * known_m < 2 * two})
        giant == (((ratio - 1) \div known_m) + 1) * known_m
        g0 == ((lo + (giant \div 2)) \div known_m) * known_m + known_r
        giant_min == IF g0 > lo + (giant \div 2) THEN g0 - known_m ELSE g0
        baby_len == ((giant \div known_m) \div 2) + 1
    IN  Then(ellW_mul_ui(P, known_m, a, m), LAMBDA Pg :
        IF Pg = Inf THEN known_m
        ELSE Then(For(2, baby_len - 1, [B |-> <<Pg>>, i |-> 0], LAMBDA i, s :
                      IF s.i /= 0 THEN s
                      ELSE Then(IF i = 2 THEN ellW_double(Pg, a, m) ELSE ellW_add(s.B[i - 1], Pg, a, m), LAMBDA Q :
                           IF Q = Inf THEN [s EXCEPT !.i = i * known_m] ELSE [s EXCEPT !.B = Append(@, Q)])), LAMBDA baby :
             IF baby.i /= 0 THEN baby.i
             ELSE Then(ellW_mul_ui(P, giant, a, m), LAMBDA G :
             IF G = Inf THEN giant
             ELSE Then(ellW_mul_ui(P, giant_min, a, m), LAMBDA Q0 :
                  IF Q0 = Inf THEN giant_min
                  ELSE Then(While([i |-> giant_min, Q |-> Q0, found |-> 0],
                                  LAMBDA s : s.found = 0 /\ s.i <= hi + giant - 1,
                                  LAMBDA s :
                                      LET js == {j \in 1 .. baby_len - 1 : s.Q.x = baby.B[j].x} IN
                                      IF js /= {}
                                      THEN LET j == Min(js) IN
                                           [s EXCEPT !.found = IF s.Q.y = baby.B[j].y THEN s.i - j * known_m ELSE s.i + j * known_m]
                                      ELSE Then(ellW_add(s.Q, G, a, m), LAMBDA R :
                                           [s EXCEPT !.i = @ + giant, !.Q = R, !.found = IF R = Inf THEN s.i + giant ELSE 0])),
                            LAMBDA s : s.found)))))

\* Every prime of a multiple of the order goes, and comes back as often as needed.
ReduceOrder(P, mult, a, m) ==
    LET Finite(Q, e) == ellW_mul_ui(Q, e, a, m) /= Inf
        Without(o, p) == While(o, LAMBDA x : x % p = 0, LAMBDA x : x \div p)
        Regrown(o, p) ==
            Then(ellW_mul_ui(P, o, a, m), LAMBDA Q0 :
            IF Q0 = Inf THEN o
            ELSE While([o |-> o * p, Q |-> Q0], LAMBDA s : Finite(s.Q, p),
                       LAMBDA s : [o |-> s.o * p, Q |-> ellW_mul_ui(s.Q, p, a, m)]).o)
    IN  Then(While([order |-> mult, cof |-> mult, p |-> 2], LAMBDA s : s.p * s.p <= s.cof,
                   LAMBDA s : LET next == s.p + 1 + (s.p % 2) IN
                       IF s.cof % s.p /= 0 THEN [s EXCEPT !.p = next]
                       ELSE [order |-> Regrown(Without(s.order, s.p), s.p), cof |-> Without(s.cof, s.p), p |-> next]), LAMBDA s :
             IF s.cof > 1 /\ ~Finite(P, s.order \div s.cof) THEN s.order \div s.cof ELSE s.order)

CurveOf(parameterization, sigma, m) ==
    IF parameterization = "BRENT12" THEN Brent12_curve_from_sigma(sigma % m, m) ELSE Montgomery12_curve_from_k(sigma, m)

\* 0 when the curve cannot be made.
ell_pointorder(parameterization, sigma, known_m, known_r, m) ==
    Then(CurveOf(parameterization, sigma, m), LAMBDA c :
    IF ~c.ok THEN 0
    ELSE Then(curveW_from_Montgomery(c.x, c.A, m), LAMBDA w :
         IF ~w.ok THEN 0
         ELSE Then(OrderMultiple(w.P, w.a, m, known_m, known_r), LAMBDA i :
              IF ellW_mul_ui(w.P, i, w.a, m) /= Inf THEN 0 ELSE ReduceOrder(w.P, i, w.a, m))))

\* mod_jacobi for a prime m
Jacobi(a, m) == LET t == PowerMod(a, (m - 1) \div 2, m) IN IF t = m - 1 THEN -1 ELSE t

ellM_curveorder_jacobi(A, x, m) ==
    LET g(y) == Jacobi(Mul((Mul((y + A) % m, y, m) + 1) % m, y, m), m)
        bchar == g(x)
    IN  For(1, m - 1, 2, LAMBDA i, order : order + 1 + (IF bchar = 1 THEN g(i) ELSE -g(i)))

ell_curveorder(parameterization, sigma, m) ==
    Then(CurveOf(parameterization, sigma, m), LAMBDA c : IF c.ok THEN ellM_curveorder_jacobi(c.A, c.x, m) ELSE 0)

(* facul.c and facul_doit.c                                                    *)

\* The methods with the bounds of P-1, P+1, the first curve and the others.
facul_make_strategy(n, fbb, lpb, bounds) ==
    LET ecm_method(i, parameterization, sigma) ==
            [method |-> "EC", plan |-> ecm_make_plan(bounds[i][1], bounds[i][2], parameterization, sigma, TRUE)]
    IN  [lpb |-> lpb, fbb2 |-> fbb * fbb,
         methods |-> <<[method |-> "PM1", plan |-> pm1_make_plan(bounds[1][1], bounds[1][2])],
                       [method |-> "PP1", plan |-> pp1_make_plan(bounds[2][1], bounds[2][2])],
                       ecm_method(3, "MONTY12", 2)>>
                     \o (IF n > 0 THEN <<ecm_method(4, "BRENT12", 11)>> ELSE <<>>)
                     \o [i \in 1 .. n - 1 |-> ecm_method(4, "MONTY12", i + 2)]]

intbits(n) == IF n = 0 THEN 0 ELSE Bits(n) + 1
\* The arithmetic for a modulus: one word, one and a half, two.
Width(n) == IF intbits(n) <= LONG_BIT THEN 0 ELSE IF intbits(n) <= LONG_BIT + (LONG_BIT \div 2) THEN 1 ELSE 2

\* mod_sprp: m - 1 = 2^po2 k.  In two words the zeros counted are the leading
\* ones of the low word (or of the high one, when the low one is 0).
mod_sprp(base, m) ==
    LET w == 2^LONG_BIT
        trailing == Max({k \in 0 .. LONG_BIT * 2 : (m - 1) % 2^k = 0})
        d == IF (m - 1) % w = 0 THEN (m - 1) \div w ELSE m - 1
        clz == LONG_BIT - intbits(d % w)
        k == IF Width(m) = 0 THEN (m - 1) \div 2^trailing ELSE d \div 2^clz
        po2 == IF Width(m) = 0 THEN trailing ELSE clz + (IF (m - 1) % w = 0 THEN LONG_BIT ELSE 0)
    IN  m /= 1 /\ Then(PowerMod(base, k, m), LAMBDA r :
                       r \in {1, m - 1} \/ \E i \in 1 .. po2 - 1 : PowerMod(r, 2^i, m) = m - 1)

primetest(m) == mod_sprp(2, m) /\ mod_sprp(3, m)

NotSmooth == [found |-> FACUL_NOT_SMOOTH, factors |-> <<>>]
Joined(r1, r2) == IF FACUL_NOT_SMOOTH \in {r1.found, r2.found} THEN NotSmooth
                  ELSE [found |-> r1.found + r2.found, factors |-> r1.factors \o r2.factors]

Method(i, m, strategy) ==
    LET t == strategy.methods[i] IN
    IF t.method = "PM1" THEN pm1(m, t.plan) ELSE IF t.method = "PP1" THEN pp1(m, t.plan) ELSE ecm(m, t.plan)

\* Mutant of facul_doit: a prime cofactor is not held against the large prime bound.
RECURSIVE facul_doit_unchecked(_, _, _)
facul_doit_unchecked(m, strategy, i) ==
    LET Prime(k) == k <= strategy.fbb2 \/ primetest(k)
        Part(k, next) == IF Prime(k) THEN [found |-> 1, factors |-> <<k % 2^LONG_BIT>>]
                         ELSE facul_doit_unchecked(k, strategy, next)
    IN  IF i >= Len(strategy.methods) \/ (i > 3 /\ intbits(m) > LONG_BIT) THEN [found |-> 0, factors |-> <<>>]
        ELSE Then(Method(i + 1, m, strategy).f, LAMBDA f :
             IF f \in {1, m} THEN facul_doit_unchecked(m, strategy, i + 1)
             ELSE IF Prime(f) /\ f > strategy.lpb THEN NotSmooth
             ELSE Joined(Part(f, i), Part(m \div f, i + 1)))

\* Methods from number i on (from 0) until one splits m; each part that is no
\* prime goes on, the factor with the same method and the cofactor with the
\* next.  A part that no method splits is left out.
RECURSIVE facul_doit(_, _, _)
facul_doit(m, strategy, i) ==
    LET Large(k) == k <= strategy.fbb2 /\ k > strategy.lpb
        Prime(k) == k <= strategy.fbb2 \/ primetest(k)
        Part(k, next) == IF Prime(k) THEN [found |-> 1, factors |-> <<k % 2^LONG_BIT>>]
                         ELSE facul_doit(k, strategy, next)
    IN  IF i >= Len(strategy.methods) \/ (i > 3 /\ intbits(m) > LONG_BIT) THEN [found |-> 0, factors |-> <<>>]
        ELSE Then(Method(i + 1, m, strategy).f, LAMBDA f :
             IF f \in {1, m} THEN facul_doit(m, strategy, i + 1)
             ELSE LET n == m \div f IN
                  IF Large(f) \/ Large(n) \/ (\E k \in {f, n} : Prime(k) /\ k > strategy.lpb) THEN NotSmooth
                  ELSE Joined(Part(f, i), Part(n, i + 1)))

facul(N, strategy) ==
    IF N <= 0 THEN [found |-> -1, factors |-> <<>>]
    ELSE IF N = 1 \/ intbits(N) > 2 * LONG_BIT - 2 THEN [found |-> 0, factors |-> <<>>]
    ELSE Then(facul_doit(N, strategy, 0), LAMBDA r :
              IF r.found > 1 THEN [r EXCEPT !.factors = SortSeq(@, <)] ELSE r)

(* What the parts promise                                                      *)

\* The pairs of stage 2 cover every prime in ]B2min, B2], fit the memory taken
\* for them and never point outside the tables stage 2 computes.
PlanOk(plan, B2min, B2) ==
    Then(PairValues(plan), LAMBDA s :
         /\ plan.lost = {}
         /\ \A p \in PrimesIn(B2min + 1, B2) : \E v \in s.v : v % p = 0
         /\ Len(plan.pairs) <= plan.room
         /\ s.i < plan.i1 /\ \A k \in DOMAIN plan.pairs : plan.pairs[k] >= NEXT_D \/ plan.pairs[k] < plan.s1)

\* The byte code of the primes ps multiplies by each of them, compressed or not,
\* and never holds more literals back than its window.
ChainOk(ps, X, m) ==
    LET P == [x |-> X, z |-> 1]
        Times(Q, p) == ellM_mul_ul(Q, p, m, 7)
        Same(Q, R) == (Q.x * R.z) % m = (R.x * Q.z) % m /\ R.z /= 0
    IN  /\ \A s \in {Chains(ps, 10, 10, pp1_dict)} :
              ~s.overrun /\ pp1_stage1(X, s.buffer, m) = Over(ps, X, LAMBDA Y, p : V(Y, p, m))
        /\ \A s \in {Chains(ps, 6, 5, ecm_dict)} :
              ~s.overrun /\ Same(ellM_interpret_bytecode(P, s.buffer, m, 7), Over(ps, P, Times))

\* Stage 2 works with the multiples it means to, whatever their denominators.
ProgressionsOk(X, b, m) ==
    LET P == [x |-> X, z |-> 1]
        Same(Q, R) == (Q.x * R.z) % m = (R.x * Q.z) % m
    IN  \A S1 \in {S_1} :
        /\ \A s \in {pp1_progressions(X, S1, m)} :
              s.Xd = V(X, D, m) /\ \A k \in DOMAIN S1 : s.Xj[k] = V(X, S1[k], m)
        /\ \A s \in {ecm_progressions(P, S1, m, b)} :
              /\ s.last[1] + s.last[2] = D
              /\ \A k \in DOMAIN S1 : Same(s.Pj[k], ellM_mul_ul(P, S1[k], m, b))
              /\ Same(s.Pd, ellM_mul_ul(P, D, m, b))
              /\ \A i0 \in 0 .. 2 : \A t \in {ecm_multiples(s.Pd, i0, 5, m, b)} :
                    Len(t) = 5 - i0 /\ \A i \in 1 .. 5 - i0 : Same(t[i], ellM_mul_ul(P, (i0 + i - 1) * D, m, b))

CommonZOk(x, z, m) ==
    \A y \in {common_z(x, z, m)} : \A i \in DOMAIN x :
        (y[i] * z[i]) % m = (x[i] * Over(z, 1, LAMBDA u, v : (u * v) % m)) % m

\* A prime factor p whose multiplicative order stage 1 and one pair of stage 2
\* cover is found, as long as stage 2 covers no other factor of m = p q at once.
PM1Finds(p, q, plan) ==
    LET E == Over(plan.E, 2, LAMBDA x, r : PowerMod(x, r, p))
        g == PowerMod(E, 2^plan.exp2, p)
        covered == g = 1 \/ \E r \in PrimesIn(plan.B1 + 1, plan.stage2.B2) : PowerMod(g, r, p) = 1
    IN  covered => pm1(p * q, plan).f % p = 0

\* The order of the point is exact, divides the order of the curve, and that is
\* a multiple of 12 as both families of curves are made for.
OrderOk(parameterization, sigma, p) ==
    LET c == CurveOf(parameterization, sigma, p)
        w == curveW_from_Montgomery(c.x, c.A, p)
        Multiples == For(2, 2 * p, <<w.P>>, LAMBDA i, s : Append(s, IF s[i - 1] = Inf THEN Inf ELSE ellW_add(s[i - 1], w.P, w.a, p)))
    IN  c.ok /\ w.ok /\ (c.A * c.A) % p /= 4 =>
        \A o \in {ell_pointorder(parameterization, sigma, 1, 0, p)}, h \in {ell_curveorder(parameterization, sigma, p)}, s \in {Multiples} :
            /\ o = Min({i \in DOMAIN s : s[i] = Inf})
            /\ h % o = 0 /\ h % 12 = 0
            /\ ell_pointorder(parameterization, sigma, 12, 0, p) = o

\* Of a number without factors up to the factor base bound: what is returned
\* are large primes below the bound whose product divides it; it is called not
\* smooth only for a prime factor above the bound.
FaculOk(N, fbb, lpb, strategy) ==
    \A r \in {facul(N, strategy)} :
        IF r.found = FACUL_NOT_SMOOTH THEN N <= 0 \/ \E k \in lpb + 1 .. N : N % k = 0 /\ PrimeNumber(k)
        ELSE /\ r.found = Len(r.factors)
             /\ \A k \in DOMAIN r.factors : r.factors[k] > fbb /\ r.factors[k] <= lpb /\ PrimeNumber(r.factors[k])
             /\ N % Over(r.factors, 1, LAMBDA u, v : u * v) = 0
             /\ \A k \in 2 .. Len(r.factors) : r.factors[k - 1] <= r.factors[k]
====
