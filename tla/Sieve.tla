---- MODULE Sieve ----
(* The lattice siever: the factor bases (makefb.c, fb.c), buckets (bucket.h),  *)
(* trial division (trialdiv.c) and one special q of las.c, from the reduced    *)
(* basis of the q-lattice to the relations printed.  The sizes the build fixes *)
(* are constants.  An array of bytes is a function from 0; a factor base is a  *)
(* sequence of entries [p, invp, plog, roots].                                 *)
EXTENDS Chain, FiniteSets, FiniteSetsExt, Sequences, SequencesExt, TLC

CONSTANTS LOG_I,              \* I = 2^LOG_I points per line
          LOG_BUCKET_REGION,  \* log of the bytes of a bucket region, > LOG_I
          LONG_BYTES,         \* sizeof (unsigned long)
          REDC_BITS,          \* the 32 of redc_32
          P_BITS,             \* bits of a prime kept in an update
          NORM_MANTISSA       \* bits of mantissa used by the norm tables

I == 2^LOG_I
REGION == 2^LOG_BUCKET_REGION
R32 == 2^REDC_BITS
BUCKET_P_WRAP == 2^(P_BITS + 1)
GUARD == 4
NJ == REGION \div I

Magnitude(a) == IF a < 0 THEN -a ELSE a
Coprime(a, b) == Divisor(Magnitude(a), Magnitude(b)) = 1
PrimesUpTo(n) == SelectSeq([k \in 1 .. n |-> k], LAMBDA k : PrimeNumber(k))
CeilDiv(a, b) == (a + b - 1) \div b

(* Factor bases                                                                *)

\* The logarithm to the base 2^(1/2) of n, rounded (log_scale is 2 per bit).
fb_log(n) == While(0, LAMBDA k : 4^(k + 1) <= 2 * n^4, LAMBDA k : k + 1)

\* The prime of a proper prime power, 0 for a prime.
is_prime_power(q) ==
    LET root(k) == While(1, LAMBDA p : (2 * p + 1)^k <= q * 2^k, LAMBDA p : p + 1)
        ks == {k \in 2 .. 7 : 2^k <= q /\ q % root(k) = 0}
    IN  IF ks = {} THEN 0 ELSE root(Max(ks))

fb_entry(p, plog, roots) == [p |-> p, plog |-> plog, roots |-> roots,
                             invp |-> IF p % 2 = 0 THEN 0 ELSE R32 - Reciprocal(p, R32)]

\* A root a/b of c1 a + c0 b modulo q; a projective one as q + b/a.
fb_make_linear1(c0, c1, q, logp, do_projective) ==
    LET projective == Divisor(q, c1 % q) > 1
        num == IF projective THEN c1 % q ELSE c0 % q
        den == IF projective THEN c0 % q ELSE c1 % q
    IN  IF projective /\ ~do_projective THEN <<>>
        ELSE <<fb_entry(q, logp, <<((-(num * Reciprocal(den, q))) % q) + (IF projective THEN q ELSE 0)>>)>>

\* Primes up to bound; the powers wait in a list until a larger prime comes.
fb_make_linear(c0, c1, bound, powbound, projective) ==
    LET Entry(q, logp) == fb_make_linear1(c0, c1, q, logp, projective)
        NextPower(s) ==
            LET q == Min(s.powers)
                p == is_prime_power(q)
                more == IF q <= powbound \div p THEN {q * p} ELSE {}
            IN  [powers |-> (s.powers \ {q}) \cup more,
                 fb |-> s.fb \o Entry(q, fb_log(q) - fb_log(q \div p))]
    IN  Then(PrimesUpTo(bound), LAMBDA ps :
        For(1, Len(ps), [fb |-> <<>>, powers |-> {}], LAMBDA k, s :
            LET p == ps[k] IN
            Then(While(s, LAMBDA t : t.powers /= {} /\ Min(t.powers) < p, NextPower), LAMBDA t :
                 [fb |-> t.fb \o Entry(p, fb_log(p)),
                  powers |-> t.powers \cup (IF p <= powbound \div p THEN {p * p} ELSE {})])).fb)

(* makefb: the affine roots of f (coefficients from 0) modulo primes, and by   *)
(* Newton's method those modulo the powers a simple root lifts to.             *)
mp_poly_eval(f, a) == LET d == Len(f) - 1 IN Down(d - 1, 0, f[d + 1], LAMBDA i, r : r * a + f[i + 1])
mp_poly_eval_diff(f, a) == LET d == Len(f) - 1 IN Down(d - 1, 1, f[d + 1] * d, LAMBDA i, r : r * a + f[i + 1] * i)

\* <<r - f(r)/f'(r)>> modulo pk, <<>> for a multiple root.
lift_root(f, pk, r) ==
    LET der == mp_poly_eval_diff(f, r) % pk IN
    IF Divisor(pk, der) /= 1 THEN <<>>
    ELSE <<(r - (mp_poly_eval(f, r) % pk) * Reciprocal(der, pk)) % pk>>

\* poly_roots_ulong (see Poly)
poly_roots_ulong(f, p) ==
    IF \A i \in DOMAIN f : f[i] % p = 0 THEN <<>>
    ELSE SelectSeq([k \in 1 .. p |-> k - 1], LAMBDA r : mp_poly_eval(f, r) % p = 0)

makefb(f, alim) ==
    Then(PrimesUpTo(alim), LAMBDA ps :
    For(1, Len(ps), <<>>, LAMBDA k, lines :
        Then(poly_roots_ulong(f, ps[k]), LAMBDA r : IF r = <<>> THEN lines ELSE Append(lines, [q |-> ps[k], roots |-> r]))))

\* The list of waiting powers, in decreasing order.
include_power_ideal(list, ideal) ==
    LET after == Cardinality({i \in DOMAIN list : list[i].q > ideal.q}) IN InsertAt(list, after + 1, ideal)

PowerIdeals(f, p, roots, alim, list) ==
    While([pk |-> p * p, roots |-> roots, list |-> list], LAMBDA s : s.pk <= alim /\ s.roots /= <<>>,
          LAMBDA s : Then(For(1, Len(s.roots), <<>>, LAMBDA i, t : t \o lift_root(f, s.pk, s.roots[i])), LAMBDA t :
                     [pk |-> s.pk * p, roots |-> t,
                      list |-> IF t = <<>> THEN s.list ELSE include_power_ideal(s.list, [q |-> s.pk, roots |-> t])])).list

makefb_with_powers(f, alim) ==
    Then(PrimesUpTo(alim), LAMBDA ps :
    For(1, Len(ps), [lines |-> <<>>, list |-> <<>>], LAMBDA k, s0 :
        LET p == ps[k] IN
        Then(While(s0, LAMBDA s : s.list /= <<>> /\ Last(s.list).q < p,
                   LAMBDA s : [lines |-> Append(s.lines, Last(s.list)), list |-> Front(s.list)]), LAMBDA s :
        Then(poly_roots_ulong(f, p), LAMBDA r :
             IF r = <<>> THEN s
             ELSE [lines |-> Append(s.lines, [q |-> p, roots |-> r]),
                   list |-> IF p * p <= alim THEN PowerIdeals(f, p, r, alim, s.list) ELSE s.list]))).lines)

\* The prime factors up to lim of the leading coefficient.
factor_small(n, lim) == SelectSeq(PrimesUpTo(lim), LAMBDA p : n % p = 0)

\* Bubble sort up to the last exchange.
fb_sortprimes(primes) ==
    While([a |-> primes, l |-> Len(primes)], LAMBDA s : s.l > 1,
          LAMBDA s : For(1, s.l - 1, [a |-> s.a, l |-> 0], LAMBDA k, t :
              IF t.a[k] > t.a[k + 1] THEN [a |-> [t.a EXCEPT ![k] = t.a[k + 1], ![k + 1] = t.a[k]], l |-> k] ELSE t)).a

\* Projective primes below the next line are put in before it, one equal to it
\* gets the projective root as well.  <<>> for a file that is out of order.
fb_read_addproj(lines, proj_primes) ==
    LET Projective(p) == fb_entry(p, fb_log(p), <<p>>)
        Distinct(r) == For(2, Len(r), <<r[1]>>, LAMBDA j, t : IF Last(t) = r[j] THEN t ELSE Append(t, r[j]))
        Line(s, l) ==
            LET q == l.q
                p == IF is_prime_power(q) = 0 THEN q ELSE is_prime_power(q)
                before == SelectSeq(s.proj, LAMBDA x : x < q)
                left == SubSeq(s.proj, Len(before) + 1, Len(s.proj))
                same == left /= <<>> /\ left[1] = q
                roots == IF same /\ q \notin Range(l.roots) THEN Append(l.roots, q) ELSE l.roots
            IN  [fb |-> s.fb \o [i \in DOMAIN before |-> Projective(before[i])]
                             \o <<fb_entry(q, fb_log(q) - fb_log(q \div p), Distinct(fb_sortprimes(roots)))>>,
                 proj |-> IF same THEN Tail(left) ELSE left, max |-> q, ok |-> s.ok /\ q > s.max]
    IN  Then(For(1, Len(lines), [fb |-> <<>>, proj |-> proj_primes, max |-> 0, ok |-> TRUE],
                 LAMBDA k, s : IF s.ok THEN Line(s, lines[k]) ELSE s), LAMBDA s : IF s.ok THEN s.fb ELSE <<>>)

\* The primes that are cheaper to divide by than to sieve again.
fb_extract_bycost(fb, plim, costlim) ==
    LET e == SelectSeq(fb, LAMBDA x : x.p <= plim /\ x.p <= costlim * Len(x.roots) /\ is_prime_power(x.p) = 0)
    IN  [i \in DOMAIN e |-> e[i].p]

(* Roots in the q-lattice, in Montgomery arithmetic to the base R32.           *)

\* x/R32 modulo p for 0 <= x < R32 p
redc_u32(x, p, invp) ==
    LET y == (x + ((x * invp) % R32) * p) \div R32 IN IF y >= p THEN y - p ELSE y

\* x/R32 modulo p for -R32 p < x < R32 p
redc_32(x, p, invp) ==
    LET y == ((x + ((x * invp) % R32) * p) \div R32) % R32
    IN  IF y >= R32 \div 2 THEN (y + p) % R32 ELSE IF y >= p THEN y - p ELSE y

\* <<1/a>> modulo b, <<>> when there is none (modul_inv)
invmod(a, b) == IF Divisor(a % b, b) = 1 THEN <<Reciprocal(a, b)>> ELSE <<>>

\* <<R32/a>> modulo an odd b by the binary method, keeping u a0 = 2^t a and
\* v a0 = -2^t b; then t is brought to REDC_BITS.
invmod_REDC(a0, b0) ==
    LET HalveA(s) == While(s, LAMBDA z : z.a % 2 = 0, LAMBDA z : [z EXCEPT !.a = @ \div 2, !.t = @ + 1, !.v = 2 * @])
        HalveB(s) == While(s, LAMBDA z : z.b % 2 = 0, LAMBDA z : [z EXCEPT !.b = @ \div 2, !.t = @ + 1, !.u = 2 * @])
        Subtract(s) == IF s.a < s.b THEN HalveB([s EXCEPT !.b = @ - s.a, !.v = @ + s.u])
                       ELSE HalveA([s EXCEPT !.a = @ - s.b, !.u = @ + s.v])
        Lower(s) == While(s, LAMBDA z : z.t > REDC_BITS,
                          LAMBDA z : [z EXCEPT !.t = @ - 1, !.u = (@ \div 2) + (IF @ % 2 = 1 THEN (b0 + 1) \div 2 ELSE 0)])
        Raise(s) == While(s, LAMBDA z : z.t < REDC_BITS,
                          LAMBDA z : [z EXCEPT !.t = @ + 1, !.u = IF 2 * @ >= b0 THEN 2 * @ - b0 ELSE 2 * @])
    IN  IF a0 = 0 THEN <<>>
        ELSE IF b0 % 2 = 0 THEN invmod(a0, b0)
        ELSE Then(While(HalveA([a |-> a0, b |-> b0, u |-> 1, v |-> 0, t |-> 0]), LAMBDA s : s.a /= s.b, Subtract), LAMBDA s :
                  IF s.a /= 1 THEN <<>> ELSE <<Raise(Lower(s)).u>>)

\* 1/n modulo R32 for an odd n: (3n) xor 2, then three steps of Newton's method.
invmod_po2(n) ==
    LET three == (3 * n) % R32
        Newton(r) == (2 * r - ((r * r) % R32) * n) % R32
    IN  Then(IF (three \div 2) % 2 = 1 THEN three - 2 ELSE three + 2, LAMBDA r : Newton(Newton(Newton(r))))

\* The root R of (a,b), taken to (i,j): r, or p + 1/r for a projective one;
\* -1 where the program gives up.
fb_root_in_qlattice(p, R, invp, si) ==
    LET u == IF R < p THEN R * si.b1 - si.a1 ELSE si.b1 - (R - p) * si.a1
        v == IF R < p THEN si.a0 - R * si.b0 ELSE (R - p) * si.a0 - si.b0
    IN  IF p % 2 = 0
        THEN IF v % 2 /= 0 THEN ((u % R32) * invmod_po2(v % R32)) % p
             ELSE p + (((v % R32) * invmod_po2(u % R32)) % p)
        ELSE Then(<<redc_32(u, p, invp), redc_32(v, p, invp)>>, LAMBDA w :
             Then(invmod_REDC(w[2], p), LAMBDA inverse :
                  IF inverse /= <<>> THEN redc_u32(w[1] * inverse[1], p, invp)
                  ELSE Then(invmod_REDC(w[1], p), LAMBDA other :
                            IF other = <<>> THEN -1 ELSE redc_u32(w[2] * other[1], p, invp) + p)))

(* Buckets                                                                     *)

\* The reduced basis of the lattice of (p, r) with the offsets a, c and bounds
\* b0, b1 of the walk; ok is FALSE where the subtractive algorithm fails.
reduce_plattice(p, r, J) ==
    LET Far(x) == IF x > J * I THEN 2 * J * I ELSE x
        Basis(a, b) == [ok |-> TRUE, alpha |-> a[1], beta |-> a[2], gamma |-> b[1], delta |-> b[2],
                        a |-> Far(I * a[2] + a[1]), c |-> Far(I * b[2] + b[1]), b0 |-> -a[1], b1 |-> I - b[1]]
        Plus(v, k, w) == <<v[1] + k * w[1], v[2] + k * w[2]>>
        RaiseA(s) == LET k == (-s.a[1]) \div s.b[1] IN [s EXCEPT !.a = Plus(@, k, s.b)]
        LowerB(s) == LET k == s.b[1] \div (-s.a[1]) IN [s EXCEPT !.b = Plus(@, k, s.a)]
        Round(s) == Then(RaiseA(s), LAMBDA t : IF -t.a[1] < I THEN [t EXCEPT !.even = TRUE] ELSE LowerB(t))
    IN  Then(While([a |-> <<-p, 0>>, b |-> <<r, 1>>, even |-> FALSE], LAMBDA s : s.b[1] >= I /\ ~s.even, Round), LAMBDA s :
             IF s.even THEN IF s.a[1] = 0 THEN [ok |-> FALSE]
                            ELSE Basis(s.a, Plus(s.b, 1 + ((s.b[1] - I) \div (-s.a[1])), s.a))
             ELSE IF s.b[1] = 0 THEN [ok |-> FALSE]
             ELSE Basis(Plus(s.a, 1 + ((-s.a[1] - I) \div s.b[1]), s.b), s.b))

\* Per bucket the updates pushed; logp marks where in each bucket a new
\* logarithm begins.
init_bucket_array(n) == [updates |-> [N \in 0 .. n - 1 |-> <<>>], logp |-> <<>>]

bucket_encode_prime(p) == (p \div 2) % 2^P_BITS

push_bucket_update(BA, X, p) ==
    [BA EXCEPT !.updates[X \div REGION] = Append(@, [x |-> X % REGION, p |-> bucket_encode_prime(p)])]

bucket_new_logp(BA, logp) ==
    IF (IF BA.logp = <<>> THEN 0 ELSE Last(BA.logp).val) = logp THEN BA
    ELSE [BA EXCEPT !.logp = Append(@, [val |-> logp, idx |-> [N \in DOMAIN BA.updates |-> Len(BA.updates[N])]])]

\* The points of the lattice of (p, r), from the one after the origin; those
\* with i and j both even are not pushed.
walk_plattice(BA0, p, pli, J) ==
    LET Advance(x) == x + (IF x % I >= pli.b1 THEN pli.a ELSE 0) + (IF x % I < pli.b0 THEN pli.c ELSE 0)
        BothEven(x) == x % 2 = 0 /\ (x \div I) % 2 = 0
    IN  While([x |-> Advance(I \div 2), BA |-> BA0], LAMBDA s : s.x < I * J,
              LAMBDA s : [x |-> Advance(s.x), BA |-> IF BothEven(s.x) THEN s.BA ELSE push_bucket_update(s.BA, s.x, p)]).BA

\* One thread's share of the large primes: the entries of fb from its own on,
\* nb_threads apart.
fill_in_buckets(fb, first, si) ==
    LET Root(BA, e, R) ==
            Then(fb_root_in_qlattice(e.p, R, e.invp, si), LAMBDA r :
                 CASE r = 0 -> push_bucket_update(BA, I + (I \div 2), e.p)
                   [] r = e.p -> push_bucket_update(BA, (I \div 2) + 1, e.p)
                   [] r > e.p -> BA
                   [] OTHER -> Then(reduce_plattice(e.p, r, si.J), LAMBDA pli :
                                    IF pli.ok THEN walk_plattice(BA, e.p, pli, si.J) ELSE BA))
        Entry(BA, e) ==
            Then(bucket_new_logp(BA, e.plog), LAMBDA B0 :
                 IF e.p = si.q THEN B0 ELSE For(1, Len(e.roots), B0, LAMBDA k, B : Root(B, e, e.roots[k])))
    IN  For(0, (Len(fb) - first) \div si.nb_threads, init_bucket_array(si.nb_buckets),
            LAMBDA k, BA : Entry(BA, fb[first + k * si.nb_threads]))

\* Bytes wrap around.
sieve_decrease(S, X, logp) == [x \in DOMAIN S |-> IF x \in X THEN (S[x] - logp) % 256 ELSE S[x]]

\* The next logarithm is fetched when reading reaches the mark of its section,
\* one section per update at most.
apply_one_bucket(S, BA, N) ==
    LET updates == BA.updates[N]
        Fetch(s, k) ==
            IF k - 1 < s.change THEN s
            ELSE [s EXCEPT !.logp = BA.logp[s.j].val, !.j = @ + 1,
                           !.change = IF s.j < Len(BA.logp) THEN BA.logp[s.j + 1].idx[N] ELSE Len(updates)]
    IN  For(1, Len(updates), [S |-> S, j |-> 1, change |-> 0, logp |-> 0], LAMBDA k, s0 :
            Then(Fetch(s0, k), LAMBDA s : [s EXCEPT !.S = sieve_decrease(@, {updates[k].x}, s.logp)])).S

(* Norms                                                                       *)

\* Substitution of (a0 i + a1 j, b0 i + b1 j) in the form f.
fij_from_f(f, si) ==
    LET d == Len(f) - 1
        Step(k, s) ==
            LET f0 == s.h[k + 1]
                h == [l \in 1 .. d + 1 |-> CASE l <= k -> s.h[l]
                                             [] l = k + 1 -> si.a1 * s.h[k + 2]
                                             [] l > k + 1 /\ l <= d -> si.a0 * s.h[l] + si.a1 * s.h[l + 1]
                                             [] OTHER -> si.a0 * s.h[l]]
                g == [l \in 1 .. d + 1 |-> si.b1 * s.g[l] + (IF l > 1 THEN si.b0 * s.g[l - 1] ELSE 0)]
            IN  [g |-> g, h |-> [l \in 1 .. d + 1 |-> h[l] + (IF l > k THEN g[l - k] * f0 ELSE 0)]]
    IN  Down(d - 1, 0, [h |-> f, g |-> [l \in 1 .. d + 1 |-> IF l = 1 THEN 1 ELSE 0]], Step).h

eval_fij(f, i, j) ==
    LET d == Len(f) - 1
    IN  Magnitude(Down(d - 1, 0, [v |-> f[d + 1], jpow |-> 1], LAMBDA k, s :
                       [v |-> s.v * i + f[k + 1] * (s.jpow * j), jpow |-> s.jpow * j]).v)

Bits(n) == While(0, LAMBDA k : 2^k <= n, LAMBDA k : k + 1)

\* The byte the tables give a value: the low bits of the exponent and the first
\* bits of the mantissa select it.  A floating-point zero looks like a 2.
lognorm(v, logmax) ==
    LET n == IF v = 0 THEN 2 ELSE Magnitude(v)
        e == Bits(n) - 1
        k == Bits(logmax - 1)
        m == (n * 2^NORM_MANTISSA) \div 2^e
    IN  IF e % 2^k >= logmax THEN 255
        ELSE GUARD + 2 * (e % 2^k) + (IF m * m >= 2 * 4^NORM_MANTISSA THEN 1 ELSE 0)

\* Norms divided by q on the side of the special q.
RationalValue(i, j, si) == (si.gij[2] * i + si.gij[1] * j) \div (IF si.ratq THEN si.q ELSE 1)
AlgebraicValue(i, j, si) ==
    LET d == Len(si.fij) - 1
    IN  Down(d - 1, 0, si.fij[d + 1], LAMBDA k, v : v * i + si.fij[k + 1] * j^(d - k)) \div (IF si.ratq THEN 1 ELSE si.q)

NxToIJ(N, x) == LET X == x + N * REGION IN [i |-> (X % I) - (I \div 2), j |-> X \div I]

IJToAB(i, j, si) ==
    LET s == i * si.a0 + j * si.a1
        t == i * si.b0 + j * si.b1
    IN  IF t >= 0 THEN [a |-> s, b |-> t] ELSE [a |-> -s, b |-> -t]

xToAB(x, si) == LET c == NxToIJ(0, x) IN IJToAB(c.i, c.j, si)

\* On the line j = 0 only (1, 0) gets its norm.
init_rat_norms_bucket_region(N, si) ==
    [x \in 0 .. REGION - 1 |->
        LET c == NxToIJ(N, x) IN
        IF c.j = 0 /\ c.i /= 1 THEN 255 ELSE lognorm(RationalValue(c.i, c.j, si), si.logmax_rat)]

\* Only where the rational side leaves hope.
init_alg_norms_bucket_region(rat_S, N, si) ==
    [x \in 0 .. REGION - 1 |->
        LET c == NxToIJ(N, x) IN
        IF rat_S[x] > si.rat_bound THEN 255 ELSE lognorm(AlgebraicValue(c.i, c.j, si), si.logmax_alg)]

(* Small primes                                                                *)

\* The ideals below the threshold of the buckets: nice ones with a root in the
\* (i,j)-plane, bad ones that hit every g-th line only.  next is relative to
\* the start of the region.
init_small_sieve(fb, si) ==
    LET Nice(e, r) == [p |-> e.p, r |-> r, logp |-> e.plog, next |-> IF e.p % 2 = 0 THEN r + I ELSE (I \div 2) % e.p]
        Bad(e, r, g) == [g |-> g, q |-> e.p \div g, logp |-> e.plog,
                         U |-> IF e.p = g THEN 0 ELSE invmod(r \div g, e.p \div g)[1], next |-> 0]
        Start(b) == [b EXCEPT !.next = b.g * I + (((I \div 2) + b.U) % b.q)]
        Root(ssd, e, R) ==
            Then(fb_root_in_qlattice(e.p, R, e.invp, si), LAMBDA r :
                 IF r < e.p THEN [ssd EXCEPT !.nice = Append(@, Nice(e, r))]
                 ELSE Then(Divisor(e.p, r - e.p), LAMBDA g :
                           IF g >= si.J THEN ssd ELSE [ssd EXCEPT !.bad = Append(@, Start(Bad(e, r - e.p, g)))]))
        small == SelectSeq(fb, LAMBDA e : e.p < si.bucket_thresh)
    IN  For(1, Len(small), [nice |-> <<>>, bad |-> <<>>], LAMBDA n, t :
            For(1, Len(small[n].roots), t, LAMBDA k, ssd : Root(ssd, small[n], small[n].roots[k])))

\* Mutant of copy_small_sieve: bad primes are not sieved again.
CopyNiceOnly(ssd, trialdiv_primes) ==
    [nice |-> SelectSeq(ssd.nice, LAMBDA e : is_prime_power(e.p) = 0 /\ e.p \notin Range(trialdiv_primes)), bad |-> <<>>]

\* What has to be sieved again: no powers, no primes of the trial division.
copy_small_sieve(ssd, trialdiv_primes) ==
    [nice |-> SelectSeq(ssd.nice, LAMBDA e : is_prime_power(e.p) = 0 /\ e.p \notin Range(trialdiv_primes)),
     bad |-> SelectSeq(ssd.bad, LAMBDA e : e.q = 1 /\ is_prime_power(e.g) = 0 /\ e.g \notin Range(trialdiv_primes))]

\* Mutant of first_positions: every thread starts as the first one does.
StartsOfFirstThread(ssd, id, si) == ssd

\* Where the share of thread id begins.
first_positions(ssd, id, si) ==
    LET nj == NJ * (si.nb_buckets \div si.nb_threads) * id
        Lines(e) == (e.next \div I) * I
        Skip(e) == IF e.p % 2 = 0 /\ nj % 2 = 1 THEN nj + 1 ELSE nj
        Nice(e) == [e EXCEPT !.next = (((e.next % I) + Skip(e) * e.r) % e.p) + Lines(e)]
        Bad(e) == LET ng == Max({1, CeilDiv(nj, e.g)})
                  IN  [e EXCEPT !.next = (ng * e.g - nj) * I + (((I \div 2) + ng * e.U) % e.q)]
    IN  [nice |-> [n \in DOMAIN ssd.nice |-> Nice(ssd.nice[n])], bad |-> [n \in DOMAIN ssd.bad |-> Bad(ssd.bad[n])]]

\* Words of LONG_BYTES bytes are subtracted: a borrow runs on inside a word.
decrease_words(S, log) ==
    LET borrow[x \in DOMAIN S] ==
            IF x % LONG_BYTES = 0 THEN 0 ELSE IF S[x - 1] - log[x - 1] - borrow[x - 1] < 0 THEN 1 ELSE 0
    IN  [x \in DOMAIN S |-> (S[x] - log[x] - borrow[x]) % 256]

pattern2_size == 2 * LONG_BYTES

\* Powers of two: the first position in each line, -1 for an even line, and the
\* position left for the next region.
lines_of_power(e) ==
    For(0, NJ - 1, [next |-> e.next, at |-> [j \in 0 .. NJ - 1 |-> -1]], LAMBDA j, s :
        IF s.next < I THEN [next |-> ((s.next + 2 * e.r) % e.p) + I, at |-> [s.at EXCEPT ![j] = s.next]]
        ELSE [s EXCEPT !.next = @ - I])

\* First position of an odd prime in line j of the region.
first_in_line(e, j) == (e.next + j * e.r) % e.p

\* The positions an odd prime hits: on even lines the odd ones only.
nice_hits(e) ==
    {x \in 0 .. REGION - 1 : /\ (x % I) % e.p = first_in_line(e, x \div I)
                             /\ (x \div I) % 2 = 1 \/ x % 2 = 1}

\* The lines of a bad prime, with the offset of the first hit in each.
bad_lines(e) ==
    While([start |-> e.next - (e.next % I), offset |-> e.next % I, lines |-> {}], LAMBDA s : s.start < REGION,
          LAMBDA s : [start |-> s.start + e.g * I, offset |-> (s.offset + e.U) % e.q,
                      lines |-> s.lines \cup {[start |-> s.start, offset |-> s.offset]}])

bad_hits(e, lines) ==
    UNION {{l.start + i : i \in {k \in 0 .. I - 1 : /\ k >= l.offset /\ (k - l.offset) % e.q = 0
                                                    /\ (l.start \div I) % 2 = 1 \/ k % 2 = 1}} : l \in lines}

\* Powers of two and 3 by patterns of words, the other primes one by one, then
\* the bad ones.
sieve_small_bucket_region(S0, ssd) ==
    LET Logs(es, Hit(_, _)) ==
            [x \in DOMAIN S0 |-> For(1, Len(es), 0, LAMBDA n, t : IF Hit(es[n], x) THEN t + es[n].e.logp ELSE t) % 256]
        WithLines(es) == [n \in DOMAIN es |-> [e |-> es[n], at |-> lines_of_power(es[n]).at]]
        HitByPower(l, x) == l.at[x \div I] >= 0 /\ (x % I) % l.e.p = l.at[x \div I]
        HitByThree(l, x) == (x % I) % 3 = first_in_line(l.e, x \div I)
        Patterns ==
            Then(decrease_words(S0, Logs(WithLines(SelectSeq(ssd.nice, LAMBDA e : e.p % 2 = 0 /\ e.p <= pattern2_size)), HitByPower)),
                 LAMBDA S : Then(SelectSeq(ssd.nice, LAMBDA e : e.p = 3), LAMBDA threes :
                            decrease_words(S, Logs([n \in DOMAIN threes |-> [e |-> threes[n]]], HitByThree))))
        Nice(S, e) ==
            IF e.p % 2 = 0
            THEN IF e.p <= pattern2_size THEN S
                 ELSE Then([e |-> e, at |-> lines_of_power(e).at], LAMBDA l :
                           sieve_decrease(S, {x \in DOMAIN S : HitByPower(l, x)}, e.logp))
            ELSE IF e.p = 3 THEN S ELSE sieve_decrease(S, nice_hits(e), e.logp)
        Bad(S, e) ==
            Then(bad_hits(e, bad_lines(e).lines), LAMBDA X :
                 IF e.q = 1 THEN decrease_words(S, [x \in DOMAIN S |-> IF x \in X THEN e.logp ELSE 0])
                 ELSE sieve_decrease(S, X, e.logp))
    IN  Then(For(1, Len(ssd.nice), Patterns, LAMBDA n, S : Nice(S, ssd.nice[n])), LAMBDA T :
             For(1, Len(ssd.bad), T, LAMBDA n, S : Bad(S, ssd.bad[n])))

\* The positions every sieving of a region leaves for the next one.
next_region(ssd) ==
    [nice |-> [n \in DOMAIN ssd.nice |->
                  LET e == ssd.nice[n] IN
                  [e EXCEPT !.next = IF e.p % 2 = 0 THEN lines_of_power(e).next ELSE first_in_line(e, NJ)]],
     bad |-> [n \in DOMAIN ssd.bad |->
                  LET e == ssd.bad[n] IN Then(bad_lines(e), LAMBDA s : [e EXCEPT !.next = s.start + s.offset - REGION])]]

\* The primes and positions of the survivors, hit again.
resieve_small_bucket_region(S, ssd) ==
    LET Kept(X, p) == {[x |-> x, p |-> p] : x \in {y \in X : S[y] /= 255}}
    IN  UNION ({Kept(nice_hits(ssd.nice[n]), ssd.nice[n].p) : n \in DOMAIN ssd.nice}
                 \cup {Kept(bad_hits(ssd.bad[n], bad_lines(ssd.bad[n]).lines), ssd.bad[n].g) : n \in DOMAIN ssd.bad})

\* The updates of a bucket at survivors, with the primes rebuilt: they were pushed
\* in increasing order, so each descent of the low bits is one wrap.
purge_bucket(BA, N, S) ==
    LET updates == BA.updates[N]
        Step(k, s) ==
            LET u == updates[k]
                phigh == IF u.p < s.last THEN s.phigh + BUCKET_P_WRAP ELSE s.phigh
            IN  [last |-> u.p, phigh |-> phigh,
                 BP |-> IF S[u.x] /= 255 THEN s.BP \cup {[x |-> u.x, p |-> phigh + 2 * u.p + 1]} ELSE s.BP]
    IN  For(1, Len(updates), [last |-> 0, phigh |-> 0, BP |-> {}], Step).BP

(* Trial division, in words to the base W                                      *)

trialdiv_init_divisor(p, W) ==
    [p |-> p, pinv |-> Reciprocal(p, W), plim |-> (W - 1) \div p,
     w |-> For(1, 5, <<W % p>>, LAMBDA k, w : Append(w, (w[k] * W) % p))]

\* The words of the number to divide, the lowest first.
Words(n, W) == While([w |-> <<>>, n |-> n], LAMBDA s : s.n > 0, LAMBDA s : [w |-> Append(s.w, s.n % W), n |-> s.n \div W]).w

\* trialdiv_div1 to trialdiv_div6: the number is folded modulo p into two words,
\* then into one, and times 1/p is small for a multiple of p only.
trialdiv_div(n, d, W) ==
    IF Len(n) = 1 THEN (n[1] * d.pinv) % W <= d.plim
    ELSE Then(For(2, Len(n), n[1], LAMBDA k, r : (r + n[k] * d.w[k - 1]) % (W * W)), LAMBDA r :
         Then(((r \div W) * d.w[1] + (r % W)) % W, LAMBDA x :
         Then(IF x < r % W THEN (x + d.w[1]) % W ELSE x, LAMBDA y : (y * d.pinv) % W <= d.plim)))

\* Divisors are tried in order, the last of them is 1; at most max_div are found.
trialdiv(N, ds, max_div, W) ==
    LET Seek(s) == [s EXCEPT !.k = While(s.k, LAMBDA k : ~trialdiv_div(Words(s.N, W), ds[k], W), LAMBDA k : k + 1)]
        Divide(s) == Then(Seek(s), LAMBDA t :
                          IF ds[t.k].p = 1 \/ Len(t.f) = max_div THEN [t EXCEPT !.over = TRUE]
                          ELSE [t EXCEPT !.f = Append(@, ds[t.k].p), !.N = @ \div ds[t.k].p])
    IN  While([N |-> N, f |-> <<>>, k |-> 1, over |-> FALSE], LAMBDA s : s.N > 1 /\ ~s.over, Divide)

\* What is left is divided by each prime reported at x as often as it goes; a prime
\* that does not divide was rebuilt wrongly, and a larger one is tried.
divide_primes_from_bucket(s0, primes, fbb) ==
    LET Rebuilt(p, norm) == While(p, LAMBDA t : t <= fbb /\ norm % t /= 0, LAMBDA t : t + BUCKET_P_WRAP)
        Divide(s, p) == While(s, LAMBDA t : t.norm % p = 0, LAMBDA t : [norm |-> t.norm \div p, fac |-> Append(t.fac, p)])
    IN  For(1, Len(primes), s0, LAMBDA k, s :
            Then(Rebuilt(primes[k], s.norm), LAMBDA p : IF p > fbb THEN s ELSE Divide(s, p)))

trial_div(norm, x, fb, BP, ds, fbb, W) ==
    LET twos == IF fb[1].p = 2 THEN While([norm |-> norm, fac |-> <<>>], LAMBDA s : s.norm % 2 = 0,
                                          LAMBDA s : [norm |-> s.norm \div 2, fac |-> Append(s.fac, 2)])
                ELSE [norm |-> norm, fac |-> <<>>]
        primes == SetToSortSeq({e.p : e \in {u \in BP : u.x = x}}, <)
    IN  Then(divide_primes_from_bucket(twos, primes, fbb), LAMBDA s :
        Then(trialdiv(s.norm, ds, 32, W), LAMBDA t : [norm |-> t.N, fac |-> s.fac \o t.f]))

check_leftover_norm(n, lpb, lim, mfb) ==
    LET s == Bits(n)
    IN  /\ s <= mfb
        /\ ~(lpb < s /\ n < lim^2)
        /\ ~(2 * lpb < s /\ n < lim^3)
        /\ ~(lpb < s /\ PrimeNumber(n))

PrimeFactors(n) ==
    While([n |-> n, d |-> 2, f |-> <<>>], LAMBDA s : s.n > 1,
          LAMBDA s : IF s.n % s.d = 0 THEN [s EXCEPT !.n = @ \div s.d, !.f = Append(@, s.d)]
                     ELSE IF s.d * s.d > s.n THEN [s EXCEPT !.n = 1, !.f = Append(@, s.n)] ELSE [s EXCEPT !.d = @ + 1]).f

\* The large primes, with facul (see Ecm) finding all of those up to 2^l.
factor_leftover_norm(n, l) ==
    IF n = 1 THEN [ok |-> TRUE, f |-> <<>>]
    ELSE IF Bits(n) <= l THEN [ok |-> TRUE, f |-> <<n>>]
    ELSE Then(PrimeFactors(n), LAMBDA f : IF \A k \in DOMAIN f : f[k] <= 2^l THEN [ok |-> TRUE, f |-> f] ELSE [ok |-> FALSE, f |-> <<>>])

\* Mutant of mark_survivors: multiples of a pair survive too.
SurvivorsWithMultiples(rat_S, alg_S, N, si) ==
    [x \in DOMAIN alg_S |-> IF alg_S[x] > si.alg_bound \/ rat_S[x] > si.rat_bound THEN 255 ELSE alg_S[x]]

\* Survivors of both sieves with coprime (i, j) are kept, the others get 255.
mark_survivors(rat_S, alg_S, N, si) ==
    [x \in DOMAIN alg_S |->
        LET c == NxToIJ(N, x) IN
        IF alg_S[x] > si.alg_bound \/ rat_S[x] > si.rat_bound \/ ~Coprime(c.i, c.j) THEN 255 ELSE alg_S[x]]

\* The relation of position x, if it is one.
relation_at(x, N, primes_rat, primes_alg, si) ==
    LET c == xToAB(x + N * REGION, si)
        Side(norm, fb, BP, ds, lim) == trial_div(norm, x, fb, BP, ds, lim, si.word)
        WithQ(f, here) == IF here THEN Append(f, si.q) ELSE f
        Special(norm, here) == IF here THEN norm \div si.q ELSE norm
        Algebraic(r) ==
            Then(Side(Special(eval_fij(si.f, c.a, c.b), ~si.ratq), si.fb_alg, primes_alg, si.trialdiv_alg, si.alim), LAMBDA t :
            IF ~check_leftover_norm(t.norm, si.lpba, si.alim, si.mfba) THEN <<>>
            ELSE Then(<<factor_leftover_norm(r.norm, si.lpbr), factor_leftover_norm(t.norm, si.lpba)>>, LAMBDA l :
                      IF l[1].ok /\ l[2].ok
                      THEN <<[a |-> c.a, b |-> c.b, rat |-> WithQ(r.fac \o l[1].f, si.ratq),
                              alg |-> WithQ(t.fac \o l[2].f, ~si.ratq)]>>
                      ELSE <<>>))
    IN  IF (c.a % 2 = 0 /\ c.b % 2 = 0) \/ c.b = 0 \/ (c.b >= si.q /\ c.b % si.q = 0) THEN <<>>
        ELSE Then(Side(Special(eval_fij(si.g, c.a, c.b), si.ratq), si.fb_rat, primes_rat, si.trialdiv_rat, si.rlim), LAMBDA r :
                  IF check_leftover_norm(r.norm, si.lpbr, si.rlim, si.mfbr) THEN Algebraic(r) ELSE <<>>)

\* The primes of both sides are collected at the survivors, then each of these is
\* tried.
factor_survivors(alg_S, N, rat_BA, alg_BA, srsd, si) ==
    LET Primes(BAs, ssd) == UNION {purge_bucket(BAs[t], N, alg_S) : t \in DOMAIN BAs} \cup resieve_small_bucket_region(alg_S, ssd)
    IN  Then(<<Primes(rat_BA, srsd.rat), Primes(alg_BA, srsd.alg)>>, LAMBDA BP :
             For(0, REGION - 1, <<>>, LAMBDA x, rels :
                 IF alg_S[x] = 255 THEN rels ELSE rels \o relation_at(x, N, BP[1], BP[2], si)))

(* The special q                                                               *)

\* n/d rounded to the nearest integer, halves to the even one (rint)
Rint(n, d) ==
    LET k == n \div d
        twice == 2 * (n - k * d)
    IN  IF twice < d \/ (twice = d /\ k % 2 = 0) THEN k ELSE k + 1

\* A basis of the lattice of (a, b) with a = rho b modulo q, reduced for the skewness
\* s, and the number of lines, rounded up to whole regions for every thread.
\* B^2 = 2 q0 / (s sqrt 3), sqrt 3 taken as 433/250.
SkewGauss(q, rho, par) ==
    LET s == par.skew
        Dot(u, v) == u[1] * v[1] + s * s * u[2] * v[2]
        Quotient(u, v) == Rint(Dot(u, v), Dot(v, v))
        Less(u, k, v) == <<u[1] - k * v[1], u[2] - k * v[2]>>
        Round(t) ==
            Then(Quotient(t.u, t.v), LAMBDA k :
                 IF k = 0 THEN [t EXCEPT !.over = TRUE]
                 ELSE Then([t EXCEPT !.u = Less(@, k, t.v)], LAMBDA w :
                      Then(Quotient(w.v, w.u), LAMBDA l :
                           IF l = 0 THEN [w EXCEPT !.over = TRUE] ELSE [w EXCEPT !.v = Less(@, l, w.u)])))
        Size(v) == Max({Magnitude(v[1]), s * Magnitude(v[2])})
        LinesFor(m) == IF m * m * s * 433 < 500 * par.q0 THEN I \div 2
                       ELSE While(0, LAMBDA J : (J + 1) * (J + 1) * m * m * 433 <= 500 * par.q0 * s * (I \div 2) * (I \div 2),
                                  LAMBDA J : J + 1)
        block == NJ * par.nb_threads
    IN  Then(While([u |-> <<q, 0>>, v |-> <<rho, 1>>, over |-> FALSE], LAMBDA t : ~t.over, Round), LAMBDA t :
        Then(IF Size(t.u) <= Size(t.v) THEN <<t.u, t.v>> ELSE <<t.v, t.u>>, LAMBDA b :
             [a0 |-> b[1][1], b0 |-> b[1][2], a1 |-> b[2][1], b1 |-> b[2][2],
              J |-> CeilDiv(LinesFor(Size(b[2])), block) * block]))

\* What the regions need to know of a special q.
sieve_info_update(q, rho, par) ==
    Then(SkewGauss(q, rho, par), LAMBDA b :
         b @@ [q |-> q, rho |-> rho, fij |-> fij_from_f(par.f, b), gij |-> fij_from_f(par.g, b),
               nb_buckets |-> CeilDiv(I * b.J, REGION)] @@ par)
====
