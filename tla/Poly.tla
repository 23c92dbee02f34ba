---- MODULE Poly ----
(* Polynomials: over the integers and modulo m (utils/poly.c), modulo a small  *)
(* prime in signed words (utils/plain_poly.c) and in residues                  *)
(* (utils/modul_poly.c), the root finder on top (utils/rootfinder.c), the      *)
(* isolation of real roots (utils/usp.c) and the enumeration of primes         *)
(* (utils/getprime.c).  A polynomial is a degree and an array of coefficients  *)
(* that may be longer: what lies above the degree is whatever was left there,  *)
(* and Junk is a cell nobody has written.                                      *)
EXTENDS Chain, FiniteSets, Sequences, SequencesExt

CONSTANTS LIMB,                    \* base of the limbs of a multiprecision integer
          Junk,                    \* content of fresh memory
          COEFF_MAX,               \* largest plain_poly_coeff_t
          ROOTS_MOD_THRESHOLD,     \* below it roots are counted by trial
          ROOTS_MOD_THRESHOLD2     \* below it they are found by trial

Larger(a, b) == IF a < b THEN b ELSE a
Magnitude(a) == IF a < 0 THEN -a ELSE a
Odd(a) == a % 2 = 1
\* Division and remainder of C, which round towards zero.
CDiv(a, b) == IF a < 0 THEN -((-a) \div b) ELSE a \div b
CMod(a, p) == IF a < 0 THEN -((-a) % p) ELSE a % p
Pow(b, e) == For(1, e, 1, LAMBDA i, x : x * b)
gcd(a, b) == While([a |-> Magnitude(a), b |-> Magnitude(b)], LAMBDA s : s.b /= 0,
                   LAMBDA s : [a |-> s.b, b |-> s.a % s.b]).a
\* mpz_invert, whose result is undefined when there is no inverse
InverseMod(a, m) == IF m = 1 THEN 0 ELSE IF gcd(a, m) /= 1 THEN Junk ELSE CHOOSE x \in 0 .. m - 1 : (a * x) % m = 1
nbits(e) == While([e |-> e, k |-> 0], LAMBDA s : s.e > 0, LAMBDA s : [e |-> s.e \div 2, k |-> s.k + 1]).k
Bit(e, k) == Odd(e \div Pow(2, k))

Fresh(n) == [i \in 0 .. n - 1 |-> Junk]
Grown(c, n) == [i \in 0 .. Larger(n, Cardinality(DOMAIN c)) - 1 |-> IF i \in DOMAIN c THEN c[i] ELSE Junk]
\* The polynomial a structure stands for, without leading zeros: the reference.
Value(f) == LET s == {i \in 0 .. f.deg : f.c[i] /= 0}
            IN  [i \in 0 .. (IF s = {} THEN -1 ELSE CHOOSE k \in s : \A j \in s : j <= k) |-> f.c[i]]
At(v, i) == IF i \in DOMAIN v THEN v[i] ELSE 0
Trimmed(v) == Value([deg |-> Cardinality(DOMAIN v) - 1, c |-> v])
\* All of v's coefficients modulo m.
Mod(v, m) == Trimmed([i \in DOMAIN v |-> v[i] % m])
SumRef(v, w) == Trimmed([i \in 0 .. Larger(Cardinality(DOMAIN v), Cardinality(DOMAIN w)) - 1 |-> At(v, i) + At(w, i)])
TimesRef(v, w) ==
    IF DOMAIN v = {} \/ DOMAIN w = {} THEN <<>>
    ELSE Trimmed([k \in 0 .. Cardinality(DOMAIN v) + Cardinality(DOMAIN w) - 2 |->
                     For(0, k, 0, LAMBDA i, s : s + At(v, i) * At(w, k - i))])
EvalRef(v, x) == For(0, Cardinality(DOMAIN v) - 1, 0, LAMBDA i, s : s + v[i] * Pow(x, i))

(* utils/poly.c *)
Limbs(a) == While([a |-> Magnitude(a), k |-> 0], LAMBDA s : s.a > 0, LAMBDA s : [a |-> s.a \div LIMB, k |-> s.k + 1]).k

barrett_init(m) == Pow(LIMB, 2 * Limbs(m)) \div m

\* One round of Barrett's reduction takes at most Limbs(m) limbs off the top.
BarrettStep(b, m, invm) ==
    LET k == Limbs(m)
        l == IF Limbs(b) - k > k THEN k ELSE Limbs(b) - k
        c == ((b \div Pow(LIMB, Limbs(b) - l)) * invm) \div Pow(LIMB, k)
    IN  b - c * m * Pow(LIMB, Limbs(b) - k - l)

\* invm = 0 stands for NULL.
barrett_mod(b, m, invm) ==
    LET k == Limbs(m)
    IN  IF invm = 0 \/ Limbs(b) <= k \/ k = 1 THEN b % m
        ELSE While(BarrettStep(b, m, invm), LAMBDA a : Limbs(a) > k, LAMBDA a : BarrettStep(a, m, invm)) % m

poly_alloc(d) == [deg |-> -1, c |-> [i \in 0 .. d |-> 0]]

cleandeg(f, deg) == [f EXCEPT !.deg = While(deg, LAMBDA d : d >= 0 /\ f.c[d] = 0, LAMBDA d : d - 1)]

poly_setcoeff(f, i, z) ==
    LET a == Cardinality(DOMAIN f.c)
        g == [f EXCEPT !.c = [j \in 0 .. Larger(a, i + 1) - 1 |-> IF j = i THEN z ELSE IF j < a THEN f.c[j] ELSE 0]]
    IN  IF i >= f.deg THEN cleandeg(g, i) ELSE g

poly_set(f, coeffs, d) == cleandeg(Down(d, 0, f, LAMBDA i, g : poly_setcoeff(g, i, coeffs[i])), d)

poly_getcoeff(i, f) == IF i > f.deg THEN 0 ELSE f.c[i]

poly_copy(g, f) == Down(f.deg, 0, [g EXCEPT !.deg = f.deg], LAMBDA i, h : poly_setcoeff(h, i, f.c[i]))

poly_is_constant(f) == f.deg <= 0

Termwise(f, g, h, s) ==
    LET maxdeg == Larger(g.deg, h.deg)
    IN  cleandeg(Down(maxdeg, 0, [f EXCEPT !.deg = maxdeg],
                      LAMBDA i, x : poly_setcoeff(x, i, poly_getcoeff(i, g) + s * poly_getcoeff(i, h))), maxdeg)

\* same: f is g or h, so that the sum is built aside.
poly_add(f, g, h, same) == IF same THEN poly_copy(f, Termwise(poly_alloc(-1), g, h, 1)) ELSE Termwise(f, g, h, 1)

poly_sub(f, g, h) == Termwise(f, g, h, -1)

poly_sub_mod_mpz(f, g, h, m) ==
    Then(Termwise(f, g, h, -1),
         LAMBDA x : cleandeg([x EXCEPT !.c = [i \in DOMAIN x.c |-> IF i <= x.deg THEN x.c[i] % m ELSE x.c[i]]], x.deg))

\* The degree comes from what f held before: f has to have room for it.
poly_mul_ui(f, g, a) == Down(g.deg, 0, cleandeg(f, g.deg), LAMBDA i, x : poly_setcoeff(x, i, g.c[i] * a))

poly_sub_ui(f, a) == poly_setcoeff(f, 0, f.c[0] - a)

poly_div_ui_mod_ui(f, g, a, m) == Down(g.deg, 0, f, LAMBDA i, x : poly_setcoeff(x, i, CDiv(g.c[i], a) % m))

poly_div_ui(f, g, a) == Down(g.deg, 0, f, LAMBDA i, x : poly_setcoeff(x, i, CDiv(g.c[i], a)))

poly_div_2_mod_mpz(f, g, m) ==
    Down(g.deg, 0, f,
         LAMBDA i, x : poly_setcoeff(x, i, ((IF Odd(g.c[i]) THEN g.c[i] + m ELSE g.c[i]) \div 2) % m))

Horner(c, d, x) == Down(d - 1, 0, c[d], LAMBDA i, r : r * x + c[i])

poly_eval(f, x) == IF f.deg = -1 THEN 0 ELSE Horner(f.c, f.deg, x)

poly_eval_mod_mpz(f, x, m) ==
    IF f.deg = -1 THEN 0 ELSE Down(f.deg - 1, 0, f.c[f.deg] % m, LAMBDA i, r : (r * x + f.c[i]) % m)

(* Interpolation on 0 .. t: Gaussian elimination of the Vandermonde matrix,    *)
(* first below the diagonal, then above it.                                    *)
ForwardGauss(f, t) ==
    For(1, t, [f |-> f, M |-> [i \in 0 .. t |-> [j \in 0 .. t |-> Pow(i, j)]]],
        LAMBDA i, s1 : For(0, i - 1, s1,
            LAMBDA j, s :
                IF s.M[i][j] = 0 THEN s
                ELSE LET d == gcd(s.M[i][j], s.M[j][j])
                         h == s.M[i][j] \div d
                         g == s.M[j][j] \div d
                     IN  [f |-> [s.f EXCEPT ![i] = g * @ - h * s.f[j]],
                          M |-> [s.M EXCEPT ![i] = [k \in 0 .. t |-> IF k < j THEN @[k] ELSE g * @[k] - h * s.M[j][k]]]]))

poly_mul_tc_interpolate(f, t) ==
    Then(ForwardGauss(f, t),
         LAMBDA s : Down(t, 0, s.f,
             LAMBDA i, x : [x EXCEPT ![i] = CDiv(For(i + 1, t, x[i], LAMBDA j, v : v - s.M[i][j] * x[j]), s.M[i][i])]))

\* The product of c[0 .. r] and h[0 .. s] goes to the array f.
poly_mul_tc(f, c, r, h, s) ==
    IF r = -1 \/ s = -1 THEN [c |-> f, deg |-> -1]
    ELSE [c |-> poly_mul_tc_interpolate([i \in DOMAIN f |-> IF i <= r + s THEN Horner(c, r, i) * Horner(h, s, i) ELSE f[i]], r + s),
          deg |-> r + s]

poly_sqr_tc(f, c, r) ==
    IF r = -1 THEN [c |-> f, deg |-> -1]
    ELSE [c |-> poly_mul_tc_interpolate([i \in DOMAIN f |-> IF i <= 2 * r THEN Horner(c, r, i) * Horner(c, r, i) ELSE f[i]], 2 * r),
          deg |-> 2 * r]

poly_mul_mpz(q, p, a) == For(0, p.deg, [q EXCEPT !.deg = p.deg], LAMBDA i, x : poly_setcoeff(x, i, p.c[i] * a))

poly_mul(f, g, h) ==
    LET maxdeg == g.deg + h.deg
    IN  CASE g.deg = -1 \/ h.deg = -1 -> [f EXCEPT !.deg = -1]
          [] g.deg = 0 /\ h.deg >= 0 -> poly_mul_mpz(f, h, g.c[0])
          [] g.deg > 0 /\ h.deg = 0 -> poly_mul_mpz(f, g, h.c[0])
          [] OTHER -> Then(poly_mul_tc(poly_alloc(maxdeg).c, g.c, g.deg, h.c, h.deg),
                           LAMBDA prd : cleandeg(Down(maxdeg, 0, f, LAMBDA i, x : poly_setcoeff(x, i, prd.c[i])), maxdeg))

\* p / F[d]^v modulo F; a leading coefficient of 1 costs no power.
poly_reducemodF(p, F) ==
    LET d == F.deg
        lc == F.c[d]
    IN  Then(While([p |-> p, v |-> 0], LAMBDA s : s.p.deg >= d,
               LAMBDA s : LET k == s.p.deg
                              scaled == [i \in DOMAIN s.p.c |-> IF i < k /\ lc /= 1 THEN s.p.c[i] * lc ELSE s.p.c[i]]
                          IN  [p |-> cleandeg([s.p EXCEPT !.c = [i \in DOMAIN scaled |->
                                                  IF i \in k - d .. k - 1 THEN scaled[i] - scaled[k] * F.c[i - k + d] ELSE scaled[i]]], k - 1),
                               v |-> IF lc /= 1 THEN s.v + 1 ELSE s.v]),
             LAMBDA s : [p |-> poly_copy(poly_alloc(-1), s.p), v |-> s.v])

polymodF_mul(P1, P2, F) ==
    Then(poly_reducemodF(poly_mul(poly_alloc(-1), P1.p, P2.p), F), LAMBDA q : [q EXCEPT !.v = @ + P1.v + P2.v])

poly_reduce_mod_mpz(q, p, m) ==
    Then(For(0, p.deg, [q EXCEPT !.deg = p.deg], LAMBDA i, x : poly_setcoeff(x, i, p.c[i] % m)),
         LAMBDA x : cleandeg(x, x.deg))

\* K[l] = 1, ..., K[i] = 2 K[i + 1] or 2 K[i + 1] - 1; powers[i] = p^K[l - i].
PowersOf(p, K, l) == [i \in 0 .. l - 1 |-> Pow(p, K[l - i])]

(* P0 = P[0] + p P[1] + p^2 P[2] + ... + p^K[1] P[l]; P[l + 1] = 0 ends the    *)
(* list.                                                                       *)
poly_base_modp_init(P0, p, K, l) ==
    LET pk == PowersOf(p, K, l)
        Split(P, k, f) == [P EXCEPT ![k].c = [i \in 0 .. P0.deg |-> CDiv(f[i], pk[k - 1])],
                                    ![k - 1].c = [i \in 0 .. P0.deg |-> CMod(f[i], pk[k - 1])]]
        Cleaned(P, k) == [P EXCEPT ![k] = cleandeg(P[k], P0.deg)]
        First == Cleaned(Split([i \in 0 .. l + 1 |-> poly_alloc(P0.deg)], l, P0.c), l)
    IN  Cleaned(Down(l - 1, 1, First, LAMBDA j, P : Cleaned(Split(P, j, P[j].c), j)), 0)

\* A zero polynomial anywhere before P[k] is taken for the end of the list.
poly_base_modp_lift(a, P, k, pk) ==
    IF \E i \in 0 .. k : P[i].deg = -1 THEN a
    ELSE cleandeg([a EXCEPT !.c = [i \in DOMAIN a.c |-> IF i <= P[k].deg THEN a.c[i] + P[k].c[i] * pk ELSE a.c[i]]],
                  Larger(a.deg, P[k].deg))

poly_reduce_makemonic_mod_mpz(q, p, m) ==
    LET nz == {i \in 0 .. p.deg : p.c[i] % m /= 0}
        top == CHOOSE i \in nz : \A j \in nz : j <= i
        inv == InverseMod(p.c[top] % m, m)
    IN  CASE nz = {} -> [q EXCEPT !.deg = -1]
          [] nz /= {} /\ top = 0 -> poly_setcoeff([q EXCEPT !.deg = 0], 0, 1)
          [] OTHER -> Then(For(0, top - 1, [q EXCEPT !.deg = top], LAMBDA i, x : poly_setcoeff(x, i, (inv * p.c[i]) % m)),
                           LAMBDA x : [x EXCEPT !.c[top] = 1])

(* Reduction by the non-monic f modulo m: a multiple of m makes the leading    *)
(* coefficient divisible by the one of f.                                      *)
poly_mod_f_mod_mpz(R, d, f, df, m, invm) ==
    LET aux == InverseMod(m % f[df], f[df])
    IN  Then(While([R |-> R, d |-> d], LAMBDA s : s.d >= df,
               LAMBDA s : LET lambda == ((s.R[s.d] % f[df]) * aux) % f[df]
                              c == CDiv(s.R[s.d] - m * lambda, f[df])
                          IN  [R |-> [i \in DOMAIN s.R |-> IF i \in s.d - df .. s.d - 1 THEN s.R[i] - c * f[df - s.d + i] ELSE s.R[i]],
                               d |-> s.d - 1]),
             LAMBDA s : [R |-> [i \in DOMAIN s.R |-> IF i <= s.d THEN barrett_mod(s.R[i], m, invm) ELSE s.R[i]], d |-> s.d])

ReducedCopy(q, R, d, f, m, invm) ==
    Then(poly_mod_f_mod_mpz(R, d, f.c, f.deg, m, invm),
         LAMBDA x : poly_copy(q, cleandeg([deg |-> -1, c |-> x.R], x.d)))

poly_mul_mod_f_mod_mpz(q, P1, P2, f, m, invm) ==
    ReducedCopy(q, poly_mul_tc(poly_alloc(P1.deg + P2.deg).c, P1.c, P1.deg, P2.c, P2.deg).c, P1.deg + P2.deg, f, m, invm)

poly_sqr_mod_f_mod_mpz(q, p, f, m, invm) ==
    ReducedCopy(q, poly_sqr_tc(poly_alloc(2 * p.deg).c, p.c, p.deg).c, 2 * p.deg, f, m, invm)

poly_derivative(df, f) ==
    IF poly_is_constant(f) THEN [df EXCEPT !.deg = -1]
    ELSE [deg |-> f.deg - 1, c |-> [n \in DOMAIN df.c |-> IF n < f.deg THEN f.c[n + 1] * (n + 1) ELSE df.c[n]]]

poly_power_mod_f_mod_ui(q, P, f, a, p) ==
    IF a = 0 THEN [q EXCEPT !.deg = 0, !.c[0] = 1]
    ELSE poly_copy(q, Down(nbits(a) - 2, 0, poly_copy(poly_alloc(2 * f.deg), P),
             LAMBDA k, R : Then(poly_sqr_mod_f_mod_mpz(R, R, f, p, 0),
                                LAMBDA S : IF Bit(a, k) THEN poly_mul_mod_f_mod_mpz(S, S, P, f, p, 0) ELSE S)))

(* utils/plain_poly.c: signed coefficients in -p + 1 .. p - 1 *)
plain_poly_fits(d, p) ==
    LET max == (COEFF_MAX - (p - 1)) \div d
    IN  max >= p - 1 /\ max \div (p - 1) >= p - 1

plain_poly_init(d) == [deg |-> -1, c |-> Fresh(d + 1)]

\* Two steps of Euclid's algorithm at a time; u2 = u1 |s| and v2 = v1 |s| modulo t.
invert_si(s, t) ==
    LET End == While([u1 |-> 1, v1 |-> 0, u2 |-> Magnitude(s), v2 |-> t, found |-> FALSE],
                 LAMBDA x : x.v2 /= 0 /\ ~x.found,
                 LAMBDA x : LET q == x.u2 \div x.v2
                                u1 == x.u1 - q * x.v1
                                u2 == x.u2 - q * x.v2
                            IN  IF u2 = 0 THEN [x EXCEPT !.u1 = x.v1, !.u2 = 0, !.found = TRUE]
                                ELSE [x EXCEPT !.u1 = u1, !.u2 = u2, !.v1 = @ - (x.v2 \div u2) * u1, !.v2 = @ % u2])
    IN  Then(End.u1, LAMBDA u : Then(IF u < 0 THEN u + t ELSE u, LAMBDA w : IF s > 0 THEN w ELSE t - w))

plain_poly_set(f, g) ==
    [deg |-> g.deg, c |-> Then(Grown(f.c, g.deg + 1), LAMBDA c : [i \in DOMAIN c |-> IF i <= g.deg THEN g.c[i] ELSE c[i]])]

plain_poly_make_monic(f, p) ==
    IF f.c[f.deg] = 1 THEN f
    ELSE Then(invert_si(f.c[f.deg], p), LAMBDA ilc :
             [f EXCEPT !.c = [i \in DOMAIN f.c |-> IF i < f.deg THEN CMod(f.c[i] * ilc, p) ELSE IF i = f.deg THEN 1 ELSE f.c[i]]])

\* The degree, and f made monic unless it is 0 modulo p.
plain_poly_set_mod(fp, f, d, p) ==
    Then(While(d, LAMBDA e : e >= 0 /\ f[e] % p = 0, LAMBDA e : e - 1),
         LAMBDA e : IF e < 0 THEN [fp |-> fp, d |-> e]
                    ELSE [fp |-> plain_poly_make_monic(
                                     [deg |-> e, c |-> Then(Grown(fp.c, e + 1), LAMBDA c : [i \in DOMAIN c |-> IF i <= e THEN f[i] % p ELSE c[i]])], p),
                          d |-> e])

plain_poly_set_linear(f, a, b) == [deg |-> 1, c |-> [Grown(f.c, 2) EXCEPT ![1] = a, ![0] = b]]

plain_poly_mul(h, f, g, p) ==
    LET d == f.deg + g.deg
        zero == [i \in 0 .. d |-> 0]
        sum == For(0, f.deg, zero, LAMBDA i, r1 : For(0, g.deg, r1, LAMBDA j, r : [r EXCEPT ![i + j] = @ + f.c[i] * g.c[j]]))
    IN  plain_poly_set(h, [deg |-> d, c |-> Then(sum, LAMBDA r : [i \in 0 .. d |-> CMod(r[i], p)])])

\* Cross products once, the first to reach a cell overwriting it; doubled; then squares.
plain_poly_sqr(h, g, p) ==
    LET dg == g.deg
        Cross == For(0, dg, Grown(h.c, 2 * dg + 1), LAMBDA i, c1 : For(i + 1, dg, c1,
                     LAMBDA j, c : [c EXCEPT ![i + j] = IF i = 0 \/ j = dg THEN g.c[i] * g.c[j] ELSE @ + g.c[i] * g.c[j]]))
    IN  IF dg = -1 THEN [h EXCEPT !.deg = -1]
        ELSE [deg |-> 2 * dg, c |-> Then(Cross, LAMBDA c : [k \in DOMAIN c |->
                 CASE k = 0 \/ k = 2 * dg -> CMod(g.c[k \div 2] * g.c[k \div 2], p)
                   [] k > 0 /\ k < 2 * dg -> CMod(2 * c[k] + (IF k % 2 = 0 THEN g.c[k \div 2] * g.c[k \div 2] ELSE 0), p)
                   [] OTHER -> c[k]])]

plain_poly_normalize(h) == cleandeg(h, h.deg)

plain_poly_mod_ui(g, h, p) ==
    plain_poly_normalize([deg |-> h.deg, c |-> Then(Grown(g.c, h.deg + 1),
                                                  LAMBDA c : [i \in DOMAIN c |-> IF i <= h.deg THEN CMod(h.c[i], p) ELSE c[i]])])

plain_poly_mul_x(h, a, p) ==
    LET d == h.deg
    IN  IF d = -1 THEN h
        ELSE [deg |-> d + 1, c |-> [i \in DOMAIN Grown(h.c, d + 2) |->
                 CASE i = d + 1 -> h.c[d]
                   [] i \in 1 .. d -> CMod(h.c[i - 1] + a * h.c[i], p)
                   [] i = 0 -> CMod(a * h.c[0], p)
                   [] OTHER -> h.c[i]]]

\* g minus x^e for e = 1 (sub_x) and e = 0 (sub_1), zeros filling what g lacks.
MinusPower(h, g, e, reduce(_)) ==
    plain_poly_normalize(
        [deg |-> Larger(g.deg, e),
         c |-> Then(Grown(h.c, Larger(g.deg, e) + 1),
                    LAMBDA c : [i \in DOMAIN c |-> Then(IF i <= g.deg THEN g.c[i] ELSE IF i <= e THEN 0 ELSE c[i],
                                                        LAMBDA z : IF i = e THEN reduce(z - 1) ELSE z)])])

plain_poly_sub_x(h, g, p) == MinusPower(h, g, 1, LAMBDA z : CMod(z, p))

plain_poly_sub_1(h, g, p) == MinusPower(h, g, 0, LAMBDA z : CMod(z, p))

\* h[dh] / f[d] x^(dh - d) f is subtracted; coefficients below dh are reduced only when reached.
plain_poly_div_r(h, f, p) ==
    LET d == f.deg
        monic == f.c[d] = 1
        t == IF monic THEN 1 ELSE invert_si(f.c[d], p)
        Below(c, dh) == While([c |-> c, dh |-> dh, going |-> TRUE], LAMBDA s : s.going,
                          LAMBDA s : Then(IF s.dh > 0 THEN [s.c EXCEPT ![s.dh - 1] = CMod(@, p)] ELSE s.c,
                                          LAMBDA e : [c |-> e, dh |-> s.dh - 1, going |-> s.dh > 0 /\ e[s.dh - 1] = 0]))
        End == While([c |-> h.c, dh |-> h.deg], LAMBDA s : s.dh >= d,
                 LAMBDA s : Then(IF monic THEN s.c[s.dh] ELSE CMod(s.c[s.dh] * t, p),
                                 LAMBDA top : Then(Below([i \in DOMAIN s.c |->
                                                             CASE i = s.dh -> top
                                                               [] i \in s.dh - d .. s.dh - 1 -> s.c[i] - top * f.c[i - s.dh + d]
                                                               [] OTHER -> s.c[i]], s.dh),
                                                   LAMBDA e : [c |-> e.c, dh |-> e.dh])))
    IN  Then(End, LAMBDA s : Then([deg |-> s.dh, c |-> s.c], LAMBDA r : plain_poly_mod_ui(r, r, p)))

\* Only the coefficients of degree at least d of h are kept up to date.
plain_poly_divexact(q, h, f, p) ==
    LET d == f.deg
        monic == f.c[d] = 1
        t == IF monic THEN 1 ELSE invert_si(f.c[d], p)
        Step(s) == Then(IF monic THEN s.c[s.dh] ELSE CMod(s.c[s.dh] * t, p),
                        LAMBDA top : Then([i \in DOMAIN s.c |-> CASE i = s.dh -> top
                                              [] i \in Larger(d, s.dh - d) .. s.dh - 1 -> s.c[i] - top * f.c[i - s.dh + d]
                                              [] OTHER -> s.c[i]],
                                          LAMBDA c : [q |-> [s.q EXCEPT ![s.dh - d] = top], dh |-> s.dh - 1,
                                                      c |-> IF s.dh > 0 THEN [c EXCEPT ![s.dh - 1] = CMod(@, p)] ELSE c]))
    IN  [deg |-> h.deg - d, c |-> While([c |-> h.c, dh |-> h.deg, q |-> Grown(q.c, h.deg + 1 - d)], LAMBDA s : s.dh >= d, Step).q]

\* The gcd, and what is left in the second polynomial.
plain_poly_gcd(fp, g, p) ==
    While([f |-> fp, g |-> g], LAMBDA s : s.g.deg >= 0, LAMBDA s : [f |-> s.g, g |-> plain_poly_div_r(s.f, s.g, p)])

plain_poly_eval(f, x, p) == Down(f.deg - 1, 0, f.c[f.deg], LAMBDA i, v : CMod(v * x + f.c[i], p))

plain_poly_roots_naive(f, p) ==
    For(0, p - 1, <<>>, LAMBDA x, r : IF plain_poly_eval(f, x, p) = 0 THEN Append(r, x) ELSE r)

\* (x + a)^e modulo fp, which is made monic on the way; h is scratch.
plain_poly_powmod_ui(g, fp, h, a, e, p) ==
    Then(plain_poly_make_monic(fp, p), LAMBDA f :
        Then(Down(nbits(e) - 2, 0, [g |-> plain_poly_set_linear(g, 1, a), h |-> h],
                LAMBDA k, s : Then(plain_poly_sqr(s.h, s.g, p),
                    LAMBDA sq : [g |-> plain_poly_div_r(IF Bit(e, k) THEN plain_poly_mul_x(sq, a, p) ELSE sq, f, p), h |-> s.g])),
             LAMBDA s : [g |-> s.g, fp |-> f, h |-> s.h]))

plain_poly_general_powmod_ui(g, fp, h, e, p) ==
    Then(plain_poly_make_monic(fp, p), LAMBDA f :
        Then(Down(nbits(e) - 2, 0, [g |-> g, h |-> h],
                LAMBDA k, s : Then(plain_poly_div_r(plain_poly_sqr(s.h, s.g, p), f, p),
                    LAMBDA sq : [g |-> plain_poly_div_r(IF Bit(e, k) THEN plain_poly_mul(sq, sq, g, p) ELSE sq, f, p), h |-> s.g])),
             LAMBDA s : [g |-> s.g, fp |-> f, h |-> s.h]))

(* Splitting of a product of distinct linear factors: a gcd with               *)
(* (x + a)^((p - 1) / 2) - 1 for a = rand, rand + 1, ... until one is proper.  *)
RECURSIVE plain_poly_cantor_zassenhaus(_, _, _)
plain_poly_cantor_zassenhaus(f, p, rand) ==
    LET d == f.deg
        Try(a, fp) == Then(plain_poly_powmod_ui(plain_poly_init(2 * d - 1), fp, plain_poly_init(2 * d - 1), a, (p - 1) \div 2, p),
                           LAMBDA w : [a |-> a, f |-> w.fp,
                                       q |-> plain_poly_gcd(plain_poly_sub_1(w.g, w.g, p), plain_poly_set(w.h, w.fp), p).f])
        Split == While(Try(rand % p, f), LAMBDA s : ~(0 < s.q.deg /\ s.q.deg < d),
                       LAMBDA s : Try(IF s.a + 1 >= p THEN s.a + 1 - p ELSE s.a + 1, s.f))
    IN  IF d = 1 THEN <<CMod(invert_si(-f.c[1], p) * f.c[0], p)>>
        ELSE Then(Split, LAMBDA s : plain_poly_cantor_zassenhaus(s.q, p, rand) \o
                 plain_poly_cantor_zassenhaus(plain_poly_divexact(plain_poly_init(0), s.f, s.q, p), p, rand))

\* Mutant of plain_poly_roots: the polynomial is split without x^p - x.
plain_poly_roots_whole(want, f, d0, p, rand) ==
    Then(plain_poly_set_mod(plain_poly_init(d0), f, d0, p), LAMBDA m :
        IF m.d <= 0 THEN [n |-> 0, r |-> <<>>]
        ELSE IF p <= (IF want THEN ROOTS_MOD_THRESHOLD2 ELSE ROOTS_MOD_THRESHOLD)
        THEN Then(plain_poly_roots_naive(m.fp, p), LAMBDA r : [n |-> Len(r), r |-> IF want THEN SortSeq(r, <) ELSE <<>>])
        ELSE Then(plain_poly_gcd(m.fp, plain_poly_set_mod(plain_poly_init(d0), f, d0, p).fp, p).f, LAMBDA lin :
                 [n |-> lin.deg,
                  r |-> IF want /\ lin.deg = 1 THEN SortSeq(plain_poly_cantor_zassenhaus(lin, p, rand), <) ELSE <<>>]))

\* The number of roots, and the roots when they are wanted (r /= NULL).
plain_poly_roots(want, f, d0, p, rand) ==
    Then(plain_poly_set_mod(plain_poly_init(d0), f, d0, p), LAMBDA m :
        IF m.d <= 0 THEN [n |-> 0, r |-> <<>>]
        ELSE IF p <= (IF want THEN ROOTS_MOD_THRESHOLD2 ELSE ROOTS_MOD_THRESHOLD)
        THEN Then(plain_poly_roots_naive(m.fp, p), LAMBDA r : [n |-> Len(r), r |-> IF want THEN SortSeq(r, <) ELSE <<>>])
        ELSE Then(plain_poly_powmod_ui(plain_poly_init(2 * m.d - 1), m.fp, plain_poly_init(2 * m.d - 1), 0, p, p), LAMBDA w :
             Then(plain_poly_gcd(w.fp, plain_poly_sub_x(w.g, w.g, p), p).f, LAMBDA lin :
                 [n |-> lin.deg,
                  r |-> IF want /\ lin.deg > 0 THEN SortSeq(plain_poly_cantor_zassenhaus(lin, p, rand), <) ELSE <<>>])))

\* x^(p^i) - x has no factor in common with fp for i up to half the degree.
plain_poly_is_irreducible(fp, p) ==
    Then(plain_poly_make_monic(fp, p), LAMBDA f :
        LET d == f.deg
            Scratch == plain_poly_init(2 * d - 1)
            Next(s) == Then(IF s.i = 1 THEN plain_poly_powmod_ui(s.g, f, s.h, 0, p, p) ELSE plain_poly_general_powmod_ui(s.g, f, s.h, p, p),
                            LAMBDA w : Then(plain_poly_gcd(plain_poly_set(w.h, f), plain_poly_sub_x(Scratch, w.g, p), p).f,
                                            LAMBDA h : [i |-> s.i + 1, g |-> w.g, h |-> h, irr |-> h.deg <= 0]))
        IN  d = 0 \/ While([i |-> 1, g |-> Scratch, h |-> Scratch, irr |-> TRUE], LAMBDA s : s.irr /\ 2 * s.i <= d, Next).irr)

(* utils/modul_poly.c: the same over residues 0 .. p - 1; the arithmetic is    *)
(* that of ModUl.                                                              *)
modul_poly_set(f, g) ==
    [deg |-> g.deg, c |-> Then(Grown(f.c, g.deg + 1), LAMBDA c : [i \in DOMAIN c |-> IF i <= g.deg THEN g.c[i] ELSE c[i]])]

modul_poly_make_monic(f, p) ==
    IF f.c[f.deg] = 1 THEN f
    ELSE Then(InverseMod(f.c[f.deg], p), LAMBDA ilc :
             [f EXCEPT !.c = [i \in DOMAIN f.c |-> IF i < f.deg THEN (f.c[i] * ilc) % p ELSE IF i = f.deg THEN 1 ELSE f.c[i]]])

modul_poly_set_mod_raw(fp, f, d, p) ==
    Then(While(d, LAMBDA e : e >= 0 /\ f[e] % p = 0, LAMBDA e : e - 1),
         LAMBDA e : [deg |-> e, c |-> Then(Grown(fp.c, e + 1), LAMBDA c : [i \in DOMAIN c |-> IF i <= e THEN f[i] % p ELSE c[i]])])

modul_poly_set_mod(fp, f, d, p) == modul_poly_make_monic(modul_poly_set_mod_raw(fp, f, d, p), p)

modul_poly_set_linear(f, a, b) == [deg |-> 1, c |-> [Grown(f.c, 2) EXCEPT ![1] = a, ![0] = b]]

modul_poly_mul(h, f, g, p) ==
    modul_poly_set(h, [deg |-> f.deg + g.deg,
        c |-> For(0, f.deg, [i \in 0 .. f.deg + g.deg |-> 0], LAMBDA i, r1 : For(0, g.deg, r1,
                  LAMBDA j, r : [r EXCEPT ![i + j] = (@ + f.c[i] * g.c[j]) % p]))])

modul_poly_sqr(h, g, p) ==
    LET dg == g.deg
        Cross == For(0, dg, Grown(h.c, 2 * dg + 1), LAMBDA i, c1 : For(i + 1, dg, c1,
                     LAMBDA j, c : [c EXCEPT ![i + j] = ((IF i = 0 \/ j = dg THEN 0 ELSE @) + g.c[i] * g.c[j]) % p]))
    IN  IF dg = -1 THEN [h EXCEPT !.deg = -1]
        ELSE [deg |-> 2 * dg, c |-> Then(Cross, LAMBDA c : [k \in DOMAIN c |->
                 CASE k = 0 \/ k = 2 * dg -> (g.c[k \div 2] * g.c[k \div 2]) % p
                   [] k > 0 /\ k < 2 * dg -> (2 * c[k] + (IF k % 2 = 0 THEN g.c[k \div 2] * g.c[k \div 2] ELSE 0)) % p
                   [] OTHER -> c[k]])]

modul_poly_normalize(h) == cleandeg(h, h.deg)

\* For h = 0 the code reads the cell before the array and gives degree 0.
modul_poly_mul_x(h, a, p) ==
    LET d == h.deg
        hc(i) == IF i < 0 THEN Junk ELSE h.c[i]
    IN  [deg |-> d + 1, c |-> [i \in DOMAIN Grown(h.c, d + 2) |->
             CASE i = 0 -> (a * (IF d = -1 THEN hc(-1) ELSE hc(0))) % p
               [] i = d + 1 /\ i > 0 -> hc(d)
               [] i \in 1 .. d -> (hc(i - 1) + a * hc(i)) % p
               [] OTHER -> hc(i)]]

modul_poly_sub_x(h, g, p) == MinusPower(h, g, 1, LAMBDA z : z % p)

modul_poly_sub_1(h, g, p) == MinusPower(h, g, 0, LAMBDA z : z % p)

modul_poly_div_r(h, f, p) ==
    LET d == f.deg
        t == InverseMod(f.c[d], p)
        Step(s) == Then((s.c[s.deg] * t) % p, LAMBDA top :
                       cleandeg([s EXCEPT !.c = [i \in DOMAIN s.c |->
                                     CASE i = s.deg -> top
                                       [] i \in s.deg - d .. s.deg - 1 -> (s.c[i] - top * f.c[i - s.deg + d]) % p
                                       [] OTHER -> s.c[i]]], s.deg - 1))
    IN  While(h, LAMBDA s : s.deg >= d, Step)

modul_poly_divexact(q, h, f, p) ==
    LET d == f.deg
        t == InverseMod(f.c[d], p)
        Step(s) == Then((s.c[s.dh] * t) % p, LAMBDA top :
                       [q |-> [s.q EXCEPT ![s.dh - d] = top], dh |-> s.dh - 1,
                        c |-> [i \in DOMAIN s.c |-> CASE i = s.dh -> top
                                  [] i \in Larger(d, s.dh - d) .. s.dh - 1 -> (s.c[i] - top * f.c[i - s.dh + d]) % p
                                  [] OTHER -> s.c[i]]])
    IN  modul_poly_normalize([deg |-> h.deg - d,
            c |-> While([c |-> h.c, dh |-> h.deg, q |-> Grown(q.c, h.deg + 1 - d)], LAMBDA s : s.dh >= d, Step).q])

modul_poly_gcd(fp, g, p) ==
    While([f |-> fp, g |-> g], LAMBDA s : s.g.deg >= 0, LAMBDA s : [f |-> s.g, g |-> modul_poly_div_r(s.f, s.g, p)])

modul_poly_eval(f, x, p) == Down(f.deg - 1, 0, f.c[f.deg], LAMBDA i, r : (r * x + f.c[i]) % p)

modul_poly_roots_naive(f, p) ==
    For(0, p - 1, <<>>, LAMBDA x, r : IF modul_poly_eval(f, x, p) = 0 THEN Append(r, x) ELSE r)

modul_poly_powmod_ui(g, fp, h, a, e, p) ==
    Then(modul_poly_make_monic(fp, p), LAMBDA f :
        Then(Down(nbits(e) - 2, 0, [g |-> modul_poly_set_linear(g, 1, a), h |-> h],
                LAMBDA k, s : Then(modul_poly_sqr(s.h, s.g, p), LAMBDA sq :
                    Then(modul_poly_div_r(IF Bit(e, k) THEN modul_poly_mul_x(sq, a, p) ELSE sq, f, p),
                         LAMBDA r : [g |-> modul_poly_set(s.g, r), h |-> r]))),
             LAMBDA s : [g |-> s.g, fp |-> f, h |-> s.h]))

modul_poly_general_powmod_ui(g, fp, h, e, p) ==
    Then(modul_poly_make_monic(fp, p), LAMBDA f :
        Then(Down(nbits(e) - 2, 0, [g |-> g, h |-> h],
                LAMBDA k, s : Then(modul_poly_div_r(modul_poly_sqr(s.h, s.g, p), f, p), LAMBDA sq :
                    Then(modul_poly_div_r(IF Bit(e, k) THEN modul_poly_mul(sq, sq, g, p) ELSE sq, f, p),
                         LAMBDA r : [g |-> modul_poly_set(s.g, r), h |-> r]))),
             LAMBDA s : [g |-> s.g, fp |-> f, h |-> s.h]))

RECURSIVE modul_poly_cantor_zassenhaus(_, _, _)
modul_poly_cantor_zassenhaus(f, p, rand) ==
    LET d == f.deg
        Try(a, fp) == Then(modul_poly_powmod_ui(plain_poly_init(2 * d - 1), fp, plain_poly_init(2 * d - 1), a, (p - 1) \div 2, p),
                           LAMBDA w : [a |-> a, f |-> w.fp,
                                       q |-> modul_poly_gcd(modul_poly_sub_1(w.g, w.g, p), modul_poly_set(w.h, w.fp), p).f])
        Split == While(Try(rand % p, f), LAMBDA s : ~(0 < s.q.deg /\ s.q.deg < d), LAMBDA s : Try((s.a + 1) % p, s.f))
    IN  IF d = 1 THEN <<(InverseMod((-f.c[1]) % p, p) * f.c[0]) % p>>
        ELSE Then(Split, LAMBDA s : modul_poly_cantor_zassenhaus(s.q, p, rand) \o
                 modul_poly_cantor_zassenhaus(modul_poly_divexact(plain_poly_init(0), s.f, s.q, p), p, rand))

modul_poly_roots(want, f, d0, p, rand) ==
    Then(modul_poly_set_mod(plain_poly_init(d0), f, d0, p), LAMBDA fp :
        IF fp.deg = 0 THEN [n |-> 0, r |-> <<>>]
        ELSE IF p <= (IF want THEN ROOTS_MOD_THRESHOLD2 ELSE ROOTS_MOD_THRESHOLD)
        THEN Then(modul_poly_roots_naive(fp, p), LAMBDA r : [n |-> Len(r), r |-> IF want THEN SortSeq(r, <) ELSE <<>>])
        ELSE Then(modul_poly_powmod_ui(plain_poly_init(2 * fp.deg - 1), fp, plain_poly_init(2 * fp.deg - 1), 0, p, p), LAMBDA w :
             Then(modul_poly_gcd(w.fp, modul_poly_sub_x(w.g, w.g, p), p).f, LAMBDA lin :
                 [n |-> lin.deg,
                  r |-> IF want /\ lin.deg > 0 THEN SortSeq(modul_poly_cantor_zassenhaus(lin, p, rand), <) ELSE <<>>])))

(* utils/rootfinder.c: the signed layer where its coefficients fit; its roots  *)
(* may be negative, and are made positive after they were sorted.              *)
poly_roots_ulong(want, f, d, p, rand) ==
    IF plain_poly_fits(d, p)
    THEN Then(plain_poly_roots(want, f, d, p, rand),
              LAMBDA x : [x EXCEPT !.r = [i \in DOMAIN x.r |-> IF x.r[i] < 0 THEN x.r[i] + p ELSE x.r[i]]])
    ELSE modul_poly_roots(want, f, d, p, rand)

(* utils/getprime.c: a sieve over odd numbers that moves along and doubles *)
getprime_reset == [offset |-> 0, current |-> -1, primes |-> <<>>, sieve |-> <<>>, moduli |-> <<>>, ret |-> 0]

NextSet(sieve, from) ==
    While(from + 1, LAMBDA i : i < Len(sieve) /\ sieve[i + 1] = 0, LAMBDA i : i + 1)

\* One more small prime, found by trial division, and its next odd multiple.
ExtendPrimes(s) ==
    LET p == While(s.primes[Len(s.primes)] + 2, LAMBDA q : \E j \in 1 .. Len(s.primes) : q % s.primes[j] = 0, LAMBDA q : q + 2)
        j == (-s.offset) % p
    IN  [s EXCEPT !.primes = Append(@, p), !.moduli = Append(@, (IF Odd(j) THEN j + p ELSE j) \div 2)]

Sieve(s) ==
    For(1, Len(s.primes), [s EXCEPT !.sieve = [i \in DOMAIN s.sieve |-> 1]],
        LAMBDA j, x : LET p == x.primes[j]
                          hit == {i \in 0 .. Len(x.sieve) - 1 : i >= x.moduli[j] /\ (i - x.moduli[j]) % p = 0}
                      IN  [x EXCEPT !.sieve = [i \in DOMAIN @ |-> IF i - 1 \in hit THEN 0 ELSE @[i]],
                                    !.moduli[j] = While(@, LAMBDA i : i < Len(x.sieve), LAMBDA i : i + p) - Len(x.sieve)])

\* The state after a call, with the prime it returns.
getprime(s) ==
    Then([s EXCEPT !.current = NextSet(s.sieve, s.current)], LAMBDA c :
        IF c.current < Len(c.sieve) THEN [c EXCEPT !.ret = c.offset + 2 * c.current]
        ELSE Then([c EXCEPT !.offset = @ + 2 * Len(c.sieve)], LAMBDA a :
             Then(IF Len(a.sieve) * Len(a.sieve) < a.offset THEN [a EXCEPT !.sieve = @ \o @] ELSE a, LAMBDA b :
             IF b.primes = <<>>
             THEN [offset |-> 5, current |-> -1, primes |-> <<3>>, sieve |-> <<1>>, moduli |-> <<1>>, ret |-> 3]
             ELSE Then(IF b.primes[Len(b.primes)] * b.primes[Len(b.primes)] < b.offset + Len(b.sieve)
                       THEN For(1, Len(b.primes), b, LAMBDA i, x : ExtendPrimes(x)) ELSE b, LAMBDA x :
                  Then(Sieve(x), LAMBDA y : Then(NextSet(y.sieve, -1), LAMBDA k :
                      [y EXCEPT !.current = k, !.ret = y.offset + 2 * k]))))))

(* utils/usp.c: isolation of the real roots with Descartes' rule of signs.     *)
(* The bounds of an interval are handed over by reference, so that a call may  *)
(* rescale its caller's, and a rational root is divided out of the polynomial  *)
(* all calls share.                                                            *)
sign(a) == IF a > 0 THEN 1 ELSE IF a < 0 THEN -1 ELSE 0

\* Division by 2^k x - a leaves the leading cell as it was.
divide(a, k, n, p) ==
    Down(n - 1, 0, [u |-> p[n], p |-> p],
         LAMBDA i, s : Then(CDiv(s.u, Pow(2, k)), LAMBDA w : [u |-> s.p[i] + a * w, p |-> [s.p EXCEPT ![i] = w]])).p

signValue(a, k, n, p) == sign(Down(n - 1, 0, p[n], LAMBDA i, w : w * a + p[i] * Pow(2, k * (n - i))))

\* p on the interval, moved to the unit interval.
Moved(a, b, m, n, p) ==
    LET first == Down(n - 1, 0, [i \in {n} |-> p[n]],
                      LAMBDA i, r : [j \in i .. n |-> IF j = i THEN b * r[i + 1] + p[i] * Pow(2, (n - i) * m) ELSE r[j]])
        End == For(1, n - 1, [r |-> first, u |-> a - b],
                   LAMBDA k, s : Then(Down(n - 1, k, s.r, LAMBDA i, r : [r EXCEPT ![i] = @ + b * r[i + 1]]),
                                      LAMBDA r : [r |-> [r EXCEPT ![k] = @ * s.u], u |-> s.u * (a - b)]))
    IN  [End.r EXCEPT ![n] = @ * End.u]

\* Sign changes, counted up to two, and where the count stopped.
SignChanges(r0, n, va, vb) ==
    LET last == sign(r0[0])
        Skip(x) == While(x.d, LAMBDA d : d > x.k /\ sign(x.r[n - d]) * last >= 0, LAMBDA d : d - 1)
        Step(x) == Then(Skip(x), LAMBDA d :
            IF d < x.k
            THEN [x EXCEPT !.d = d, !.k = n + 1, !.c = IF x.k > 0 /\ sign(x.r[n - x.k]) * x.s < 0 THEN @ + 1 ELSE @]
            ELSE Then(Down(n - 1, x.k, x.r, LAMBDA i, r : [r EXCEPT ![n - i] = @ + r[n - i - 1]]), LAMBDA r :
                 Then(sign(r[n - x.k]), LAMBDA i :
                     [r |-> r, d |-> d, k |-> x.k + 1, s |-> IF i /= 0 THEN i ELSE x.s,
                      c |-> IF x.k > 0 /\ x.s * i < 0 THEN (IF va * vb > 0 THEN 2 ELSE x.c + 1) ELSE x.c])))
    IN  While([r |-> r0, d |-> n - 1, k |-> 0, c |-> 0, s |-> 0], LAMBDA x : x.k <= n /\ x.c < 2, Step)

\* st holds the number of roots isolated so far and the polynomial; the result
\* adds the number found here and the bounds as they are left.
RECURSIVE usp(_, _, _, _, _, _, _, _)
usp(a, b, m, up0, va, vb, n, st) ==
    LET up == IF va * vb = 2 * (up0 % 2) - 1 THEN up0 - 1 ELSE up0
        even == (a + b) % 2 = 0
        mid == IF even THEN (a + b) \div 2 ELSE a + b
        lmi == IF even THEN m ELSE m + 1
        smi == signValue(mid, lmi, n, st.p)
        Wide(x) == IF lmi > m THEN 2 * x ELSE x
        Found(k) == [c |-> k, a |-> a, b |-> b, st |-> [st EXCEPT !.nroots = @ + k]]
        \* The left half, then the right one unless all roots are accounted for.
        Halves(most) ==
            Then(usp(Wide(a), mid, lmi, most, va, smi, n, st), LAMBDA l :
                IF l.c >= most THEN [c |-> l.c, a |-> a, b |-> b, st |-> l.st]
                ELSE Then(usp(l.b, Wide(b), lmi, most - l.c, smi, vb, n, l.st), LAMBDA r :
                         [c |-> l.c + r.c, a |-> a, b |-> b, st |-> r.st]))
        Rational ==
            Then(While(st, LAMBDA x : signValue(mid, lmi, n, x.p) = 0,
                       LAMBDA x : [nroots |-> x.nroots + 1, p |-> divide(mid, lmi, n, x.p)]), LAMBDA d :
            Then(usp(Wide(a), mid, lmi, n, signValue(Wide(a), lmi, n, d.p), signValue(mid, lmi, n, d.p), n, d), LAMBDA l :
            Then(usp(l.b, Wide(b), lmi, n, signValue(l.b, lmi, n, l.st.p), signValue(Wide(b), lmi, n, l.st.p), n, l.st), LAMBDA r :
                [c |-> 1 + l.c + r.c, a |-> l.a, b |-> r.b, st |-> r.st])))
        Descartes ==
            Then(SignChanges(Moved(a, b, m, n, st.p), n, va, vb), LAMBDA x :
                CASE x.c = 0 -> Found(0)
                  [] x.c = 1 -> Found(1)
                  [] OTHER -> Halves(IF x.k = n + 1 THEN 2 ELSE up))
    IN  CASE up = 0 -> Found(0)
          [] up = 1 -> Found(1)
          [] OTHER -> IF smi = 0 THEN Rational
                      ELSE IF va * smi < 0 /\ up = 2 THEN Found(2)
                      ELSE IF va * smi < 0 /\ vb * smi < 0 THEN Halves(up)
                      ELSE Descartes

\* 2^e is the bound on the roots, from the logarithms of the coefficients or the caller's.
numberOfRealRoots(p, n, e) ==
    LET zero == IF p[0] /= 0 THEN [nroots |-> 0, p |-> p]
                ELSE [nroots |-> 1, p |-> While(p, LAMBDA q : q[0] = 0, LAMBDA q : divide(0, 0, n, q))]
        R == Pow(2, e)
    IN  usp(-R, R, 0, n, signValue(-R, 0, n, zero.p), signValue(R, 0, n, zero.p), n, zero).st.nroots

(* Checks *)
Same(f, v) == Value(f) = Trimmed(v) /\ f.deg = Cardinality(DOMAIN Trimmed(v)) - 1
\* A structure for v whose array is longer and holds old values.
Worn(v) == [deg |-> Cardinality(DOMAIN Trimmed(v)) - 1, c |-> [i \in 0 .. 9 |-> IF i \in DOMAIN Trimmed(v) THEN v[i] ELSE Junk]]
Used == [deg |-> 2, c |-> [i \in 0 .. 9 |-> Junk - i]]

\* The ring operations on integer polynomials agree with the sums and products
\* of the coefficients, whatever the destination held before.
IntegerPolynomialsOk(v, w, m) ==
    \A g \in {Worn(v)}, h \in {Worn(w)}, minus \in {[i \in DOMAIN w |-> -w[i]]} :
        /\ \A same \in BOOLEAN : Same(poly_add(IF same THEN g ELSE Used, g, h, same), SumRef(v, w))
        /\ Same(poly_sub(Used, g, h), SumRef(v, minus))
        /\ Same(poly_sub_mod_mpz(g, g, h, m), Mod(SumRef(v, minus), m))
        /\ Same(poly_mul(Used, g, h), TimesRef(v, w))
        /\ Same(poly_mul_ui(Used, g, 3), TimesRef(v, [i \in {0} |-> 3]))
        /\ Same(poly_div_ui(poly_alloc(9), poly_mul_ui(Used, g, 3), 3), v)
        /\ Same(poly_div_ui_mod_ui(poly_alloc(9), poly_mul_ui(Used, g, 3), 3, m), Mod(v, m))
        /\ Same(poly_reduce_mod_mpz(Used, g, m), Mod(v, m))
        /\ \A r \in {poly_reduce_mod_mpz(Used, g, m)} :
               Odd(m) => Mod(TimesRef([i \in {0} |-> 2], Value(poly_div_2_mod_mpz(r, r, m))), m) = Mod(v, m)
        /\ \A x \in {-2, 3} : poly_eval(g, x) = EvalRef(v, x) /\ poly_eval_mod_mpz(g, x, m) = EvalRef(v, x) % m
        /\ Value(poly_derivative(Used, g)) = Trimmed([i \in 0 .. Cardinality(DOMAIN v) - 2 |-> (i + 1) * v[i + 1]])
        /\ g.deg >= 0 => Same(poly_sub_ui(g, 4), SumRef(v, [i \in {0} |-> -4]))
        /\ \A q \in {poly_reduce_makemonic_mod_mpz(Used, g, m)} :
               IF Mod(v, m) = <<>> THEN q.deg = -1
               ELSE \A top \in {Cardinality(DOMAIN Mod(v, m)) - 1} :
                        gcd(v[top], m) = 1 => q.c[q.deg] = 1 /\ q.deg = top /\ Mod(TimesRef(Value(q), [i \in {0} |-> v[top] % m]), m) = Mod(v, m)

\* Modulo f (of any leading coefficient prime to m) and m: a product and the
\* product of the residues differ by a multiple of f.
QuotientOk(v, w, F, m, e) ==
    \A f \in {Worn(F)} : \A g \in {poly_reduce_mod_mpz(Used, Worn(v), m)}, h \in {poly_reduce_mod_mpz(Used, Worn(w), m)}, invm \in {0, barrett_init(m)} :
        LET monic == [i \in DOMAIN F |-> (F[i] * InverseMod(F[f.deg] % m, m)) % m]
            \* Schoolbook division modulo m by the monic multiple of F.
            Rem(x) == Mod(Value(While([deg |-> Cardinality(DOMAIN x) - 1, c |-> x], LAMBDA s : s.deg >= f.deg,
                           LAMBDA s : cleandeg([s EXCEPT !.c = [i \in DOMAIN s.c |->
                               IF i >= s.deg - f.deg /\ i <= s.deg THEN (s.c[i] - s.c[s.deg] * monic[i - s.deg + f.deg]) % m ELSE s.c[i]]], s.deg))), m)
        IN  /\ g.deg >= 0 /\ h.deg >= 0 =>
                   Same(poly_mul_mod_f_mod_mpz(Used, g, h, f, m, invm), Rem(Mod(TimesRef(Value(g), Value(h)), m)))
            /\ g.deg >= 0 => Same(poly_sqr_mod_f_mod_mpz(Used, g, f, m, invm), Rem(Mod(TimesRef(Value(g), Value(g)), m)))
            /\ g.deg \in 0 .. f.deg - 1 =>
                   Value(poly_power_mod_f_mod_ui(Used, g, f, e, m)) =
                       For(1, e, [i \in {0} |-> 1], LAMBDA i, x : Rem(Mod(TimesRef(x, Value(g)), m)))
            /\ \A q \in {polymodF_mul([p |-> Worn(v), v |-> 1], [p |-> Worn(w), v |-> 0], f)} :
                   /\ q.p.deg < Larger(f.deg, 1)
                   /\ Mod(TimesRef(Value(q.p), [i \in {0} |-> Pow(InverseMod(F[f.deg] % m, m), q.v - 1) % m]), m) = Rem(Mod(TimesRef(v, w), m))

\* Barrett's reduction is the remainder; the p-adic digits of a polynomial lift
\* back to it unless a digit before the last is zero.
BarrettOk(b, m) == barrett_mod(b, m, barrett_init(m)) = b % m
LiftOk(v, p) ==
    LET K == <<3, 2, 1>>
        k(i) == K[i + 1]
        P0 == Worn(v)
    IN  P0.deg >= 0 =>
        \A P \in {poly_base_modp_init(P0, p, [i \in 0 .. 2 |-> k(i)], 2)} :
            (\A i \in 0 .. 1 : P[i].deg >= 0) =>
                \A a \in {poly_base_modp_lift(poly_base_modp_lift(poly_copy(poly_alloc(P0.deg), P[0]), P, 1, p), P, 2, p * p)} :
                    Value(a) = Value(P0)

RootsRef(v, p) == {x \in 0 .. p - 1 : EvalRef(v, x) % p = 0}
\* Both root finders count and find exactly the roots modulo p, from any start
\* of the random search and whatever fresh memory holds; the irreducibility
\* test agrees with the existence of a root up to degree 3.
RootsOk(v, p, rand) ==
    LET d == Cardinality(DOMAIN v) - 1
        right(x, want) == /\ x.n = Cardinality(RootsRef(v, p))
                          /\ want => {x.r[i] % p : i \in DOMAIN x.r} = RootsRef(v, p) /\ Len(x.r) = x.n
    IN  Mod(v, p) /= <<>> =>
        /\ \A want \in BOOLEAN :
               /\ right(plain_poly_roots(want, v, d, p, rand), want)
               /\ right(modul_poly_roots(want, v, d, p, rand), want)
               /\ \A x \in {poly_roots_ulong(want, v, d, p, rand)} : right(x, want) /\ \A i \in DOMAIN x.r : x.r[i] \in 0 .. p - 1
        /\ \A m \in {plain_poly_set_mod(plain_poly_init(d), v, d, p)} :
               m.d \in 2 .. 3 => plain_poly_is_irreducible(m.fp, p) = (RootsRef(v, p) = {})

\* Without a root at a dyadic point of the subdivision, quadratics and cubics
\* have the number of real roots their discriminant says.
DiscriminantRef(v) ==
    IF Cardinality(DOMAIN v) = 3 THEN v[1] * v[1] - 4 * v[0] * v[2]
    ELSE 18 * v[0] * v[1] * v[2] * v[3] - 4 * v[2] * v[2] * v[2] * v[0] + v[1] * v[1] * v[2] * v[2]
         - 4 * v[3] * v[1] * v[1] * v[1] - 27 * v[3] * v[3] * v[0] * v[0]
DyadicRoot(v, n) == \E x \in -32 .. 32 : signValue(x, 2, n, v) = 0
RealRootsOk(v) ==
    LET n == Cardinality(DOMAIN v) - 1
    IN  v[n] /= 0 /\ DiscriminantRef(v) /= 0 /\ ~DyadicRoot(v, n) =>
        numberOfRealRoots(v, n, 3) =
            (IF n = 2 THEN (IF DiscriminantRef(v) > 0 THEN 2 ELSE 0) ELSE IF DiscriminantRef(v) > 0 THEN 3 ELSE 1)

\* The calls to getprime enumerate the odd primes, none skipped and no composite.
PrimesOk(n) ==
    \A s \in {For(1, n, [st |-> getprime_reset, seen |-> <<>>],
                  LAMBDA i, x : Then(getprime(x.st), LAMBDA y : [st |-> y, seen |-> Append(x.seen, y.ret)]))} :
        /\ \A i \in 1 .. n - 1 : s.seen[i] < s.seen[i + 1]
        /\ {s.seen[i] : i \in 1 .. n} = {q \in 3 .. s.seen[n] : Odd(q) /\ \A d \in 3 .. 200 : d * d > q \/ q % d /= 0}
====
