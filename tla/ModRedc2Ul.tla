---- MODULE ModRedc2Ul ----
(* Residues in Montgomery form, which differ in the size of the odd modulus.   *)
(* A modulus is the record the C struct is: m, invm = -1/m modulo the word     *)
(* size, and one, the Montgomery form of 1.                                    *)
(* First a modulus of one word: src/utils/modredc_ul.h and modredc_ul.c on     *)
(* x86.                                                                        *)
EXTENDS ModUl

modredcul_tomontgomery(a, m) == ularith_div_2ul_ul_ul_r(<<0, a>>, m.m)

modredcul_frommontgomery(a, m) ==
    (ularith_mul_ul_ul_2ul((a * m.invm) % W, m.m)[2] + B(a # 0)) % W

(* The sum taken by modredcul_add, whose first operand must be below m. *)
modredcul_add(a, b, m) ==
    LET t == AddC((a - m.m) % W, b, 0)
    IN  IF t[2] = 1 THEN t[1] ELSE (a + b) % W

modredcul_redc(plow, phigh, m) ==
    LET t == ularith_mul_ul_ul_2ul((plow * m.invm) % W, m.m)
    IN  modredcul_add((phigh + B(plow # 0)) % W, t[2], m)

(* Same instructions as modredcul_add, used with operands that may exceed m. *)
modredcul_add_semi(a, b, m) ==
    LET t == AddC((a - m.m) % W, b, 0)
    IN  IF t[2] = 1 THEN t[1] ELSE (a + b) % W

modredcul_redc_semi(plow, phigh, m) ==
    LET t == ularith_mul_ul_ul_2ul((plow * m.invm) % W, m.m)
    IN  modredcul_add_semi(t[2], (phigh + B(plow # 0)) % W, m)

modredcul_intbits(a) == IF a = 0 THEN 0 ELSE LONG_BIT - ularith_clz(a)
modredcul_intdivexact(n, d) == (n * ularith_invmod(d)) % W

modredcul_initmod_ul(s) ==
    [m |-> s, invm |-> (-ularith_invmod(s)) % W,
     one |-> IF s = 1 THEN 0 ELSE modredcul_tomontgomery(1, [m |-> s])]

(* Reduces s by one REDC of s * one, then enters Montgomery form. *)
modredcul_set_ul(s, m) ==
    LET p == ularith_mul_ul_ul_2ul(s, m.one)
    IN  modredcul_tomontgomery(modredcul_redc(p[1], p[2], m), m)

modredcul_set_uls(s, m) == modredcul_tomontgomery(s % m.m, m)
modredcul_getmod_ul(m) == m.m
modredcul_set1(m) == m.one
modredcul_get_ul(s, m) == modredcul_frommontgomery(s, m)

modredcul_add_ul(a, b, m) == modredcul_add(a, modredcul_set_ul(b, m), m)

modredcul_sub(a, b, m) ==
    LET t == SubB(a, b, 0) IN IF t[2] = 0 THEN t[1] ELSE (t[1] + m.m) % W

modredcul_sub_ul(a, b, m) == modredcul_sub(a, modredcul_set_ul(b, m), m)

modredcul_neg(a, m) == IF a = 0 THEN a ELSE m.m - a

(* imul, cmp, sbb, mul, lea, sub, add, cmovc. *)
RedcAsm(p, m) ==
    LET tlow == (p[1] * m.invm) % W
        phigh == (p[2] + B(tlow # 0)) % W
        rdx == ularith_mul_ul_ul_2ul(tlow, m.m)[2]
        s == AddC((phigh - m.m) % W, rdx, 0)
    IN  IF s[2] = 1 THEN s[1] ELSE (phigh + rdx) % W

modredcul_mul(a, b, m) == RedcAsm(ularith_mul_ul_ul_2ul(a, b), m)

modredcul_sqr(a, m) == RedcAsm(ularith_sqr_ul_2ul(a), m)

modredcul_div2(a, m) ==
    LET s == AddC(m.m, a, 0)
    IN  IF a % 2 = 0 THEN a \div 2 ELSE (s[1] + W * s[2]) \div 2

(* Divide x by the power of 2 in it; the multiplier u and the count t follow.  *)
(* x = 0 happens when x and y have met: ctz is then undefined, but x stays 0   *)
(* whatever the shift is, and the caller gives up without looking at u and t.  *)
StripZeros(x, u, t, mod) ==
    LET strip[s \in Nat \X Nat \X Int] ==
          IF s[1] % 2 = 1 \/ s[1] = 0 THEN s
          ELSE strip[<<s[1] \div 2, (s[2] * 2) % mod, s[3] + 1>>]
    IN  strip[<<x, u, t>>]

(* Binary extended gcd of odd x > y with cofactors v and u and the number t of *)
(* halvings: x is reduced while it exceeds y, then y while it exceeds x, until *)
(* Stop.  Cofactors are integers modulo mod.                                   *)
BinaryGcd(x0, y0, t0, mod, Stop(_)) ==
    LET State == [x : Nat, y : Nat, u : Nat, v : Nat, t : Int]
        reduceX[s \in State] ==
          LET z == StripZeros(s.x - s.y, s.u, s.t, mod)
              n == [x |-> z[1], y |-> s.y, u |-> z[2], v |-> (s.v + s.u) % mod, t |-> z[3]]
          IN  IF n.x > n.y THEN reduceX[n] ELSE n
        reduceY[s \in State] ==
          LET z == StripZeros(s.y - s.x, s.v, s.t, mod)
              n == [x |-> s.x, y |-> z[1], u |-> (s.u + s.v) % mod, v |-> z[2], t |-> z[3]]
          IN  IF n.x < n.y THEN reduceY[n] ELSE n
        outer[s \in State] ==
          LET a == reduceX[s]
              b == reduceY[a]
          IN  IF Stop(<<a.x, a.y>>) THEN a
              ELSE IF Stop(<<b.y, b.x>>) THEN b ELSE outer[b]
    IN  outer[[x |-> x0, y |-> y0, u |-> 1, v |-> 0, t |-> t0]]

(* The result of the gcd, 2^(w+t)/a, is divided by 2^t: a full REDC when t     *)
(* reaches the word size, then one of t bits.                                  *)
\* Mutant of DivTwoPower: the full REDC is left out.
DivTwoPower_partial(u, t, m) ==
    LET s == t % LONG_BIT
        p == ularith_add_ul_2ul(
               ularith_mul_ul_ul_2ul(((u * m.invm) % W) % 2^s, m.m), u)
    IN  IF s = 0 THEN u ELSE ularith_shrd(p[1], p[2], s)
DivTwoPower(u, t, m) ==
    LET full == t >= LONG_BIT
        v == IF full THEN modredcul_frommontgomery(u, m) ELSE u
        s == IF full THEN t - LONG_BIT ELSE t
        p == ularith_add_ul_2ul(
               ularith_mul_ul_ul_2ul(((v * m.invm) % W) % 2^s, m.m), v)
    IN  IF s = 0 THEN v ELSE ularith_shrd(p[1], p[2], s)

(* 1/A, or ok = 0 when A is not invertible (r is then left as it was).  The    *)
(* code asserts t < 2w before DivTwoPower.                                     *)
modredcul_inv(A, m) ==
    LET y0 == modredcul_get_ul(modredcul_get_ul(A, m), m)
        z == StripZeros(y0, 0, 0, W)
        Stop(p) == p[1] <= 1
        g == BinaryGcd(m.m, z[1], z[3], W, Stop)
        u == IF g.y # 1 THEN (m.m - g.v) % W ELSE g.u
    IN  IF A = 0 \/ g.x % 2 = 0 \/ g.y % 2 = 0
        THEN [ok |-> 0, t |-> 0, r |-> 0]
        ELSE [ok |-> 1, t |-> g.t, r |-> DivTwoPower(u, g.t, m)]

-----------------------------------------------------------------------------
(* A modulus of two words whose high word is at most half a word:              *)
(* src/utils/modredc_15ul.h and modredc_15ul.c on x86_64.  Residues, integers  *)
(* and the field m of a modulus are pairs <<low, high>>; invm is -1/m[0].      *)

modredc15ul_intlt(a, b) == Val(a) < Val(b)
modredc15ul_intadd(a, b) == ularith_add_2ul_2ul(a, b)
modredc15ul_intsub(a, b) == ularith_sub_2ul_2ul(a, b)

modredc15ul_intbits(a) ==
    IF a[2] > 0 THEN 2 * LONG_BIT - ularith_clz(a[2])
    ELSE IF a[1] > 0 THEN LONG_BIT - ularith_clz(a[1]) ELSE 0

modredc15ul_intshr(s, i) == <<ularith_shrd(s[1], s[2], i), s[2] \div 2^i>>
modredc15ul_intshl(s, i) == <<(s[1] * 2^i) % W, ularith_shld(s[2], s[1], i)>>

(* d is made odd, n following, then two words of the quotient are found by     *)
(* multiplying by the inverse of the low word of d.                            *)
modredc15ul_intdivexact(n, d) ==
    LET odd[p \in Pair \X Pair] ==
          IF p[2][1] % 2 = 1 THEN p
          ELSE odd[<<modredc15ul_intshr(p[1], 1), modredc15ul_intshr(p[2], 1)>>]
        n1 == odd[<<n, d>>][1]
        d1 == odd[<<n, d>>][2]
        invf == ularith_invmod(d1[1])
        r0 == (invf * n1[1]) % W
        rest == ularith_sub_2ul_2ul(n1, ularith_mul_ul_ul_2ul(r0, d1[1]))
    IN  <<r0, (invf * (rest[2] - r0 * d1[2])) % W>>

(* A quotient word is estimated from the top word of d and is at most one too  *)
(* large.                                                                      *)
modredc15ul_intmod(n, d) ==
    LET high == IF n[2] < d[1] THEN n[2] ELSE ularith_div_2ul_ul_ul(<<n[2], 0>>, d[1]).r
        h == modredc15ul_intshr(d, 1)
        i == IF h[2] = 0 THEN 0 ELSE LONG_BIT - ularith_clz(h[2])
        t == modredc15ul_intshr(modredc15ul_intshr(n, 1), i)
        q == ularith_div_2ul_ul_ul(t, modredc15ul_intshr(h, i)[1]).q
        qd == LET p == ularith_mul_ul_ul_2ul(q, d[1]) IN <<p[1], (p[2] + q * d[2]) % W>>
        fit == IF modredc15ul_intlt(n, qd) THEN modredc15ul_intsub(qd, d) ELSE qd
    IN  IF d[2] = 0 THEN <<ularith_div_2ul_ul_ul(<<n[1], high>>, d[1]).r, 0>>
        ELSE modredc15ul_intsub(n, fit)

(* one is 2^(2w) - m reduced modulo m. *)
modredc15ul_initmod_uls(s) ==
    [m |-> s, invm |-> (-ularith_invmod(s[1])) % W,
     one |-> modredc15ul_intmod(modredc15ul_intsub(<<0, 0>>, s), s)]

modredc15ul_add(a, b, m) == ularith_sub_2ul_2ul_ge(ularith_add_2ul_2ul(a, b), m.m)

modredc15ul_sub(a, b, m) ==
    LET d == ularith_sub_2ul_2ul_cy(a, b)
    IN  ularith_add_2ul_2ul(d.r, IF d.cy = 1 THEN m.m ELSE <<0, 0>>)

modredc15ul_neg(a, m) == IF a = <<0, 0>> THEN a ELSE ularith_sub_2ul_2ul(m.m, a)

modredc15ul_div2(a, m) ==
    modredc15ul_intshr(IF a[1] % 2 = 1 THEN ularith_add_2ul_2ul(a, m.m) ELSE a, 1)

(* 2w doublings. *)
modredc15ul_tomontgomery(s, m) ==
    LET dbl[i \in 0 .. 2 * LONG_BIT] ==
          IF i = 0 THEN s ELSE LET r == dbl[i - 1] IN modredc15ul_add(r, r, m)
    IN  dbl[2 * LONG_BIT]

modredc15ul_redc1(s, m) ==
    LET k == (s[1] * m.invm) % W
        p == ularith_mul_ul_ul_2ul(k, m.m[1])
        t == ularith_add_ul_2ul(<<(p[2] + B(p[1] # 0)) % W, 0>>, s[2])
    IN  ularith_add_2ul_2ul(t, ularith_mul_ul_ul_2ul(k, m.m[2]))

(* Two REDC steps. *)
modredc15ul_frommontgomery(s, m) ==
    LET t == modredc15ul_redc1(s, m)
        k == (t[1] * m.invm) % W
        p == ularith_mul_ul_ul_2ul(k, m.m[1])
        u == ularith_add_ul_2ul(<<t[2], 0>>, (p[2] + B(p[1] # 0)) % W)
    IN  ularith_add_2ul_2ul(u, ularith_mul_ul_ul_2ul(k, m.m[2]))

modredc15ul_set_ul(s, m) == modredc15ul_tomontgomery(<<s, 0>>, m)
modredc15ul_set_uls(s, m) ==
    modredc15ul_tomontgomery(IF modredc15ul_intlt(s, m.m) THEN s
                             ELSE modredc15ul_intmod(s, m.m), m)
modredc15ul_getmod_uls(m) == m.m
modredc15ul_set1(m) == m.one
modredc15ul_get_uls(s, m) == modredc15ul_frommontgomery(s, m)
modredc15ul_add_ul(a, b, m) == modredc15ul_add(a, modredc15ul_set_ul(b, m), m)
modredc15ul_sub_ul(a, b, m) == modredc15ul_sub(a, modredc15ul_set_ul(b, m), m)
(* First half of the multiplications: the product of the low words and one     *)
(* REDC step, t1:t0.                                                           *)
RedcLow(p, m) ==
    LET u0 == (p[1] * m.invm) % W
        q == ularith_mul_ul_ul_2ul(u0, m.m[1])
    IN  ularith_add_2ul_2ul(AddC(p[2], q[2], B(q[1] # 0)), ularith_mul_ul_ul_2ul(u0, m.m[2]))

(* Second half: a REDC step on t2:t1:t0 and the conditional subtraction.       *)
\* Mutant of RedcHigh: the final subtraction is left out.
RedcHigh_semi(t0, h, m) ==
    LET u1 == (t0 * m.invm) % W
        q == ularith_mul_ul_ul_2ul(u1, m.m[1])
        l == AddC(h[1], q[2], B(q[1] # 0))
    IN  ularith_add_2ul_2ul(<<l[1], (h[2] + l[2]) % W>>, ularith_mul_ul_ul_2ul(u1, m.m[2]))
RedcHigh(t0, h, m) ==
    LET u1 == (t0 * m.invm) % W
        q == ularith_mul_ul_ul_2ul(u1, m.m[1])
        l == AddC(h[1], q[2], B(q[1] # 0))
        t == ularith_add_2ul_2ul(<<l[1], (h[2] + l[2]) % W>>,
                                 ularith_mul_ul_ul_2ul(u1, m.m[2]))
    IN  ularith_sub_2ul_2ul_ge(t, m.m)

(* The cross products are added to two words, whose carry out is dropped, and  *)
(* only the low word of the product of the high words is kept: both are sound  *)
(* because a modulus has at most 3w/2 bits.                                    *)
modredc15ul_mul(a, b, m) ==
    LET t == RedcLow(ularith_mul_ul_ul_2ul(a[1], b[1]), m)
        s == ularith_add_2ul_2ul(t, ularith_mul_ul_ul_2ul(a[1], b[2]))
        x == ularith_add_2ul_2ul(s, ularith_mul_ul_ul_2ul(a[2], b[1]))
    IN  RedcHigh(x[1], AddC(x[2], (a[2] * b[2]) % W, 0), m)

(* The cross product is doubled by shl and rcl. *)
modredc15ul_sqr(a, m) ==
    LET t == RedcLow(ularith_mul_ul_ul_2ul(a[1], a[1]), m)
        x == ularith_add_2ul_2ul(t, modredc15ul_intshl(ularith_mul_ul_ul_2ul(a[1], a[2]), 1))
    IN  RedcHigh(x[1], AddC(x[2], (a[2] * a[2]) % W, 0), m)

(* k with n | a + k m, for n prime; inv_n is the table of -1/i modulo n.       *)
NegInvTable(n) == [i \in 0 .. n - 1 |->
    IF i = 0 THEN 0 ELSE CHOOSE j \in 1 .. n - 1 : (i * j) % n = n - 1]
MultipleToAdd(a, n, m) ==
    LET res(x) == ((x[2] % n) * (W % n) + (x[1] % n)) % n
    IN  (NegInvTable(n)[res(m.m)] * res(a)) % n
AddMultiple(a, k, m) ==
    LET p == ularith_mul_ul_ul_2ul(m.m[1], k)
    IN  ularith_add_2ul_2ul(<<p[1], (p[2] + m.m[2] * k) % W>>, a)

(* a/n for a small prime n, when (n - 1) m + a fits two words. *)
modredc15ul_divn(a, n, m) ==
    LET t == AddMultiple(a, MultipleToAdd(a, n, m), m)
    IN  IF Val(m.m) % n = 0 THEN [ok |-> 0, r |-> a]
        ELSE [ok |-> 1, r |-> <<(t[1] * ularith_invmod(n)) % W, t[2] \div n>>]

(* u / 2^t modulo m for t < w: the multiple of m that clears t bits is added.  *)
ShiftRedc(u, t, m) ==
    LET k == ((u[1] * m.invm) % W) % 2^t
        s == ularith_add_2ul_2ul(ularith_mul_ul_ul_2ul(k, m.m[1]), u)
        h == ularith_add_2ul_2ul(<<s[2], 0>>, ularith_mul_ul_ul_2ul(k, m.m[2]))
    IN  IF t = 0 THEN u ELSE <<ularith_shrd(s[1], h[1], t), ularith_shrd(h[1], h[2], t)>>

(* The gcd of x / 2^w, x the plain value of A, and m, which stops when the two *)
(* numbers have met.  t starts at -w.  Two-word integers are their values.     *)
GcdOf(x, m) ==
    LET z == StripZeros(Val(x), 0, 0, 1)
        Stop(p) == p[1] = p[2]
    IN  BinaryGcd(Val(m.m), z[1], z[3] - LONG_BIT, W * W, Stop)

(* 1/A.  The code asserts 0 <= t < 2w: one REDC brings t below w. *)
modredc15ul_inv(A, m) ==
    LET g == GcdOf(modredc15ul_redc1(modredc15ul_get_uls(A, m), m), m)
        full == g.t >= LONG_BIT
        u == IF full THEN modredc15ul_redc1(OfVal(g.u), m) ELSE OfVal(g.u)
    IN  IF A = <<0, 0>> THEN [ok |-> 0, t |-> 0, r |-> A]
        ELSE IF g.y # 1 THEN [ok |-> 0, t |-> 0, r |-> A]
        ELSE [ok |-> 1, t |-> g.t,
              r |-> ShiftRedc(u, IF full THEN g.t - LONG_BIT ELSE g.t, m)]

(* Then moduli whose two top bits are 0: src/utils/modredc_2ul2.h and          *)
(* modredc_2ul2.c on x86_64.  Everything but the multiplications, REDC and     *)
(* divn is the text of modredc_15ul.h with the prefix changed; each definition *)
(* below stands for its own copy of it.                                        *)
modredc2ul2_intlt(a, b) == modredc15ul_intlt(a, b)
modredc2ul2_intadd(a, b) == modredc15ul_intadd(a, b)
modredc2ul2_intsub(a, b) == modredc15ul_intsub(a, b)
modredc2ul2_intbits(a) == modredc15ul_intbits(a)
modredc2ul2_intshr(s, i) == modredc15ul_intshr(s, i)
modredc2ul2_intshl(s, i) == modredc15ul_intshl(s, i)
modredc2ul2_intdivexact(n, d) == modredc15ul_intdivexact(n, d)
modredc2ul2_intmod(n, d) == modredc15ul_intmod(n, d)
modredc2ul2_initmod_uls(s) == modredc15ul_initmod_uls(s)

modredc2ul2_add(a, b, m) == modredc15ul_add(a, b, m)
modredc2ul2_sub(a, b, m) == modredc15ul_sub(a, b, m)
modredc2ul2_neg(a, m) == modredc15ul_neg(a, m)
modredc2ul2_div2(a, m) == modredc15ul_div2(a, m)
modredc2ul2_tomontgomery(s, m) == modredc15ul_tomontgomery(s, m)

(* The carry into the high word is decided on s[0], not on the low product. *)
modredc2ul2_redc1(s, m) ==
    LET k == (s[1] * m.invm) % W
        p == ularith_mul_ul_ul_2ul(k, m.m[1])
        t == ularith_add_ul_2ul(<<(p[2] + B(s[1] # 0)) % W, 0>>, s[2])
    IN  ularith_add_2ul_2ul(t, ularith_mul_ul_ul_2ul(k, m.m[2]))
modredc2ul2_frommontgomery(s, m) == modredc2ul2_redc1(modredc2ul2_redc1(s, m), m)

modredc2ul2_set_ul(s, m) == modredc2ul2_tomontgomery(<<s, 0>>, m)
modredc2ul2_set_uls(s, m) ==
    modredc2ul2_tomontgomery(IF modredc2ul2_intlt(s, m.m) THEN s
                             ELSE modredc2ul2_intmod(s, m.m), m)
modredc2ul2_getmod_uls(m) == m.m
modredc2ul2_set1(m) == m.one
modredc2ul2_get_uls(s, m) == modredc2ul2_frommontgomery(s, m)
modredc2ul2_add_ul(a, b, m) == modredc2ul2_add(a, modredc2ul2_set_ul(b, m), m)
modredc2ul2_sub_ul(a, b, m) == modredc2ul2_sub(a, modredc2ul2_set_ul(b, m), m)
(* Three words: the carry of the second cross product is kept (setc t2), and   *)
(* the whole product of the high words is added.                               *)
modredc2ul2_mul(a, b, m) ==
    LET t == RedcLow(ularith_mul_ul_ul_2ul(a[1], b[1]), m)
        s == ularith_add_2ul_2ul(t, ularith_mul_ul_ul_2ul(a[1], b[2]))
        x == ularith_add_2ul_2ul_cy(s, ularith_mul_ul_ul_2ul(a[2], b[1]))
    IN  RedcHigh(x.r[1],
                 ularith_add_2ul_2ul(<<x.r[2], x.cy>>, ularith_mul_ul_ul_2ul(a[2], b[2])), m)

modredc2ul2_sqr(a, m) ==
    LET t == RedcLow(ularith_mul_ul_ul_2ul(a[1], a[1]), m)
        c == ularith_mul_ul_ul_2ul(a[1], a[2])
        x == ularith_add_2ul_2ul_cy(ularith_add_2ul_2ul(t, c), c)
    IN  RedcHigh(x.r[1],
                 ularith_add_2ul_2ul(<<x.r[2], x.cy>>, ularith_mul_ul_ul_2ul(a[2], a[2])), m)

(* a/n for a small prime n, where a + k m may overflow two words: the high     *)
(* word of the quotient is found modulo W as well.                             *)
modredc2ul2_divn(a, n, m) ==
    LET t == AddMultiple(a, MultipleToAdd(a, n, m), m)
        c == ularith_invmod(n)
        r0 == (t[1] * c) % W
        d == ularith_sub_2ul_2ul(t, ularith_mul_ul_ul_2ul(r0, n))
    IN  IF Val(m.m) % n = 0 THEN [ok |-> 0, r |-> a]
        ELSE [ok |-> 1, r |-> <<r0, (d[2] * c) % W>>]

(* The text of modredc15ul_inv, with as many REDC as t needs. *)
modredc2ul2_inv(A, m) ==
    LET g == GcdOf(modredc2ul2_redc1(modredc2ul2_get_uls(A, m), m), m)
        redc[n \in Nat] == IF n = 0 THEN OfVal(g.u) ELSE modredc2ul2_redc1(redc[n - 1], m)
    IN  IF A = <<0, 0>> THEN [ok |-> 0, t |-> 0, r |-> A]
        ELSE IF g.y # 1 THEN [ok |-> 0, t |-> 0, r |-> A]
        ELSE [ok |-> 1, t |-> g.t,
              r |-> ShiftRedc(redc[g.t \div LONG_BIT], g.t % LONG_BIT, m)]
====
