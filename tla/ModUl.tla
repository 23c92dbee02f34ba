---- MODULE ModUl ----
(* Fixed-width word arithmetic: src/utils/ularith.h, on x86, where the inline  *)
(* assembly is used.  An unsigned long is an integer in Word; a two-word       *)
(* integer is the pair <<low, high>> the C code passes as (r1, r2).            *)
(* The width is a parameter, and every operation below wraps at it.            *)
(*                                                                             *)
(* Then residues modulo a one-word modulus, stored as themselves:              *)
(* src/utils/mod_ul.h and src/utils/mod_ul.c on x86.  A modulus and a residue  *)
(* are both words; invm is -1/m modulo the word size, where a caller passes it. *)
EXTENDS Integers

CONSTANT LONG_BIT   \* number of bits of an unsigned long, even; 32 or 64 in the code

W == 2^LONG_BIT
HalfW == 2^(LONG_BIT \div 2)

\* The widths the operations are right for: no more than 64 bits, since the Newton
\* iterations of ularith_invmod stop then.  The rest are laws of exponents.
Width ==
    /\ LONG_BIT \in {2 * i : i \in 2 .. 32}
    /\ W = HalfW * HalfW
    /\ 2^((3 * LONG_BIT) \div 2) = W * HalfW
    /\ W * W = 4 * 2^(2 * LONG_BIT - 2)

\* More laws of exponents, which the shifts and the doublings rest on.
PowersOfTwo ==
    /\ 2^0 = 1 /\ 2^(2 * LONG_BIT) = W * W
    /\ \A i \in 0 .. 2 * LONG_BIT : 2^i \in Nat
    /\ \A i \in 1 .. 2 * LONG_BIT : 2^i = 2 * 2^(i - 1)
    /\ \A i \in 0 .. LONG_BIT : 2^i * 2^(LONG_BIT - i) = W

Word == 0 .. W - 1
Pair == Word \X Word
Val(p) == p[1] + W * p[2]
OfVal(v) == <<v % W, (v \div W) % W>>
B(c) == IF c THEN 1 ELSE 0

(* add / adc: sum word and carry out; sub / sbb: difference and borrow out. *)
AddC(x, y, c) == <<(x + y + c) % W, (x + y + c) \div W>>
SubB(x, y, c) == <<(x - y - c) % W, B(x < y + c)>>

ularith_add_ul_2ul(r, a) ==
    LET l == AddC(r[1], a, 0) IN <<l[1], (r[2] + l[2]) % W>>

ularith_add_2ul_2ul(r, a) ==
    LET l == AddC(r[1], a[1], 0) IN <<l[1], AddC(r[2], a[2], l[2])[1]>>

ularith_add_2ul_2ul_cy(r, a) ==
    LET l == AddC(r[1], a[1], 0)
        h == AddC(r[2], a[2], l[2])
    IN  [r |-> <<l[1], h[1]>>, cy |-> h[2]]

ularith_sub_2ul_2ul_cy(r, a) ==
    LET l == SubB(r[1], a[1], 0)
        h == SubB(r[2], a[2], l[2])
    IN  [r |-> <<l[1], h[1]>>, cy |-> h[2]]

ularith_sub_2ul_2ul(r, a) == ularith_sub_2ul_2ul_cy(r, a).r

(* Subtract a from r only when r >= a. *)
ularith_sub_2ul_2ul_ge(r, a) ==
    LET d == ularith_sub_2ul_2ul_cy(r, a) IN IF d.cy = 0 THEN d.r ELSE r

ularith_mul_ul_ul_2ul(a, b) == OfVal(a * b)

ularith_sqr_ul_2ul(a) == OfVal(a * a)

(* divq faults when the quotient does not fit: the code asserts a2 < b. *)
ularith_div_2ul_ul_ul(a, b) == [q |-> Val(a) \div b, r |-> Val(a) % b]

ularith_div_2ul_ul_ul_r(a, b) == Val(a) % b

ularith_shrd(r, a, i) == ((r + W * a) \div 2^i) % W

ularith_shld(r, a, i) == (((W * r + a) * 2^i) \div W) % W

(* __builtin_ctzl and __builtin_clzl; both are undefined for 0. *)
ularith_ctz(a) == CHOOSE i \in 0 .. LONG_BIT - 1 : a % 2^i = 0 /\ (a \div 2^i) % 2 = 1

ularith_clz(a) == CHOOSE i \in 0 .. LONG_BIT - 1 : (a * 2^i) \div (W \div 2) = 1

(* x xor 2, for the start value of the Newton iteration. *)
XorTwo(x) == IF (x \div 2) % 2 = 1 THEN x - 2 ELSE x + 2

(* Three steps computed on unsigned int (half a long on 64-bit machines), the  *)
(* last one on the full word; r is cut to a word after each.                   *)
Newton(r, n, mod) ==
    LET rr == ((r % mod) * (r % mod)) % mod IN (2 * r - ((rr * (n % mod)) % mod)) % W

ularith_invmod(n) ==
    LET Half(r) == Newton(r, n, HalfW)
    IN  Newton(Half(Half(Half(XorTwo((3 * n) % W)))), n, W)

(* The add / cmovc pair: a - m wraps, and a carry out of (a - m) + b tells     *)
(* that a + b reached m.                                                       *)
modul_add(a, b, m) ==
    LET t == AddC((a - m) % W, b, 0)
    IN  IF t[2] = 1 THEN t[1] ELSE (a + b) % W

modul_add_ul(a, b, m) ==
    LET b2 == b % m
    IN  IF a >= m - b2 THEN a - (m - b2) ELSE a + b2

modul_sub(a, b, m) ==
    LET t == SubB(a, b, 0) IN IF t[2] = 0 THEN t[1] ELSE (t[1] + m) % W

modul_sub_ul(a, b, m) ==
    LET b2 == b % m IN IF a >= b2 THEN a - b2 ELSE a + (m - b2)

modul_neg(a, m) == IF a = 0 THEN a ELSE m - a

modul_mul(a, b, m) == ularith_div_2ul_ul_ul_r(ularith_mul_ul_ul_2ul(a, b), m)

modul_sqr(a, m) == ularith_div_2ul_ul_ul_r(ularith_mul_ul_ul_2ul(a, a), m)

(* add, rcr, shr, cmovnc: half of a + m, with the carry shifted in, if a is odd. *)
modul_div2(a, m) ==
    LET s == AddC(m, a, 0)
    IN  IF a % 2 = 0 THEN a \div 2 ELSE (s[1] + W * s[2]) \div 2

modul_set_ul(s, m) == s % m

(* modul_set1 stores 1 whatever m is, also for m = 1. *)
modul_set1(m) == 1
modul_get_ul(s, m) == s
modul_getmod_ul(m) == m

\* Number of bits of a, 0 for a = 0.
modul_intbits(a) ==
    LET bits[n \in Nat] == IF n = 0 THEN 0 ELSE 1 + bits[n \div 2] IN bits[a]

modul_tomontgomery(a, m) == ularith_div_2ul_ul_ul_r(<<0, a>>, m)

\* The high word of t * invm * m, plus one when the low word is not 0.
modul_frommontgomery(a, invm, m) ==
    (ularith_mul_ul_ul_2ul(ularith_mul_ul_ul_2ul(a, invm)[1], m)[2] + B(a # 0)) % W

modul_redcsemi_ul_not0(a, invm, m) ==
    (ularith_mul_ul_ul_2ul((a * invm) % W, m)[2] + 1) % W

modul_addredc_ul(a, b, invm, m) ==
    LET s == ularith_add_ul_2ul(<<b, 0>>, a)
        t == ularith_mul_ul_ul_2ul((s[1] * invm) % W, m)
        r == (t[2] + s[2] + B(s[1] # 0)) % W
    IN  IF r = m THEN 0 ELSE r

modul_addredcsemi_ul(a, b, invm, m) ==
    LET s == AddC(b, a, 0)
        shigh == B(s[1] # 0) + s[2]
    IN  (ularith_mul_ul_ul_2ul((s[1] * invm) % W, m)[2] + shigh) % W

modul_mulredc(a, b, invm, m) ==
    LET p == ularith_mul_ul_ul_2ul(a, b)
        t == ularith_mul_ul_ul_2ul((p[1] * invm) % W, m)
    IN  modul_add((p[2] + B(p[1] # 0)) % W, t[2], m)

(* The reduction step written with a comparison instead of a carry. *)
CondSub(phigh, thigh, m) ==
    IF phigh >= (m - thigh) % W THEN (phigh - (m - thigh)) % W ELSE (phigh + thigh) % W

modul_mulredc_ul(a, b, invm, m) ==
    LET p == ularith_mul_ul_ul_2ul(a, b)
        t == ularith_mul_ul_ul_2ul((p[1] * invm) % W, m)
    IN  CondSub((p[2] + B(p[1] # 0)) % W, t[2], m)

modul_muladdredc_ul(a, b, c, invm, m) ==
    LET p == ularith_add_ul_2ul(ularith_mul_ul_ul_2ul(a, b), c)
        t == ularith_mul_ul_ul_2ul((p[1] * invm) % W, m)
    IN  CondSub((p[2] + B(p[1] # 0)) % W, t[2], m)

(* 1/n modulo the word size, from the four correct bits of                     *)
(* n ^ ((n & 4) << 1) ^ ((n & 2) << 2), by three Newton steps (four if a long  *)
(* has more than 32 bits).                                                     *)
modul_invmodlong(n) ==
    LET bit(x, i) == (x \div 2^i) % 2
        b3 == (bit(n, 3) + bit(n, 2) + bit(n, 1)) % 2
        start == (n - 8 * bit(n, 3) + 8 * b3) % W
        Step(r) == Newton(r, n, W)
    IN  Step(Step(Step(start)))

(* A negative cofactor is brought back above 0. *)
PlusModulus(u1, t) == IF u1 < 0 THEN u1 + t ELSE u1

(* Extended Euclid, unrolled twice.  u1 and v1 are longs, u2 and v2 unsigned   *)
(* longs; the result says whether s is invertible, and its inverse.            *)
modul_inv(s, t) ==
    LET loop[x \in Int \X Nat \X Int \X Nat] ==
          LET u1 == x[1] u2 == x[2] v1 == x[3] v2 == x[4]
              q  == u2 \div v2
              U1 == u1 - q * v1 U2 == u2 - q * v2
              p  == v2 \div U2
          IN  IF v2 = 0 THEN <<u1, u2>>
              ELSE IF U2 = 0 THEN <<v1, v2>>
              ELSE loop[<<U1, U2, v1 - p * U1, v2 - p * U2>>]
        e == loop[<<1, s, -(t \div s), t % s>>]
    IN  CASE s = 0 -> [ok |-> 0, r |-> 0]
          [] s = 1 -> [ok |-> 1, r |-> 1]
          [] s > 1 /\ t % s = 1 -> [ok |-> 1, r |-> modul_set_ul(t - t \div s, t)]
          [] OTHER -> IF e[2] # 1 THEN [ok |-> 0, r |-> 0]
                      ELSE [ok |-> 1, r |-> modul_set_ul(PlusModulus(e[1], t) % W, t)]
====
