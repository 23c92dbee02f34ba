---- MODULE Mod2UlCommon ----
(* The functions that src/utils/modredc_2ul_common.c defines for the two-word  *)
(* arithmetics that include it, instantiated with their operators.  A residue  *)
(* is a pair of words; mod_get and mod_getmod give values.                     *)
EXTENDS ModRedc2Ul, Sequences

CONSTANTS Residue, mod_getmod(_), mod_get(_, _), mod_set1(_),
          mod_add(_, _, _), mod_sub(_, _, _), mod_neg(_, _),
          mod_mul(_, _, _), mod_sqr(_, _),
          mod_divn(_, _, _)

(* The powering and Chebyshev functions are those of mod_ul_common.c. *)
C == INSTANCE ModUlCommon

mod_pow_ul(b, e, m) == C!mod_pow_ul(b, e, m)
mod_pow_mp(b, e, m) == C!mod_pow_mp(b, e, m)
mod_V_ul(b, e, m) == C!mod_V_ul(b, e, m)
mod_V_mp(b, e, m) == C!mod_V_mp(b, e, m)
find_minus1(r1, minusone, po2, m) == C!find_minus1(r1, minusone, po2, m)

(* b a for b = 2, 3, 5, 7 by additions. *)
simple_mul(a, b, m) ==
    LET d == mod_add(a, a, m)
        q == mod_add(d, d, m)
    IN  CASE b = 2 -> d
          [] b = 3 -> mod_add(d, a, m)
          [] b = 5 -> mod_add(q, a, m)
          [] b = 7 -> mod_sub(mod_add(q, q, m), a, m)

mod_npow_ul(b, e, m) ==
    C!Powering(simple_mul(mod_set1(m), b, m), e, LAMBDA t : simple_mul(t, b, m), m)

mod_npow_mp(b, e, m) ==
    IF e = << >> \/ e[Len(e)] = 0 THEN mod_set1(m) ELSE mod_npow_ul(b, C!MpVal(e), m)

(* Exponents of one or two words, as the callers pass them. *)
NPow(b, e, m) == IF e[2] > 0 THEN mod_npow_mp(b, e, m) ELSE mod_npow_ul(b, e[1], m)
Pow(b, e, m) == IF e[2] > 0 THEN mod_pow_mp(b, e, m) ELSE mod_pow_ul(b, e[1], m)

(* m - 1 split into a power of 2 and a cofactor, as a word count of zeros of   *)
(* the low word: zeros is ularith_ctz where the code calls it, and ularith_clz *)
(* in mod_sprp and mod_sprp2.                                                  *)
Split(m, zeros(_)) ==
    LET low == m.m[1] - 1
        d == IF low = 0 THEN <<m.m[2], 0>> ELSE <<low, m.m[2]>>
    IN  [k |-> modredc15ul_intshr(d, zeros(d[1])),
         po2 |-> zeros(d[1]) + (IF low = 0 THEN LONG_BIT ELSE 0)]

minusone(m) == mod_neg(mod_set1(m), m)

mod_sprp(b, m) ==
    LET s == Split(m, ularith_clz)
    IN  m.m # <<1, 0>> /\ find_minus1(Pow(b, s.k, m), minusone(m), s.po2, m)

mod_sprp2(m) ==
    LET s == Split(m, ularith_clz)
    IN  find_minus1(NPow(2, s.k, m), minusone(m), s.po2, m)

(* Strong tests in bases 2, then 7, 61, 5 if m = 1 modulo 3, else 3 and 5.     *)
(* The lists of exceptions above 2^32 for 32-bit words are left out.           *)
mod_isprime(m) ==
    LET n == m.m
        s == Split(m, ularith_ctz)
        Test(r1) == find_minus1(r1, minusone(m), s.po2, m)
        r2 == NPow(2, s.k, m)
        sixtyone == modredc15ul_tomontgomery(<<61, 0>>, m)
    IN  IF n[1] % 2 = 0 THEN n = <<2, 0>>
        ELSE /\ IF n[1] % 8 = 7 THEN r2 = mod_set1(m) ELSE Test(r2)
             /\ IF ((n[1] % 3) + (n[2] % 3)) \in {1, 4}
                THEN Test(NPow(7, s.k, m)) /\ Test(Pow(sixtyone, s.k, m)) /\ Test(NPow(5, s.k, m))
                ELSE Test(NPow(3, s.k, m)) /\ Test(NPow(5, s.k, m))

(* The residue modulo 3 is a sum of digits, of 8 bits in the code and of half a *)
(* word here.  a + 2m must fit two words.                                      *)
mod_div3(a, m) ==
    LET H == 2^(LONG_BIT \div 2)
        res(x) == ((x[2] % H) + (x[2] \div H) + (x[1] % H) + (x[1] \div H)) % 3
        once == ularith_add_2ul_2ul(a, m.m)
        t == IF res(a) = 0 THEN a
             ELSE IF res(a) + res(m.m) = 3 THEN once ELSE ularith_add_2ul_2ul(once, m.m)
    IN  IF res(m.m) = 0 THEN [ok |-> 0, r |-> a]
        ELSE [ok |-> 1, r |-> <<(t[1] * ularith_invmod(3)) % W, t[2] \div 3>>]

mod_div5(a, m) == mod_divn(a, 5, m)
mod_div7(a, m) == mod_divn(a, 7, m)
mod_div11(a, m) == mod_divn(a, 11, m)
mod_div13(a, m) == mod_divn(a, 13, m)

(* Binary gcd on signed two-word integers: each of a and b in turn is made odd *)
(* and the other gets +- it added, the sign chosen so that bit 1 vanishes too. *)
Signed(v) == ((v + ((W * W) \div 2)) % (W * W)) - ((W * W) \div 2)
Odd(v) == LET h[x \in Int] == IF x % 2 = 0 /\ x # 0 THEN h[x \div 2] ELSE x IN h[v]
Clear4(b, a) == IF (a \div 2) % 2 # (b \div 2) % 2 THEN Signed(b + a) ELSE Signed(b - a)
mod_gcd(A, m) ==
    LET abs(x) == IF x < 0 THEN -x ELSE x
        loop[p \in Int \X Int] ==
          LET a == Odd(p[1])
              b == Clear4(p[2], a)
              b1 == Odd(b)
          IN  IF p[1] = 0 THEN abs(p[2])
              ELSE IF b = 0 THEN abs(a)
              ELSE loop[<<Clear4(a, b1), b1>>]
    IN  IF A = <<0, 0>> THEN m.m ELSE OfVal(loop[<<Val(A), Val(m.m)>>])

(* a modulo m by subtracting m 2^j, m 2^(j-1), ..., until a < m. *)
SlowMod(a, m) ==
    LET up[t \in Nat] == IF t < a THEN up[(2 * t) % (W * W)] ELSE t
        down[p \in Nat \X Nat] ==
          IF p[1] < m THEN p[1]
          ELSE down[<<IF p[1] >= p[2] THEN p[1] - p[2] ELSE p[1], p[2] \div 2>>]
    IN  IF a < m THEN a ELSE IF a < W THEN a % m ELSE down[<<a, up[m]>>]

mod_jacobi(a, m) ==
    LET jac[s \in Nat \X Nat \X {-1, 1}] ==
          LET x == s[1] n == s[2]
              y == C!OddPart(x)
              two == IF C!TwoPart(x) % 2 = 1 /\ n % 8 \in {3, 5} THEN -1 ELSE 1
              rec == IF n % 4 = 3 /\ y % 4 = 3 THEN -1 ELSE 1
          IN  IF x = 0 THEN (IF n # 1 THEN 0 ELSE s[3])
              ELSE jac[<<SlowMod(n, y), y, s[3] * two * rec>>]
    IN  jac[<<mod_get(a, m), mod_getmod(m), 1>>]
====
