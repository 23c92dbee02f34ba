---- MODULE Arith ----
(* What the four modular arithmetics promise, stated against plain integer     *)
(* arithmetic.  kind names the arithmetic; its operations are dispatched here  *)
(* and the templates of the two _common.c files instantiated for each.         *)
EXTENDS ModRedc2Ul, FiniteSets, Sequences

Val15(s, m) == Val(modredc15ul_get_uls(s, m))
Val2(s, m) == Val(modredc2ul2_get_uls(s, m))
Mod15(m) == Val(modredc15ul_getmod_uls(m))
Mod2(m) == Val(modredc2ul2_getmod_uls(m))

UL == INSTANCE ModUlCommon WITH Residue <- Word,
    mod_getmod <- modul_getmod_ul, mod_get <- modul_get_ul, mod_set1 <- modul_set1,
    mod_add <- modul_add, mod_sub <- modul_sub, mod_neg <- modul_neg,
    mod_mul <- modul_mul, mod_sqr <- modul_sqr

RedcUL == INSTANCE ModUlCommon WITH Residue <- Word,
    mod_getmod <- modredcul_getmod_ul, mod_get <- modredcul_get_ul,
    mod_set1 <- modredcul_set1, mod_add <- modredcul_add, mod_sub <- modredcul_sub,
    mod_neg <- modredcul_neg, mod_mul <- modredcul_mul, mod_sqr <- modredcul_sqr

Redc15UL == INSTANCE Mod2UlCommon WITH Residue <- Pair,
    mod_getmod <- Mod15, mod_get <- Val15,
    mod_set1 <- modredc15ul_set1, mod_add <- modredc15ul_add, mod_sub <- modredc15ul_sub,
    mod_neg <- modredc15ul_neg, mod_mul <- modredc15ul_mul, mod_sqr <- modredc15ul_sqr,
    mod_divn <- modredc15ul_divn

Redc2UL2 == INSTANCE Mod2UlCommon WITH Residue <- Pair,
    mod_getmod <- Mod2, mod_get <- Val2,
    mod_set1 <- modredc2ul2_set1, mod_add <- modredc2ul2_add, mod_sub <- modredc2ul2_sub,
    mod_neg <- modredc2ul2_neg, mod_mul <- modredc2ul2_mul, mod_sqr <- modredc2ul2_sqr,
    mod_divn <- modredc2ul2_divn

Kinds == {"ul", "redcul", "redc15ul", "redc2ul2"}
TwoWords == {"redc15ul", "redc2ul2"}

(* Moduli a kind accepts, and the modulus and residue built from integers. *)
ModuliOf(k) ==
    CASE k = "ul" -> 2 .. W - 1
      [] k = "redcul" -> {n \in 3 .. W - 1 : n % 2 = 1}
      [] k = "redc15ul" -> {n \in W + 1 .. 2^((3 * LONG_BIT) \div 2) - 1 : n % 2 = 1}
      [] k = "redc2ul2" -> {n \in W + 1 .. 2^(2 * LONG_BIT - 2) - 1 : n % 2 = 1}

initmod(k, n) ==
    CASE k = "ul" -> n
      [] k = "redcul" -> modredcul_initmod_ul(n)
      [] k = "redc15ul" -> modredc15ul_initmod_uls(OfVal(n))
      [] k = "redc2ul2" -> modredc2ul2_initmod_uls(OfVal(n))

add(k, a, b, m) ==
    CASE k = "ul" -> modul_add(a, b, m) [] k = "redcul" -> modredcul_add(a, b, m)
      [] k = "redc15ul" -> modredc15ul_add(a, b, m) [] k = "redc2ul2" -> modredc2ul2_add(a, b, m)
sub(k, a, b, m) ==
    CASE k = "ul" -> modul_sub(a, b, m) [] k = "redcul" -> modredcul_sub(a, b, m)
      [] k = "redc15ul" -> modredc15ul_sub(a, b, m) [] k = "redc2ul2" -> modredc2ul2_sub(a, b, m)
mul(k, a, b, m) ==
    CASE k = "ul" -> modul_mul(a, b, m) [] k = "redcul" -> modredcul_mul(a, b, m)
      [] k = "redc15ul" -> modredc15ul_mul(a, b, m) [] k = "redc2ul2" -> modredc2ul2_mul(a, b, m)
sqr(k, a, m) ==
    CASE k = "ul" -> modul_sqr(a, m) [] k = "redcul" -> modredcul_sqr(a, m)
      [] k = "redc15ul" -> modredc15ul_sqr(a, m) [] k = "redc2ul2" -> modredc2ul2_sqr(a, m)
neg(k, a, m) ==
    CASE k = "ul" -> modul_neg(a, m) [] k = "redcul" -> modredcul_neg(a, m)
      [] k = "redc15ul" -> modredc15ul_neg(a, m) [] k = "redc2ul2" -> modredc2ul2_neg(a, m)
div2(k, a, m) ==
    CASE k = "ul" -> modul_div2(a, m) [] k = "redcul" -> modredcul_div2(a, m)
      [] k = "redc15ul" -> modredc15ul_div2(a, m) [] k = "redc2ul2" -> modredc2ul2_div2(a, m)
inv(k, a, m) ==
    CASE k = "ul" -> modul_inv(a, m) [] k = "redcul" -> modredcul_inv(a, m)
      [] k = "redc15ul" -> modredc15ul_inv(a, m) [] k = "redc2ul2" -> modredc2ul2_inv(a, m)
get(k, a, m) ==
    CASE k = "ul" -> modul_get_ul(a, m) [] k = "redcul" -> modredcul_get_ul(a, m)
      [] k = "redc15ul" -> Val15(a, m) [] k = "redc2ul2" -> Val2(a, m)
set_ul(k, s, m) ==
    CASE k = "ul" -> modul_set_ul(s, m) [] k = "redcul" -> modredcul_set_ul(s, m)
      [] k = "redc15ul" -> modredc15ul_set_ul(s, m) [] k = "redc2ul2" -> modredc2ul2_set_ul(s, m)
set1(k, m) ==
    CASE k = "ul" -> modul_set1(m) [] k = "redcul" -> modredcul_set1(m)
      [] k = "redc15ul" -> modredc15ul_set1(m) [] k = "redc2ul2" -> modredc2ul2_set1(m)

(* Reference: the residue that stands for the integer x, and the value of the  *)
(* stored word or words.                                                       *)
Radix(k) == CASE k = "ul" -> 1 [] k = "redcul" -> W [] k \in TwoWords -> W * W
Stored(k, a) == IF k \in TwoWords THEN Val(a) ELSE a
Repr(k, x, n) ==
    LET r == ((x % n) * (Radix(k) % n)) % n IN IF k \in TwoWords THEN OfVal(r) ELSE r
\* The integer x < n that a represents.
Plain(k, a, n) == CHOOSE x \in 0 .. n - 1 : (x * (Radix(k) % n)) % n = Stored(k, a)

(* x^e modulo n and the Chebyshev value V_e(x), by their defining recurrences. *)
PowRef(x, e, n) == LET p[i \in Nat] == IF i = 0 THEN 1 % n ELSE (p[i - 1] * x) % n IN p[e]
VRef(x, e, n) ==
    LET v[i \in Nat] == IF i = 0 THEN <<2 % n, x % n>>
                        ELSE LET p == v[i - 1] IN <<p[2], (p[2] * x - p[1]) % n>>
    IN  v[e][1]
Divides(d, n) == n % d = 0
GcdRef(x, n) == CHOOSE g \in 1 .. n : /\ Divides(g, x) /\ Divides(g, n)
                                      /\ \A d \in g + 1 .. n : ~(Divides(d, x) /\ Divides(d, n))
PrimeRef(n) == n > 1 /\ \A d \in 2 .. n - 1 : d * d > n \/ n % d # 0
LegendreRef(x, p) == IF x % p = 0 THEN 0
                     ELSE IF \E y \in 1 .. p - 1 : (y * y - x) % p = 0 THEN 1 ELSE -1
(* Jacobi symbol as the product of the Legendre symbols of the prime factors. *)
JacobiRef(x, n) ==
    LET j[r \in Nat] ==
          IF r = 1 THEN 1
          ELSE LET p == CHOOSE d \in 2 .. r : r % d = 0 /\ \A c \in 2 .. d - 1 : r % c # 0
               IN  LegendreRef(x, p) * j[r \div p]
    IN  j[n]
(* n - 1 = 2^l k with k odd; b^k = 1 or b^(2^i k) = -1 for some i < l. *)
SprpRef(b, n) ==
    LET l == CHOOSE i \in 0 .. 2 * LONG_BIT : (n - 1) % 2^i = 0 /\ ((n - 1) \div 2^i) % 2 = 1
        k == (n - 1) \div 2^l
        r == PowRef(b, k, n)
        s[i \in Nat] == IF i = 0 THEN r ELSE (s[i - 1] * s[i - 1]) % n
    IN  r = 1 \/ \E i \in 0 .. l - 1 : s[i] = n - 1

(* The properties, for one modulus n of one kind and one residue a. *)

RingOk(k, n, a, Bs) ==
    \A m \in {initmod(k, n)}, x \in {Plain(k, a, n)} :
        /\ sqr(k, a, m) = Repr(k, x * x, n)
        /\ neg(k, a, m) = Repr(k, (n - x) % n, n)
        /\ n % 2 = 1 => div2(k, a, m) = Repr(k, CHOOSE h \in 0 .. n - 1 : (2 * h) % n = x, n)
        /\ \A y \in Bs :
             \A b \in {Repr(k, y, n)} :
                 /\ add(k, a, b, m) = Repr(k, x + y, n)
                 /\ sub(k, a, b, m) = Repr(k, x - y + n, n)
                 /\ mul(k, a, b, m) = Repr(k, (x * y) % n, n)

(* The estimated quotient of a two-word reduction is at most one too large,    *)
(* and is corrected unless its product with n wraps around two words.          *)
Reducible(v, n) == ((v \div n) + 1) * n < W * W

ConversionsOk(k, n, a) ==
    \A m \in {initmod(k, n)}, x \in {Plain(k, a, n)} :
        /\ set1(k, m) = Repr(k, 1, n)
        /\ get(k, a, m) = x
        /\ \A s \in Word :
             /\ set_ul(k, s, m) = Repr(k, s, n)
             /\ k = "ul" => /\ modul_add_ul(a, s, m) = (a + s) % n
                            /\ modul_sub_ul(a, s, m) = (a - s) % n
             /\ k = "redcul" => /\ modredcul_add_ul(a, s, m) = Repr(k, x + s, n)
                                /\ modredcul_sub_ul(a, s, m) = Repr(k, (x - s) % n, n)
                                /\ modredcul_set_uls(s, m) = Repr(k, s, n)
             /\ k = "redc15ul" => /\ modredc15ul_add_ul(a, s, m) = Repr(k, x + s, n)
                                  /\ modredc15ul_sub_ul(a, s, m) = Repr(k, (x - s) % n, n)
                                  /\ Reducible(Val(<<s, a[1]>>), n) =>
                                       modredc15ul_set_uls(<<s, a[1]>>, m)
                                         = Repr(k, Val(<<s, a[1]>>) % n, n)
             /\ k = "redc2ul2" => /\ modredc2ul2_add_ul(a, s, m) = Repr(k, x + s, n)
                                  /\ modredc2ul2_sub_ul(a, s, m) = Repr(k, (x - s) % n, n)
                                  /\ Reducible(Val(<<s, a[1]>>), n) =>
                                       modredc2ul2_set_uls(<<s, a[1]>>, m)
                                         = Repr(k, Val(<<s, a[1]>>) % n, n)

(* Results that may equal the modulus, and the REDC variants of mod_ul.h. *)
SemiOk(n, a) ==
    \A m \in {modredcul_initmod_ul(n)} :
    LET Redc(v) == CHOOSE r \in 0 .. n - 1 : (r * W - v) % n = 0
        Semi(r, v) == r \in 0 .. n /\ r % n = Redc(v)
    IN  /\ modul_tomontgomery(a, n) = (a * W) % n
        /\ modul_frommontgomery(a, m.invm, n) = Redc(a)
        /\ a # 0 => Semi(modul_redcsemi_ul_not0(a, m.invm, n), a)
        /\ \A b \in Word :
             /\ modul_addredc_ul(a, b, m.invm, n) = Redc(a + b)
             /\ Semi(modul_addredcsemi_ul(a, b, m.invm, n), a + b)
             /\ modul_mulredc_ul(a, b, m.invm, n) = Redc(a * b)
             /\ \A c \in Word : a * b + c < W * n =>
                  modul_muladdredc_ul(a, b, c, m.invm, n) = Redc(a * b + c)
             /\ \A p \in 0 .. W - 2 :
                  LET r == modredcul_redc_semi(b, p, m)
                  IN  r % n = Redc(b + W * p) /\ IF p < n THEN r <= n ELSE r <= p
        /\ \A b \in 0 .. n - 1 : modul_mulredc(a, b, m.invm, n) = Redc(a * b)

InverseOk(k, n, a) ==
    \A m \in {initmod(k, n)}, x \in {Plain(k, a, n)} : \A i \in {inv(k, a, m)} :
        /\ (i.ok = 1) <=> GcdRef(x, n) = 1
        /\ i.ok = 1 => mul(k, a, i.r, m) = Repr(k, 1, n) /\ Stored(k, i.r) < n
        /\ k \in {"redcul", "redc15ul"} /\ i.ok = 1 => i.t \in 0 .. 2 * LONG_BIT - 1
        /\ k \in TwoWords /\ i.ok = 1 => i.t >= 0

GcdJacobiOk(k, n, a) ==
    \A m \in {initmod(k, n)}, x \in {Plain(k, a, n)} :
    LET gcd == CASE k = "ul" -> UL!mod_gcd(a, m) [] k = "redcul" -> RedcUL!mod_gcd(a, m)
                 [] k = "redc15ul" -> Val(Redc15UL!mod_gcd(a, m))
                 [] k = "redc2ul2" -> Val(Redc2UL2!mod_gcd(a, m))
        jac == CASE k = "ul" -> UL!mod_jacobi(a, m) [] k = "redcul" -> RedcUL!mod_jacobi(a, m)
                 [] k = "redc15ul" -> Redc15UL!mod_jacobi(a, m)
                 [] k = "redc2ul2" -> Redc2UL2!mod_jacobi(a, m)
    IN  /\ gcd = GcdRef(x, n)
        /\ n % 2 = 1 => jac = JacobiRef(x, n)

PowersOk(k, n, a, Es) ==
    \A m \in {initmod(k, n)}, x \in {Plain(k, a, n)} :
    LET P(y, e) == Repr(k, PowRef(y, e, n), n)
        V(e) == Repr(k, VRef(x, e, n), n)
    IN  \A e \in Es :
          /\ k = "ul" => /\ UL!mod_pow_ul(a, e, m) = P(x, e) /\ UL!mod_V_ul(a, e, m) = V(e)
                         /\ UL!mod_2pow_ul(e, m) = P(2, e) /\ UL!mod_3pow_ul(e, m) = P(3, e)
          /\ k = "redcul" => /\ RedcUL!mod_pow_ul(a, e, m) = P(x, e)
                             /\ RedcUL!mod_V_ul(a, e, m) = V(e)
                             /\ RedcUL!mod_2pow_ul(e, m) = P(2, e)
                             /\ RedcUL!mod_3pow_ul(e, m) = P(3, e)
                             /\ RedcUL!mod_pow_mp(a, <<e, 1>>, m) = P(x, e + W)
                             /\ RedcUL!mod_2pow_mp(<<e, 1>>, m) = P(2, e + W)
                             /\ RedcUL!mod_V_mp(a, <<e, 1>>, m) = V(e + W)
          /\ k = "redc15ul" => /\ Redc15UL!mod_pow_mp(a, <<e, 1>>, m) = P(x, e + W)
                               /\ Redc15UL!mod_V_mp(a, <<e, 1>>, m) = V(e + W)
                               /\ \A b \in {2, 3, 5, 7} :
                                    /\ Redc15UL!mod_npow_ul(b, e, m) = P(b, e)
                                    /\ Redc15UL!mod_npow_mp(b, <<e, 1>>, m) = P(b, e + W)
          /\ k = "redc2ul2" => /\ Redc2UL2!mod_pow_ul(a, e, m) = P(x, e)
                               /\ Redc2UL2!mod_V_ul(a, e, m) = V(e)

DivisionOk(k, n, a, Ds) ==
    \A m \in {initmod(k, n)}, x \in {Plain(k, a, n)} :
    LET div(d) == CASE k = "ul" -> (CASE d = 3 -> UL!mod_div3(a, m) [] d = 5 -> UL!mod_div5(a, m)
                         [] d = 7 -> UL!mod_div7(a, m) [] d = 11 -> UL!mod_div11(a, m)
                         [] d = 13 -> UL!mod_div13(a, m))
                    [] k = "redcul" -> (CASE d = 3 -> RedcUL!mod_div3(a, m)
                         [] d = 5 -> RedcUL!mod_div5(a, m) [] d = 7 -> RedcUL!mod_div7(a, m)
                         [] d = 11 -> RedcUL!mod_div11(a, m) [] d = 13 -> RedcUL!mod_div13(a, m))
                    [] k = "redc15ul" -> (CASE d = 3 -> Redc15UL!mod_div3(a, m)
                         [] d = 5 -> Redc15UL!mod_div5(a, m) [] d = 7 -> Redc15UL!mod_div7(a, m)
                         [] d = 11 -> Redc15UL!mod_div11(a, m) [] d = 13 -> Redc15UL!mod_div13(a, m))
                    [] k = "redc2ul2" -> (CASE d = 3 -> Redc2UL2!mod_div3(a, m)
                         [] d = 5 -> Redc2UL2!mod_div5(a, m) [] d = 7 -> Redc2UL2!mod_div7(a, m)
                         [] d = 11 -> Redc2UL2!mod_div11(a, m) [] d = 13 -> Redc2UL2!mod_div13(a, m))
    IN  \A d \in Ds : \A q \in {div(d)} :
            /\ (q.ok = 1) <=> ~Divides(d, n)
            /\ q.ok = 1 => Stored(k, q.r) < n /\ (d * Plain(k, q.r, n)) % n = x

SprpOk(k, n, a) ==
    \A m \in {initmod(k, n)}, x \in {Plain(k, a, n)} :
    LET claims == CASE k = "ul" -> <<UL!mod_sprp(a, m), UL!mod_sprp2(m)>>
                    [] k = "redcul" -> <<RedcUL!mod_sprp(a, m), RedcUL!mod_sprp2(m)>>
                    [] k = "redc15ul" -> <<Redc15UL!mod_sprp(a, m), Redc15UL!mod_sprp2(m)>>
                    [] k = "redc2ul2" -> <<Redc2UL2!mod_sprp(a, m), Redc2UL2!mod_sprp2(m)>>
    IN  n > 3 /\ n % 2 = 1 => claims = <<SprpRef(x, n), SprpRef(2, n)>>

IntegersOk(n, d) ==
    LET v == Val(n)
    IN  /\ modredc15ul_intbits(n) = (IF v = 0 THEN 0 ELSE
             CHOOSE i \in 1 .. 2 * LONG_BIT : v \div 2^i = 0 /\ v \div 2^(i - 1) = 1)
        /\ \A i \in 0 .. LONG_BIT - 1 :
             /\ Val(modredc15ul_intshr(n, i)) = v \div 2^i
             /\ Val(modredc15ul_intshl(n, i)) = (v * 2^i) % (W * W)
        /\ Val(modredc15ul_intadd(n, d)) = (v + Val(d)) % (W * W)
        /\ Val(modredc15ul_intsub(n, d)) = (v - Val(d)) % (W * W)
        /\ Val(d) # 0 /\ Reducible(v, Val(d)) => Val(modredc15ul_intmod(n, d)) = v % Val(d)
        /\ Val(d) # 0 /\ Divides(Val(d), v) =>
             Val(modredc15ul_intdivexact(n, d)) = v \div Val(d)
        /\ modredc2ul2_intbits(n) = modredc15ul_intbits(n)
        /\ modredc2ul2_intsub(modredc2ul2_intadd(n, d), d) = n
        /\ \A i \in 0 .. LONG_BIT - 1 :
             Val(n) < 2^(2 * LONG_BIT - i) => modredc2ul2_intshr(modredc2ul2_intshl(n, i), i) = n
        /\ Val(d) # 0 /\ Divides(Val(d), v) =>
             Val(modredc2ul2_intdivexact(n, d)) = v \div Val(d)
        /\ n[2] = 0 /\ d[2] = 0 /\ d[1] % 2 = 1 =>
             /\ (d[1] * ularith_invmod(d[1])) % W = 1
             /\ modul_invmodlong(d[1]) = ularith_invmod(d[1])
             /\ Divides(d[1], n[1]) => modredcul_intdivexact(n[1], d[1]) = n[1] \div d[1]
             /\ modredcul_intbits(n[1]) = modul_intbits(n[1])
====
