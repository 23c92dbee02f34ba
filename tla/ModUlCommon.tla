---- MODULE ModUlCommon ----
(* The functions that src/utils/mod_ul_common.c defines for every arithmetic   *)
(* that includes it: the C file is compiled once per arithmetic with mod_add,  *)
(* mod_mul, ... renamed, here the module is instantiated with the operators.   *)
(* Exponents and integers of the width of the modulus are their values.        *)
EXTENDS Integers, Sequences

CONSTANTS LONG_BIT,
          Residue,           \* the stored form of a residue: a word or two
          mod_getmod(_),     \* value of the modulus
          mod_get(_, _),     \* integer a residue stands for
          mod_set1(_), mod_add(_, _, _), mod_sub(_, _, _), mod_neg(_, _),
          mod_mul(_, _, _), mod_sqr(_, _)

W == 2^LONG_BIT

(* Left-to-right binary powering, the loop on mask: a squaring per bit of e    *)
(* below the top one, and a multiplication (times) where the bit is set.       *)
TopBit(e) == CHOOSE i \in 0 .. 2 * LONG_BIT : e \div 2^i = 1
Powering(first, e, times(_), m) ==
    LET loop[t \in Residue, i \in Nat] ==
          IF i = 0 THEN t
          ELSE LET s == mod_sqr(t, m)
               IN  loop[IF (e \div 2^(i - 1)) % 2 = 1 THEN times(s) ELSE s, i - 1]
    IN  IF e = 0 THEN mod_set1(m) ELSE loop[first, TopBit(e)]

mod_pow_ul(b, e, m) == Powering(b, e, LAMBDA t : mod_mul(t, b, m), m)

(* Multiplications by small constants are chains of additions. *)
two(m) == mod_add(mod_set1(m), mod_set1(m), m)

mod_2pow_ul(e, m) == Powering(two(m), e, LAMBDA t : mod_add(t, t, m), m)

mod_3pow_ul(e, m) ==
    Powering(mod_add(two(m), mod_set1(m), m), e, LAMBDA t : mod_add(mod_add(t, t, m), t, m), m)

(* Value of an exponent of several words, the low one first. *)
MpVal(e) ==
    LET val[i \in Nat] == IF i > Len(e) THEN 0 ELSE e[i] + W * val[i + 1] IN val[1]

(* A top word of 0 makes the whole power 1, whatever the other words are. *)
mod_pow_mp(b, e, m) ==
    IF e = << >> \/ e[Len(e)] = 0 THEN mod_set1(m) ELSE mod_pow_ul(b, MpVal(e), m)

\* Requires a non-zero top word.
mod_2pow_mp(e, m) == mod_2pow_ul(MpVal(e), m)

(* V_e(b), with V_0 = 2, V_1 = b, by the chain on the pair (V_j, V_(j+1)). *)
mod_V_ul(b, e, m) ==
    LET loop[t \in Residue, t1 \in Residue, i \in Nat] ==
          LET mid == mod_sub(mod_mul(t, t1, m), b, m)
              double(x) == mod_sub(mod_sqr(x, m), two(m), m)
          IN  IF i = 0 THEN t
              ELSE IF (e \div 2^(i - 1)) % 2 = 1 THEN loop[mid, double(t1), i - 1]
              ELSE loop[double(t), mid, i - 1]
    IN  IF e = 0 THEN two(m)
        ELSE loop[b, mod_sub(mod_sqr(b, m), two(m), m), TopBit(e)]

mod_V_mp(b, e, m) ==
    IF e = << >> \/ e[Len(e)] = 0 THEN two(m) ELSE mod_V_ul(b, MpVal(e), m)

(* -1 among r1, r1^2, ..., r1^(2^(po2-1)), or r1 = 1. *)
find_minus1(r1, minusone, po2, m) ==
    LET loop[r \in Residue, i \in Nat] ==
          LET s == mod_sqr(r, m) IN i < po2 /\ (s = minusone \/ loop[s, i + 1])
    IN  r1 \in {mod_set1(m), minusone} \/ loop[r1, 1]

(* n = 2^TwoPart(n) * OddPart(n). *)
TwoPart(n) == CHOOSE i \in 0 .. 2 * LONG_BIT : n % 2^i = 0 /\ (n \div 2^i) % 2 = 1
OddPart(n) == n \div 2^TwoPart(n)

mod_sprp(b, m) ==
    LET n == mod_getmod(m)
    IN  IF n <= 3 THEN n >= 2
        ELSE IF n % 2 = 0 THEN FALSE
        ELSE find_minus1(mod_pow_ul(b, OddPart(n - 1), m), mod_neg(mod_set1(m), m),
                         TwoPart(n - 1), m)

(* One squaring less when 2 is a square modulo m. *)
mod_sprp2(m) ==
    LET n == mod_getmod(m)
        po2 == TwoPart(n - 1) - (IF n % 8 \in {1, 7} THEN 1 ELSE 0)
    IN  IF n <= 3 THEN n >= 2
        ELSE IF n % 2 = 0 THEN FALSE
        ELSE find_minus1(mod_2pow_ul(OddPart(n - 1), m), mod_neg(mod_set1(m), m), po2, m)

(* Strong pseudoprime tests in a few bases, with the exceptions below 2^31.    *)
\* A base is built from 1 by additions, here by repeated addition.
Small(b, m) ==
    LET add[t \in Residue, i \in Nat] ==
          IF i = 1 THEN t ELSE add[mod_add(t, mod_set1(m), m), i - 1]
    IN  add[mod_set1(m), b]
Passes(b, n, m) ==
    find_minus1(mod_pow_ul(Small(b, m), OddPart(n - 1), m), mod_neg(mod_set1(m), m),
                TwoPart(n - 1), m)
mod_isprime(m) ==
    LET n == mod_getmod(m)
        r1 == mod_2pow_ul(OddPart(n - 1), m)
        base2 == IF n % 8 = 7 THEN r1 = mod_set1(m)
                 ELSE find_minus1(r1, mod_neg(mod_set1(m), m),
                                  TwoPart(n - 1) - (IF n % 8 = 1 THEN 1 ELSE 0), m)
    IN  CASE n = 1 -> FALSE
          [] n # 1 /\ n % 2 = 0 -> n = 2
          [] OTHER ->
               /\ base2
               /\ \/ n < 2047
                  \/ /\ n % 3 = 1
                     /\ Passes(7, n, m)
                     /\ IF n < 2269093 THEN n # 314821 ELSE Passes(61, n, m)
                  \/ /\ n % 3 # 1
                     /\ find_minus1(mod_3pow_ul(OddPart(n - 1), m),
                                    mod_neg(mod_set1(m), m), TwoPart(n - 1), m)
                     /\ \/ (n < 102690677 /\ n \notin {5173601, 16070429, 54029741})
                        \/ Passes(5, n, m)

(* Euclid on the stored residue: 2^w is invertible, so Montgomery form does    *)
(* not change the gcd.                                                         *)
mod_gcd(r, m) ==
    LET gcd[p \in Nat \X Nat] == IF p[1] = 0 THEN p[2] ELSE gcd[<<p[2] % p[1], p[1]>>]
    IN  gcd[<<r % mod_getmod(m), mod_getmod(m)>>]

(* Jacobi symbol by reciprocity. *)
mod_jacobi(a, m) ==
    LET jac[s \in Nat \X Nat \X {-1, 1}] ==
          LET x == s[1] n == s[2]
              y == OddPart(x)
              two2 == IF TwoPart(x) % 2 = 1 /\ n % 8 \in {3, 5} THEN -1 ELSE 1
              rec == IF n % 4 = 3 /\ y % 4 = 3 THEN -1 ELSE 1
          IN  IF x = 0 THEN (IF n # 1 THEN 0 ELSE s[3])
              ELSE jac[<<n % y, y, s[3] * two2 * rec>>]
    IN  jac[<<mod_get(a, m), mod_getmod(m), 1>>]

(* Division of a one-word residue by 3, 5, 7, 11 or 13: k m is added so that n *)
(* divides the sum, which may wrap, and the quotient is taken modulo W.        *)
SmallDivide(a, n, m) ==
    LET ml == mod_getmod(m)
        negInv == CHOOSE j \in 1 .. n - 1 : (j * (ml % n)) % n = n - 1
        k == ((a % n) * negInv) % n
        c == CHOOSE x \in 0 .. W - 1 : (x * n) % W = 1
    IN  IF ml % n = 0 THEN [ok |-> 0, r |-> a]
        ELSE [ok |-> 1, r |-> (((a + k * ml) % W) * c) % W]
mod_div3(a, m) ==
    LET ml == mod_getmod(m)
        c == CHOOSE x \in 0 .. W - 1 : (x * 3) % W = 1
        k == IF a % 3 = 0 THEN 0 ELSE IF (a % 3) + (ml % 3) = 3 THEN 1 ELSE 2
    IN  IF ml % 3 = 0 THEN [ok |-> 0, r |-> a]
        ELSE [ok |-> 1, r |-> (((a + k * ml) % W) * c) % W]
mod_div5(a, m) == SmallDivide(a, 5, m)
mod_div7(a, m) == SmallDivide(a, 7, m)
mod_div11(a, m) == SmallDivide(a, 11, m)
mod_div13(a, m) == SmallDivide(a, 13, m)
====
