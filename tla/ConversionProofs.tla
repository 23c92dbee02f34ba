--------------------------- MODULE ConversionProofs ---------------------------
(***************************************************************************)
(* Into and out of the modular arithmetics, for every word width and every *)
(* modulus: the REDC variants whose operand may exceed the modulus or      *)
(* whose result may reach it, and all conversions of the four arithmetics. *)
(*                                                                         *)
(* What REDC is meant to return is the one reduced number whose product    *)
(* with the word size is the operand modulo n; how far a result may exceed *)
(* it follows from the quotient of two words by the word size.  The        *)
(* conversions with two words rest on two more facts: 2w modular doublings *)
(* multiply by the radix, and the quotient word that intmod estimates from *)
(* the top word of the divisor is exact or one too large.                  *)
(***************************************************************************)
EXTENDS ArithProofs, WellFoundedInduction

(* REDC of one word outside the ring operations: results that may reach     *)
(* the modulus, and operands that may exceed it.                            *)

\* The value REDC is meant to return: v over the word size, modulo n.
RedcOf(v, n) == CHOOSE r \in 0 .. n - 1 : (r * W - v) % n = 0

\* The reduced number congruent to v over the word size is the only one.
LEMMA RedcOfIs ==
    ASSUME Width, NEW n \in ModuliOf("redcul"), NEW v \in Int, NEW r \in 0 .. n - 1,
           Cong(r * W, v, n)
    PROVE  RedcOf(v, n) = r
<1>1. "redcul" \in Kinds /\ Radix("redcul") = W
  BY KindIs DEF Kinds
<1>2. n \in Nat /\ n > 0 /\ n \in Int /\ W \in Nat /\ W \in Int /\ r \in Int /\ r * W \in Int
  <2>1. n \in Nat /\ n > 1 /\ W \in Nat
    BY <1>1, ModulusIs, WordSize
  <2> QED  BY <2>1, SMT
<1>3. PICK j \in Int : Cong(W * j, 1, n)
  BY <1>1, RadixUnit
<1>4. \A s \in 0 .. n - 1 : (s * W - v) % n = 0 <=> s = r
  <2> SUFFICES ASSUME NEW s \in 0 .. n - 1 PROVE (s * W - v) % n = 0 <=> s = r
    OBVIOUS
  <2>1. PICK d, sw, rw \in Int : sw = s * W /\ rw = r * W /\ d = sw - v
    BY <1>2, SMT
  <2>2. s \in Int /\ 0 \in Int /\ 0 \in 0 .. n - 1
    BY <1>2, SMT
  <2>3. Cong(rw, v, n)
    BY <2>1
  <2>4. ASSUME d % n = 0 PROVE s = r
    <3>1. Cong(d, d % n, n)
      BY <1>2, CongMod
    <3>2. PICK k \in Int : d = 0 + k * n
      BY <2>4, <3>1 DEF Cong
    <3>3. sw = v + k * n
      <4>1. PICK kn \in Int : kn = k * n
        BY <1>2, SMT
      <4>2. sw - v = 0 + kn
        BY <2>1, <3>2, <4>1
      <4>3. sw = v + kn
        BY <4>2, SMT
      <4> QED  BY <4>1, <4>3
    <3>4. Cong(sw, v, n) /\ Cong(v, rw, n)
      BY <3>3, <2>3, <1>2, CongSym DEF Cong
    <3>5. Cong(s * W, r * W, n)
      BY <3>4, <2>1, <1>2, CongTrans
    <3>6. Cong(s, r, n)
      BY <3>5, <2>2, <1>2, <1>3, CongCancel
    <3> QED  BY <3>6, <1>2, CongEqual
  <2>5. ASSUME s = r PROVE d % n = 0
    <3>1. PICK k \in Int : rw = v + k * n
      BY <2>3 DEF Cong
    <3>2. d = 0 + k * n
      <4>1. PICK kn \in Int : kn = k * n
        BY <1>2, SMT
      <4>2. sw = v + kn
        BY <2>1, <2>5, <3>1, <4>1
      <4>3. sw - v = 0 + kn
        BY <4>2, SMT
      <4> QED  BY <2>1, <4>1, <4>3
    <3>3. Cong(d, 0, n)
      BY <3>2 DEF Cong
    <3> QED  BY <3>3, <2>2, <1>2, ModIs
  <2> QED  BY <2>1, <2>4, <2>5
<1> QED  BY <1>4 DEF RedcOf

\* What a multiple of n with the opposite low word makes of a pair.
LEMMA RedcSum ==
    ASSUME Width, NEW n \in Word, NEW u \in Word, NEW p \in Pair, NEW q \in Pair,
           Val(q) = u * n, NEW c \in {0, 1}, p[1] + q[1] = W * c
    PROVE  /\ q[2] \in Nat /\ (n > 0 => q[2] < n)
           /\ W * (p[2] + q[2] + c) = Val(p) + u * n
<1>1. W \in Nat /\ W > 0 /\ n \in Nat /\ u \in Nat /\ u < W /\ c \in Int
  <2>1. W \in Nat /\ W >= 16 /\ n \in Nat /\ u \in Nat /\ u < W /\ c \in Int
    BY WordSize, WordInt
  <2> QED  BY <2>1, SMT
<1>2. /\ p[1] \in Nat /\ p[2] \in Nat /\ Val(p) = p[1] + W * p[2]
      /\ q[1] \in Nat /\ q[2] \in Nat /\ Val(q) = q[1] + W * q[2]
  BY ValRange
<1>3. PICK p1, p2, q1, q2 \in Nat : p1 = p[1] /\ p2 = p[2] /\ q1 = q[1] /\ q2 = q[2]
  BY <1>2
<1>4. p1 + q1 = W * c /\ u * n = q1 + W * q2
  BY <1>2, <1>3
<1>5. ASSUME n > 0 PROVE q2 < n
  <2>1. u * n <= (W - 1) * n /\ (W - 1) * n = W * n - n
    BY <1>1, SMT
  <2>2. PICK x, y, z \in Int : x = u * n /\ y = W * n /\ z = W * q2
    BY <1>1, SMT
  <2>3. x <= y - n /\ x = q1 + z
    BY <2>1, <2>2, <1>4
  <2>4. z < y
    BY <2>3, <1>1, <1>5, SMT
  <2>5. W * q2 < W * n /\ q2 \in Int /\ n \in Int
    BY <2>2, <2>4, <1>1, SMT
  <2> QED  BY <2>5, <1>1, CancelFactor
<1>6. W * (p2 + q2 + c) = (p1 + W * p2) + u * n
  <2>1. p1 \in Int /\ p2 \in Int /\ q1 \in Int /\ q2 \in Int /\ u * n \in Int
    BY <1>1, SMT
  <2> QED  BY <2>1, <1>1, <1>4, RedcStep
<1> QED  BY <1>2, <1>3, <1>5, <1>6

\* One REDC step on a pair: the quotient by W before it is reduced.
LEMMA RedcTop ==
    ASSUME Width, NEW n \in Word, NEW i \in Word, Cong(n * i, -1, W), NEW p \in Pair,
           NEW q, q = ularith_mul_ul_ul_2ul((p[1] * i) % W, n),
           NEW c, c = B(p[1] # 0)
    PROVE  /\ q[2] \in Nat /\ c \in {0, 1} /\ (n > 0 => q[2] < n)
           /\ \E u \in Nat : u < W /\ W * (p[2] + q[2] + c) = Val(p) + u * n
<1>1. p[1] \in Word
  BY ValRange
<1>2. PICK u : u = (p[1] * i) % W
  OBVIOUS
<1>3. q = ularith_mul_ul_ul_2ul(u, n)
  BY <1>2
<1>4. /\ u \in Word /\ q \in Pair /\ Val(q) = u * n
      /\ B(q[1] # 0) \in {0, 1} /\ B(p[1] # 0) = B(q[1] # 0)
      /\ p[1] + q[1] = W * B(q[1] # 0)
  BY <1>1, <1>2, <1>3, RedcWord
<1>5. c \in {0, 1} /\ p[1] + q[1] = W * c
  BY <1>4
<1>6. /\ q[2] \in Nat /\ (n > 0 => q[2] < n)
      /\ W * (p[2] + q[2] + c) = Val(p) + u * n
  BY <1>4, <1>5, RedcSum
<1>7. u \in Nat /\ u < W
  BY <1>4, WordInt
<1> QED  BY <1>5, <1>6, <1>7

\* The bound on such a quotient.
LEMMA TopBound ==
    ASSUME NEW w \in Nat, w > 0, NEW t \in Int, NEW v \in Int, NEW n \in Nat,
           NEW u \in Nat, u < w, w * t = v + u * n,
           NEW K \in Int, v + (w * n - n) < w * K
    PROVE  t < K
<1>1. u * n <= (w - 1) * n /\ (w - 1) * n = w * n - n
  BY SMT
<1>2. PICK a, b, c, d \in Int : a = w * t /\ b = u * n /\ c = w * n /\ d = w * K
  BY SMT
<1>3. a = v + b /\ b <= c - n /\ v + (c - n) < d
  BY <1>1, <1>2
<1>4. a < d
  BY <1>3, SMT
<1>5. w * t < w * K
  BY <1>2, <1>4
<1> QED  BY <1>5, CancelFactor

\* Its class, also after the modulus is subtracted.
LEMMA TopClass ==
    ASSUME NEW w \in Nat, NEW t \in Int, NEW v \in Int, NEW n \in Nat, NEW u \in Nat,
           w * t = v + u * n, NEW r \in Int, r = t \/ r = t - n
    PROVE  Cong(r * w, v, n)
<1>1. CASE r = t
  <2>1. t * w = w * t
    BY SMT
  <2>2. r * w = v + u * n /\ u \in Int
    BY <2>1, <1>1, SMT
  <2> QED  BY <2>2 DEF Cong
<1>2. CASE r = t - n
  <2>1. (t - n) * w = w * t + (-w) * n
    BY SMT
  <2>2. (t - n) * w = (v + u * n) + (-w) * n
    BY <2>1
  <2>3. (v + u * n) + (-w) * n = v + (u - w) * n
    <3>1. (u - w) * n = u * n + (-w) * n
      BY SMT
    <3>2. PICK x, y \in Int : x = u * n /\ y = (-w) * n
      BY SMT
    <3>3. (v + x) + y = v + (x + y)
      BY SMT
    <3> QED  BY <3>1, <3>2, <3>3
  <2>4. r * w = v + (u - w) * n /\ u - w \in Int
    <3>1. r * w = v + (u - w) * n
      BY <2>2, <2>3, <1>2
    <3> QED  BY <3>1, SMT
  <2> QED  BY <2>4 DEF Cong
<1> QED  BY <1>1, <1>2

\* The comparison decides as the carry would.
LEMMA CondSubRight ==
    ASSUME Width, NEW n \in Word, NEW h \in Nat, h <= n, NEW t \in Nat, t < n,
           NEW r, r = CondSub(h, t, n)
    PROVE  (r = h + t /\ h + t < n) \/ (r = h + t - n /\ h + t >= n)
<1>1. n \in Nat /\ n < W /\ W \in Nat
  BY WordSize, WordInt
<1>2. n - t \in Nat /\ n - t < W
  BY <1>1, SMT
<1>3. (n - t) % W = n - t
  BY <1>2, WordInt
<1>4. CASE h >= n - t
  <2>1. r = (h - (n - t)) % W
    BY <1>3, <1>4 DEF CondSub
  <2>2. h - (n - t) \in Nat /\ h - (n - t) < W
    BY <1>1, <1>4, SMT
  <2>3. r = h - (n - t)
    BY <2>1, <2>2, WordInt
  <2>4. h - (n - t) = h + t - n /\ h + t >= n
    BY <1>1, <1>4, SMT
  <2> QED  BY <2>3, <2>4
<1>5. CASE ~(h >= n - t)
  <2>1. r = (h + t) % W
    BY <1>3, <1>5 DEF CondSub
  <2>2. h + t \in Nat /\ h + t < W /\ h + t < n
    BY <1>1, <1>5, SMT
  <2>3. r = h + t
    BY <2>1, <2>2, WordInt
  <2> QED  BY <2>2, <2>3
<1> QED  BY <1>4, <1>5

\* modredcul_add with a reduced first operand and any word as second one.
LEMMA AddSemiRight ==
    ASSUME Width, NEW n \in Word, NEW m, m.m = n, NEW t \in Nat, t < n, NEW h \in Word,
           NEW r, r = modredcul_add_semi(t, h, m)
    PROVE  (r = h + t /\ h + t < n) \/ (r = h + t - n /\ h + t >= n)
<1>1. /\ W \in Nat /\ W >= 16 /\ n \in Nat /\ n < W /\ h \in Nat /\ h < W
  BY WordSize, WordInt
<1>2. (t - n) % W = t - n + W
  <2>1. t - n = (-1) * W + (t - n + W) /\ t - n + W \in 0 .. W - 1 /\ t - n \in Int /\ -1 \in Int
    BY <1>1, SMT
  <2> QED  BY <2>1, <1>1, DivIs
<1>3. PICK x \in Word : x = t - n + W /\ x = (t - m.m) % W
  <2>1. t - n + W \in Nat /\ t - n + W < W
    BY <1>1, SMT
  <2> QED  BY <2>1, <1>2, WordInt
<1>4. PICK s : s = AddC(x, h, 0)
  OBVIOUS
<1>5. s[1] \in Word /\ s[2] \in {0, 1} /\ x + h + 0 = s[1] + W * s[2]
  BY <1>4, AddCarry
<1>6. r = IF s[2] = 1 THEN s[1] ELSE (t + h) % W
  BY <1>3, <1>4 DEF modredcul_add_semi
<1>7. s[1] \in Nat /\ s[1] < W
  BY <1>5, WordInt
<1>8. CASE s[2] = 1
  <2>1. r = s[1]
    BY <1>6, <1>8
  <2>2. s[1] = h + t - n /\ h + t >= n
    BY <1>1, <1>3, <1>5, <1>7, <1>8, SMT
  <2> QED  BY <2>1, <2>2
<1>9. CASE s[2] = 0
  <2>1. r = (t + h) % W
    BY <1>6, <1>9
  <2>2. t + h < n /\ t + h \in Nat /\ t + h < W /\ h + t = t + h
    BY <1>1, <1>3, <1>5, <1>7, <1>9, SMT
  <2>3. (t + h) % W = t + h
    BY <2>2, WordInt
  <2> QED  BY <2>1, <2>2, <2>3
<1> QED  BY <1>5, <1>8, <1>9

\* What the proofs below use of a modulus of one word.
LEMMA OneModulus ==
    ASSUME Width, NEW n \in ModuliOf("redcul")
    PROVE  /\ n \in Word /\ n \in Nat /\ n \in Int /\ n > 1 /\ n > 0 /\ n < W /\ n % 2 = 1
           /\ W \in Nat /\ W \in Int /\ W >= 16 /\ W > 0 /\ W * n \in Nat
<1>1. "redcul" \in Kinds
  BY DEF Kinds
<1>2. n \in Word /\ n \in Nat /\ n > 1 /\ n % 2 = 1
  BY <1>1, ModulusIs, KindIs
<1>3. n < W /\ W \in Nat /\ W >= 16
  BY <1>2, WordSize, WordInt
<1>4. n \in Int /\ n > 0 /\ W \in Int /\ W > 0 /\ W * n \in Nat
  BY <1>2, <1>3, SMT
<1> QED  BY <1>2, <1>3, <1>4

\* One REDC step on a pair p: how large its result may be, by the value of p.
LEMMA PairRedc ==
    ASSUME Width, NEW n \in ModuliOf("redcul"), NEW i \in Word, Cong(n * i, -1, W),
           NEW p \in Pair, NEW q, q = ularith_mul_ul_ul_2ul((p[1] * i) % W, n),
           NEW c, c = B(p[1] # 0)
    PROVE  \E h, t \in Nat :
              /\ h = p[2] + c /\ t = q[2] /\ c \in {0, 1} /\ t < n
              /\ \A r \in Int : r = h + t \/ r = h + t - n => Cong(r * W, Val(p), n)
              /\ Val(p) < n => h + t < n
              /\ Val(p) < W + n => h + t <= n
              /\ Val(p) < W * n => h <= n /\ h + t < 2 * n
              /\ Val(p) < W * (n - 1) => h < n
<1>1. /\ n \in Word /\ n \in Nat /\ n \in Int /\ n > 1 /\ n > 0 /\ n < W
      /\ W \in Nat /\ W \in Int /\ W >= 16 /\ W > 0 /\ W * n \in Nat
  BY OneModulus
<1>2a. /\ q[2] \in Nat /\ c \in {0, 1} /\ (n > 0 => q[2] < n)
       /\ \E u \in Nat : u < W /\ W * (p[2] + q[2] + c) = Val(p) + u * n
  <2>1. n \in Word
    BY <1>1
  <2> QED  BY <2>1, RedcTop
<1>2. /\ q[2] \in Nat /\ c \in {0, 1} /\ q[2] < n
      /\ \E u \in Nat : u < W /\ W * (p[2] + q[2] + c) = Val(p) + u * n
  BY <1>1, <1>2a
<1>3. PICK u \in Nat : u < W /\ W * (p[2] + q[2] + c) = Val(p) + u * n
  BY <1>2
<1>4. p[2] \in Nat /\ Val(p) \in Nat /\ c \in Nat
  BY <1>2, ValRange, WordInt
<1>5. PICK h, t \in Nat : h = p[2] + c /\ t = q[2]
  BY <1>2, <1>4, SMT
<1>6. PICK T \in Nat : T = h + t
  BY SMT
<1>7. PICK v \in Nat : v = Val(p)
  BY <1>4
<1>8. p[2] + q[2] + c = T
  <2>1. PICK p2, q2 \in Nat : p2 = p[2] /\ q2 = q[2]
    BY <1>2, <1>4
  <2>2. h = p2 + c /\ t = q2
    BY <2>1, <1>5
  <2>3. p2 + q2 + c = T
    BY <2>2, <1>4, <1>6, SMT
  <2> QED  BY <2>1, <2>3
<1>9. W * T = v + u * n
  BY <1>3, <1>7, <1>8
<1>10. T \in Int /\ v \in Int
  BY SMT
<1>11. ASSUME NEW r \in Int, r = h + t \/ r = h + t - n PROVE Cong(r * W, Val(p), n)
  <2>1. r = T \/ r = T - n
    <3>1. h + t - n = T - n
      BY <1>1, <1>6, SMT
    <3>2. CASE r = h + t
      BY <3>2, <1>6
    <3>3. CASE r = h + t - n
      BY <3>1, <3>3
    <3> QED  BY <3>2, <3>3, <1>11
  <2>2. Cong(r * W, v, n)
    BY <2>1, <1>1, <1>9, <1>10, TopClass
  <2> QED  BY <2>2, <1>7
<1>12. PICK wn \in Nat : wn = W * n
  BY <1>1
<1>13. /\ W * n = wn /\ W * (n + 1) = wn + W /\ W * (2 * n) = wn + wn
       /\ n + 1 \in Int /\ 2 * n \in Int
  <2>1. /\ W * (n + 1) = W * n + W /\ W * (2 * n) = W * n + W * n
        /\ n + 1 \in Int /\ 2 * n \in Int
    BY <1>1, SMT
  <2> QED  BY <2>1, <1>12
<1>14. ASSUME v < n PROVE T < n
  <2>1. v + (wn - n) < wn
    BY <1>1, <1>14, SMT
  <2>2. v + (W * n - n) < W * n
    BY <2>1, <1>12
  <2> QED  BY <2>2, <1>1, <1>3, <1>9, <1>10, TopBound
<1>15. ASSUME v < W + n PROVE T <= n
  <2>1. v + (wn - n) < wn + W
    BY <1>1, <1>15, SMT
  <2>2. v + (W * n - n) < W * (n + 1)
    BY <2>1, <1>12, <1>13
  <2>3. T < n + 1
    BY <2>2, <1>1, <1>3, <1>9, <1>10, <1>13, TopBound
  <2> QED  BY <2>3, <1>1, SMT
<1>16. ASSUME v < W * n PROVE h <= n /\ T < 2 * n
  <2>1. v + (wn - n) < wn + wn
    BY <1>1, <1>12, <1>16, SMT
  <2>2. v + (W * n - n) < W * (2 * n)
    BY <2>1, <1>12, <1>13
  <2>3. T < 2 * n
    BY <2>2, <1>1, <1>3, <1>9, <1>10, <1>13, TopBound
  <2>4. Val(p) < wn /\ wn <= W * n
    <3>1. wn <= wn
      BY SMT
    <3> QED  BY <3>1, <1>7, <1>12, <1>16
  <2>5. p[2] < n
    BY <2>4, <1>1, HighWord
  <2>6. PICK p2 \in Nat : p2 = p[2]
    BY <1>4
  <2>7. h = p2 + c /\ p2 < n
    BY <2>5, <2>6, <1>5
  <2>8. h <= n
    BY <2>7, <1>1, <1>2, SMT
  <2> QED  BY <2>3, <2>8
<1>17. ASSUME v < W * (n - 1) PROVE h < n
  <2>1. PICK g, m \in Nat : g = n - 1 /\ m = W * g
    BY <1>1, SMT
  <2>2. Val(p) < m /\ m <= W * g
    <3>1. m <= m
      BY SMT
    <3> QED  BY <2>1, <3>1, <1>7, <1>17
  <2>3. p[2] < g
    BY <2>1, <2>2, HighWord
  <2>4. PICK p2 \in Nat : p2 = p[2]
    BY <1>4
  <2>5. h = p2 + c /\ p2 < n - 1
    BY <2>1, <2>3, <2>4, <1>5
  <2> QED  BY <2>5, <1>1, <1>2, SMT
<1>18. /\ h = p[2] + c /\ t = q[2] /\ c \in {0, 1} /\ t < n
  BY <1>2, <1>5
<1>19. /\ Val(p) < n => h + t < n
       /\ Val(p) < W + n => h + t <= n
       /\ Val(p) < W * n => h <= n /\ h + t < 2 * n
       /\ Val(p) < W * (n - 1) => h < n
  BY <1>6, <1>7, <1>14, <1>15, <1>16, <1>17
<1> QED  BY <1>11, <1>18, <1>19

\* Leaving Montgomery form.
LEMMA WordRedc ==
    ASSUME Width, NEW n \in ModuliOf("redcul"), NEW i \in Word, Cong(n * i, -1, W),
           NEW a \in Word,
           NEW r, r = (ularith_mul_ul_ul_2ul((a * i) % W, n)[2] + B(a # 0)) % W
    PROVE  r \in 0 .. n /\ Cong(r * W, a, n) /\ (a < n => r \in 0 .. n - 1)
<1>1. n \in Nat /\ n < W /\ W \in Nat /\ W > 0
  BY OneModulus
<1>2. PICK p : p = <<a, 0>>
  OBVIOUS
<1>3. 0 \in Word /\ a \in Nat /\ a < W
  BY <1>1, WordInt
<1>4. p \in Pair /\ Val(p) = a + W * 0 /\ p[1] = a /\ p[2] = 0
  BY <1>2, <1>3, PairIs
<1>5. a + W * 0 = a
  BY <1>1, <1>3, SMT
<1>6. PICK q, c : q = ularith_mul_ul_ul_2ul((p[1] * i) % W, n) /\ c = B(p[1] # 0)
  OBVIOUS
<1>7. PICK h, t \in Nat :
         /\ h = p[2] + c /\ t = q[2] /\ c \in {0, 1}
         /\ \A x \in Int : x = h + t \/ x = h + t - n => Cong(x * W, Val(p), n)
         /\ Val(p) < n => h + t < n
         /\ Val(p) < W + n => h + t <= n
  BY <1>4, <1>6, PairRedc
<1>8. r = (t + c) % W
  BY <1>4, <1>6, <1>7
<1>9. h = c
  BY <1>4, <1>7, SMT
<1>10. Val(p) = a
  BY <1>4, <1>5
<1>11. h + t <= n /\ (a < n => h + t < n) /\ h + t \in Int
  <2>1. a < W + n
    BY <1>1, <1>3, SMT
  <2>2. h + t \in Int
    BY SMT
  <2> QED  BY <2>1, <2>2, <1>7, <1>10
<1>12. t + c = h + t /\ h + t \in Nat /\ h + t < W
  BY <1>1, <1>9, <1>11, SMT
<1>13. r = h + t
  BY <1>8, <1>12, WordInt
<1>14. Cong(r * W, a, n)
  BY <1>7, <1>10, <1>11, <1>13
<1>15. r \in 0 .. n /\ (a < n => r \in 0 .. n - 1)
  BY <1>1, <1>11, <1>13, SMT
<1> QED  BY <1>14, <1>15

\* The sum of a word and a reduced residue, before the modulus is replaced by 0.
LEMMA SumRedc ==
    ASSUME Width, NEW n \in ModuliOf("redcul"), NEW i \in Word, Cong(n * i, -1, W),
           NEW a \in 0 .. n - 1, NEW b \in Word, NEW s, s = AddC(b, a, 0),
           NEW q, q = ularith_mul_ul_ul_2ul((s[1] * i) % W, n)
    PROVE  \E r \in 0 .. n :
              /\ Cong(r * W, a + b, n)
              /\ (q[2] + s[2] + B(s[1] # 0)) % W = r
              /\ (q[2] + (B(s[1] # 0) + s[2])) % W = r
              /\ s[2] % W = s[2] /\ s[2] \in {0, 1}
<1>1. n \in Nat /\ n < W /\ W \in Nat /\ W > 0
  BY OneModulus
<1>2. a \in Nat /\ a < n /\ a \in Word
  BY <1>1, SMT DEF Word
<1>3. s[1] \in Word /\ s[2] \in {0, 1} /\ b + a + 0 = s[1] + W * s[2]
  <2>1. 0 \in {0, 1}
    OBVIOUS
  <2> QED  BY <2>1, <1>2, AddCarry
<1>4. b \in Nat /\ b < W /\ s[2] \in Word /\ s[2] \in Nat /\ s[2] < W /\ s[2] % W = s[2]
  BY <1>3, WordInt
<1>5. PICK p : p = <<s[1], s[2]>>
  OBVIOUS
<1>6. p \in Pair /\ Val(p) = s[1] + W * s[2] /\ p[1] = s[1] /\ p[2] = s[2]
  BY ZenonT(60), <1>3, <1>4, <1>5, PairIs
<1>7. b + a + 0 = a + b /\ a + b < W + n /\ a + b \in Int
  BY <1>1, <1>2, <1>4, SMT
<1>8. Val(p) = a + b
  BY <1>3, <1>6, <1>7
<1>9. PICK c : c = B(p[1] # 0)
  OBVIOUS
<1>10. q = ularith_mul_ul_ul_2ul((p[1] * i) % W, n)
  BY <1>6
<1>11. PICK h, t \in Nat :
         /\ h = p[2] + c /\ t = q[2] /\ c \in {0, 1}
         /\ \A x \in Int : x = h + t \/ x = h + t - n => Cong(x * W, Val(p), n)
         /\ Val(p) < W + n => h + t <= n
  BY <1>6, <1>9, <1>10, PairRedc
<1>12. PICK r \in Nat : r = h + t
  BY SMT
<1>13. r <= n
  BY <1>7, <1>8, <1>11, <1>12
<1>14. r \in 0 .. n /\ r < W /\ r % W = r /\ r \in Int
  <2>1. r \in 0 .. n /\ r < W /\ r \in Int
    BY <1>1, <1>13, SMT
  <2> QED  BY <2>1, WordInt
<1>15. Cong(r * W, a + b, n)
  BY <1>8, <1>11, <1>12, <1>14
<1>16. PICK s2 \in Nat : s2 = s[2] /\ h = s2 + c
  BY <1>4, <1>6, <1>11
<1>17. t + s2 + c = r /\ t + (c + s2) = r
  <2>1. c \in Nat
    BY <1>11, WordInt
  <2> QED  BY <2>1, <1>12, <1>16, SMT
<1>18. B(s[1] # 0) = c /\ q[2] = t
  BY <1>6, <1>9, <1>11
<1>19. q[2] + s[2] + B(s[1] # 0) = r /\ q[2] + (B(s[1] # 0) + s[2]) = r
  BY <1>16, <1>17, <1>18
<1> QED  BY <1>3, <1>4, <1>14, <1>15, <1>19

\* Numbers up to n whose remainder is the class REDC is meant to return.
LEMMA SemiValue ==
    ASSUME Width, NEW n \in ModuliOf("redcul"), NEW v \in Int, NEW r \in Nat,
           Cong(r * W, v, n)
    PROVE  /\ r % n = RedcOf(v, n)
           /\ r = n => RedcOf(v, n) = 0
           /\ r < n => RedcOf(v, n) = r
<1>1. n \in Nat /\ n > 0 /\ n \in Int /\ W \in Int
  BY OneModulus
<1>2. r \in Int
  BY SMT
<1>3. Cong(r % n, r, n) /\ r % n \in 0 .. n - 1
  BY <1>1, <1>2, CongMod
<1>4. PICK s \in 0 .. n - 1 : s = r % n
  BY <1>3
<1>5. s \in Int /\ s * W \in Int /\ r * W \in Int
  BY <1>1, <1>2, SMT
<1>6. Cong(s * W, r * W, n)
  BY <1>1, <1>2, <1>3, <1>4, <1>5, CongTimes
<1>7. Cong(s * W, v, n)
  BY <1>1, <1>5, <1>6, CongTrans
<1>8. RedcOf(v, n) = s
  BY <1>7, RedcOfIs
<1>9. r = n => s = 0
  <2>1. n % n = 0
    <3>1. n = 1 * n + 0 /\ 0 \in 0 .. n - 1 /\ 1 \in Int
      BY <1>1, SMT
    <3> QED  BY <3>1, <1>1, DivIs
  <2> QED  BY <2>1, <1>4
<1>10. r < n => s = r
  <2>1. ASSUME r < n PROVE r % n = r
    <3>1. r = 0 * n + r /\ r \in 0 .. n - 1 /\ 0 \in Int
      BY <2>1, <1>1, SMT
    <3> QED  BY <3>1, <1>1, <1>2, DivIs
  <2> QED  BY <2>1, <1>4
<1> QED  BY <1>4, <1>8, <1>9, <1>10

\* A product, or a product and a word, below W n is reduced by one comparison.
LEMMA CompareRedc ==
    ASSUME Width, NEW n \in ModuliOf("redcul"), NEW i \in Word, Cong(n * i, -1, W),
           NEW p \in Pair, Val(p) < W * n,
           NEW r, r = CondSub((p[2] + B(p[1] # 0)) % W,
                              ularith_mul_ul_ul_2ul((p[1] * i) % W, n)[2], n)
    PROVE  r = RedcOf(Val(p), n)
<1>1. n \in Word /\ n \in Nat /\ n < W /\ W \in Nat
  BY OneModulus
<1>2. PICK q, c : q = ularith_mul_ul_ul_2ul((p[1] * i) % W, n) /\ c = B(p[1] # 0)
  OBVIOUS
<1>3. PICK h, t \in Nat :
         /\ h = p[2] + c /\ t = q[2] /\ t < n
         /\ \A x \in Int : x = h + t \/ x = h + t - n => Cong(x * W, Val(p), n)
         /\ Val(p) < W * n => h <= n /\ h + t < 2 * n
  BY <1>2, PairRedc
<1>4. h <= n /\ h + t < 2 * n
  BY <1>3
<1>5. h < W
  BY <1>1, <1>4, SMT
<1>6. r = CondSub(h, t, n)
  <2>1. h % W = h
    BY <1>5, WordInt
  <2> QED  BY <2>1, <1>2, <1>3
<1>7. (r = h + t /\ h + t < n) \/ (r = h + t - n /\ h + t >= n)
  BY <1>1, <1>3, <1>4, <1>6, CondSubRight
<1>8. r \in 0 .. n - 1 /\ r \in Int
  BY <1>1, <1>4, <1>7, SMT
<1>9. Cong(r * W, Val(p), n)
  BY <1>3, <1>7, <1>8
<1>10. Val(p) \in Int
  <2>1. Val(p) \in Nat
    BY ValRange
  <2> QED  BY <2>1, SMT
<1> QED  BY <1>8, <1>9, <1>10, RedcOfIs

\* The product of a reduced residue and a word is below W n, by more than W
\* when both factors are reduced.
LEMMA ProductBelow ==
    ASSUME NEW w \in Nat, NEW n \in Nat, n < w, NEW a \in Nat, a < n, NEW b \in Nat, b < w
    PROVE  a * b \in Nat /\ a * b < w * n /\ (b < n /\ n > 1 => a * b < w * (n - 1))
<1>1. a * b \in Nat /\ a * b <= a * w /\ a * w <= (n - 1) * w /\ (n - 1) * w = w * n - w
  BY SMT
<1>2. PICK x, y, z \in Int : x = a * b /\ y = a * w /\ z = w * n
  BY SMT
<1>3. x <= y /\ y <= z - w /\ w > 0
  <2>1. x <= y /\ y <= z - w
    BY <1>1, <1>2
  <2>2. w > 0
    BY SMT
  <2> QED  BY <2>1, <2>2
<1>4. x < z
  BY <1>3, SMT
<1>5. ASSUME b < n, n > 1 PROVE a * b < w * (n - 1)
  <2>1. a * b <= (n - 1) * b /\ (n - 1) * b < (n - 1) * w
    <3>1. PICK g \in Nat : g = n - 1 /\ g > 0 /\ a <= g
      BY <1>5, SMT
    <3>2. a * b <= g * b
      BY <3>1, SMT
    <3>3. g * b < g * w
      <4>1. g * (b + 1) <= g * w /\ g * (b + 1) = g * b + g
        BY <3>1, SMT
      <4>2. PICK d, e \in Int : d = g * b /\ e = g * w
        BY <3>1, SMT
      <4>3. d + g <= e
        BY <4>1, <4>2
      <4> QED  BY <3>1, <4>2, <4>3, SMT
    <3> QED  BY <3>1, <3>2, <3>3
  <2>2. PICK d, e \in Int : d = (n - 1) * b /\ e = (n - 1) * w
    BY SMT
  <2>3. x <= d /\ d < e
    BY <2>1, <2>2, <1>2
  <2>4. x < e
    BY <2>3, SMT
  <2>5. (n - 1) * w = w * (n - 1)
    BY SMT
  <2> QED  BY <2>2, <2>4, <2>5, <1>2
<1> QED  BY <1>1, <1>2, <1>4, <1>5

\* modredcul_redc_semi: any high word but the last.
LEMMA SemiRedc ==
    ASSUME Width, NEW n \in ModuliOf("redcul"), NEW i \in Word, Cong(n * i, -1, W),
           NEW m, m.m = n, m.invm = i, NEW b \in Word, NEW g \in 0 .. W - 2,
           NEW r, r = modredcul_redc_semi(b, g, m)
    PROVE  r % n = RedcOf(b + W * g, n) /\ IF g < n THEN r <= n ELSE r <= g
<1>1. n \in Word /\ n \in Nat /\ n < W /\ n > 0 /\ W \in Nat /\ W >= 16
  BY OneModulus
<1>2. g \in Word /\ g \in Nat /\ g < W - 1
  BY <1>1, SMT DEF Word
<1>3. PICK p : p = <<b, g>>
  OBVIOUS
<1>4. p \in Pair /\ Val(p) = b + W * g /\ p[1] = b /\ p[2] = g
  BY <1>2, <1>3, PairIs
<1>5. PICK q, c : q = ularith_mul_ul_ul_2ul((p[1] * i) % W, n) /\ c = B(p[1] # 0)
  OBVIOUS
<1>6. PICK h, t \in Nat :
         /\ h = p[2] + c /\ t = q[2] /\ c \in {0, 1} /\ t < n
         /\ \A x \in Int : x = h + t \/ x = h + t - n => Cong(x * W, Val(p), n)
  BY <1>4, <1>5, PairRedc
<1>7. h = g + c
  BY <1>4, <1>6
<1>8. h < W /\ h <= g + 1
  BY <1>1, <1>2, <1>6, <1>7, SMT
<1>9. h \in Word /\ h % W = h
  BY <1>8, WordInt
<1>10. r = modredcul_add_semi(t, h, m)
  <2>1. r = modredcul_add_semi(q[2], (g + c) % W, m)
    BY <1>4, <1>5, Zenon DEF modredcul_redc_semi
  <2> QED  BY <2>1, <1>6, <1>7, <1>9
<1>11. (r = h + t /\ h + t < n) \/ (r = h + t - n /\ h + t >= n)
  BY <1>1, <1>6, <1>9, <1>10, AddSemiRight
<1>12. r \in Nat /\ r \in Int
  BY <1>1, <1>11, SMT
<1>13. Cong(r * W, Val(p), n)
  BY <1>6, <1>11, <1>12
<1>14. Val(p) \in Int
  <2>1. Val(p) \in Nat
    BY <1>4, ValRange
  <2> QED  BY <2>1, SMT
<1>15. r % n = RedcOf(Val(p), n)
  BY <1>12, <1>13, <1>14, SemiValue
<1>16. ASSUME g < n PROVE r <= n
  BY <1>1, <1>2, <1>6, <1>8, <1>11, <1>16, SMT
<1>17. ASSUME ~(g < n) PROVE r <= g
  BY <1>1, <1>2, <1>6, <1>7, <1>8, <1>11, <1>17, SMT
<1> QED  BY <1>4, <1>15, <1>16, <1>17

\* modul_mulredc: both factors reduced.
LEMMA MulRedc ==
    ASSUME Width, NEW n \in ModuliOf("redcul"), NEW i \in Word, Cong(n * i, -1, W),
           NEW a \in 0 .. n - 1, NEW b \in 0 .. n - 1
    PROVE  modul_mulredc(a, b, i, n) = RedcOf(a * b, n)
<1>1. n \in Word /\ n \in Nat /\ n < W /\ n > 1 /\ W \in Nat
  BY OneModulus
<1>2. a \in Nat /\ a < n /\ a \in Word /\ b \in Nat /\ b < n /\ b < W /\ b \in Word
  BY <1>1, SMT DEF Word
<1>3. a * b < W * (n - 1)
  BY <1>1, <1>2, ProductBelow
<1>4. PICK p : p = ularith_mul_ul_ul_2ul(a, b)
  OBVIOUS
<1>5. p \in Pair /\ Val(p) = a * b /\ a * b \in Nat
  BY <1>2, <1>4, MulWords
<1>6. PICK q, c : q = ularith_mul_ul_ul_2ul((p[1] * i) % W, n) /\ c = B(p[1] # 0)
  OBVIOUS
<1>7. PICK h, t \in Nat :
         /\ h = p[2] + c /\ t = q[2] /\ t < n
         /\ \A x \in Int : x = h + t \/ x = h + t - n => Cong(x * W, Val(p), n)
         /\ Val(p) < W * (n - 1) => h < n
  BY <1>5, <1>6, PairRedc
<1>8. h < n
  BY <1>3, <1>5, <1>7
<1>9. h \in 0 .. n - 1 /\ t \in 0 .. n - 1 /\ h < W
  <2>1. t < n
    BY <1>7
  <2> QED  BY <2>1, <1>1, <1>8, SMT
<1>10. PICK r : r = modul_mulredc(a, b, i, n)
  OBVIOUS
<1>11. r = modul_add(h, t, n)
  <2>1. r = modul_add((p[2] + c) % W, q[2], n)
    BY <1>4, <1>6, <1>10, Zenon DEF modul_mulredc
  <2>2. h % W = h
    BY <1>9, WordInt
  <2> QED  BY <2>1, <2>2, <1>7
<1>12. r \in 0 .. n - 1 /\ (r = h + t \/ r = (h + t) - n)
  BY <1>1, <1>9, <1>11, ModulAdd
<1>13. r \in Int /\ (r = h + t \/ r = h + t - n)
  <2>1. (h + t) - n = h + t - n
    BY <1>1, SMT
  <2>2. r \in Int
    BY <1>1, <1>12, SMT
  <2> QED  BY <2>1, <2>2, <1>12
<1>14. Cong(r * W, a * b, n)
  BY <1>5, <1>7, <1>13
<1>15. a * b \in Int
  BY <1>5, SMT
<1> QED  BY <1>10, <1>12, <1>14, <1>15, RedcOfIs

\* The REDC variants of mod_ul.h and modredc_ul.h are right for every word size,
\* every odd modulus from 3, every reduced residue a and every word as second
\* operand: mulredc, mulredc_ul, muladdredc_ul, addredc_ul and frommontgomery
\* return the reduced result, addredcsemi_ul and redcsemi_ul_not0 return it or the
\* modulus in place of 0, and redc_semi stays within the bound its comment states.
THEOREM SemiRight ==
    ASSUME Width, NEW n \in ModuliOf("redcul"), NEW a \in 0 .. n - 1
    PROVE  SemiOk(n, a)
<1>1. n \in Word /\ n \in Nat /\ n \in Int /\ n > 1 /\ n > 0 /\ n < W /\ W \in Nat /\ W >= 16
  BY OneModulus
<1>2. a \in Nat /\ a \in Int /\ a < n /\ a < W /\ a \in Word
  BY <1>1, SMT DEF Word
<1>3. PICK m : m = modredcul_initmod_ul(n)
  OBVIOUS
<1>4. m.m = n /\ m.invm \in Word /\ Cong(n * m.invm, -1, W)
  <2>1. m = initmod("redcul", n)
    BY <1>3 DEF initmod
  <2> QED  BY <2>1, OneWordModulus
<1>5. PICK i \in Word : i = m.invm /\ Cong(n * i, -1, W)
  BY <1>4
<1>6. modul_tomontgomery(a, n) = (a * W) % n
  <2>1. PICK p : p = <<0, a>>
    OBVIOUS
  <2>2. 0 \in Word
    BY <1>1, WordInt
  <2>3. Val(p) = 0 + W * a
    BY <2>1, <2>2, <1>2, PairIs
  <2>4. 0 + W * a = a * W
    BY <1>1, <1>2, SMT
  <2>5. modul_tomontgomery(a, n) = Val(p) % n
    BY <2>1, Zenon DEF modul_tomontgomery, ularith_div_2ul_ul_ul_r
  <2> QED  BY <2>3, <2>4, <2>5
<1>7. PICK f : f = (ularith_mul_ul_ul_2ul((a * i) % W, n)[2] + B(a # 0)) % W
  OBVIOUS
<1>8. f \in 0 .. n /\ Cong(f * W, a, n) /\ f \in 0 .. n - 1
  BY <1>2, <1>5, <1>7, WordRedc
<1>9. modul_frommontgomery(a, i, n) = RedcOf(a, n)
  <2>1. PICK s : s = ularith_mul_ul_ul_2ul(a, i)
    OBVIOUS
  <2>2. s[1] = (a * i) % W
    BY <2>1 DEF ularith_mul_ul_ul_2ul, OfVal
  <2>3. modul_frommontgomery(a, i, n) = f
    BY <2>1, <2>2, <1>7, Zenon DEF modul_frommontgomery
  <2> QED  BY <2>3, <1>2, <1>8, RedcOfIs
<1>10. ASSUME a # 0
       PROVE  /\ modul_redcsemi_ul_not0(a, i, n) \in 0 .. n
              /\ modul_redcsemi_ul_not0(a, i, n) % n = RedcOf(a, n)
  <2>1. B(a # 0) = 1
    BY <1>10 DEF B
  <2>2. modul_redcsemi_ul_not0(a, i, n) = f
    BY <2>1, <1>7, Zenon DEF modul_redcsemi_ul_not0
  <2>3. f \in Nat
    BY <1>1, <1>8, SMT
  <2>4. f % n = RedcOf(a, n)
    BY <2>3, <1>2, <1>8, SemiValue
  <2> QED  BY <2>2, <2>4, <1>8
<1>11. ASSUME NEW b \in Word
       PROVE  /\ modul_addredc_ul(a, b, i, n) = RedcOf(a + b, n)
              /\ modul_addredcsemi_ul(a, b, i, n) \in 0 .. n
              /\ modul_addredcsemi_ul(a, b, i, n) % n = RedcOf(a + b, n)
  <2>1. PICK s : s = AddC(b, a, 0)
    OBVIOUS
  <2>2. PICK q : q = ularith_mul_ul_ul_2ul((s[1] * i) % W, n)
    OBVIOUS
  <2>3. PICK r \in 0 .. n :
           /\ Cong(r * W, a + b, n)
           /\ (q[2] + s[2] + B(s[1] # 0)) % W = r
           /\ (q[2] + (B(s[1] # 0) + s[2])) % W = r
           /\ s[2] % W = s[2] /\ s[2] \in {0, 1}
    BY <2>1, <2>2, <1>5, SumRedc
  <2>4. r \in Nat /\ a + b \in Int /\ (r = n \/ r < n)
    <3>1. b \in Nat
      BY WordInt
    <3> QED  BY <3>1, <1>1, <1>2, SMT
  <2>5. r % n = RedcOf(a + b, n) /\ (r = n => RedcOf(a + b, n) = 0) /\ (r < n => RedcOf(a + b, n) = r)
    BY <2>3, <2>4, SemiValue
  <2>6. PICK d : d = ularith_add_ul_2ul(<<b, 0>>, a)
    OBVIOUS
  <2>7. d[1] = s[1] /\ d[2] = s[2]
    <3>1. d = <<s[1], (0 + s[2]) % W>>
      BY <2>1, <2>6 DEF ularith_add_ul_2ul
    <3>2. 0 + s[2] = s[2]
      <4>1. s[2] = 0 \/ s[2] = 1
        BY <2>3
      <4>2. PICK z : z = s[2]
        OBVIOUS
      <4>3. 0 + z = z
        <5>1. z = 0 \/ z = 1
          BY <4>1, <4>2
        <5> QED  BY <5>1, SMT
      <4> QED  BY <4>2, <4>3
    <3>3. d = <<s[1], s[2]>>
      BY <3>1, <3>2, <2>3
    <3> QED  BY <3>3
  <2>8. modul_addredc_ul(a, b, i, n) = IF r = n THEN 0 ELSE r
    <3>1. modul_addredc_ul(a, b, i, n)
            = IF (ularith_mul_ul_ul_2ul((d[1] * i) % W, n)[2] + d[2] + B(d[1] # 0)) % W = n THEN 0
              ELSE (ularith_mul_ul_ul_2ul((d[1] * i) % W, n)[2] + d[2] + B(d[1] # 0)) % W
      BY <2>6, Zenon DEF modul_addredc_ul
    <3>2. (ularith_mul_ul_ul_2ul((d[1] * i) % W, n)[2] + d[2] + B(d[1] # 0)) % W = r
      BY <2>2, <2>3, <2>7
    <3> QED  BY <3>1, <3>2
  <2>9. modul_addredcsemi_ul(a, b, i, n) = r
    BY <2>1, <2>2, <2>3, Zenon DEF modul_addredcsemi_ul
  <2> QED  BY <2>4, <2>5, <2>8, <2>9
<1>12. ASSUME NEW b \in Word
       PROVE  modul_mulredc_ul(a, b, i, n) = RedcOf(a * b, n)
  <2>1. PICK p : p = ularith_mul_ul_ul_2ul(a, b)
    OBVIOUS
  <2>2. p \in Pair /\ Val(p) = a * b
    BY <2>1, <1>2, MulWords
  <2>3. Val(p) < W * n
    <3>1. b \in Nat /\ b < W
      BY WordInt
    <3>2. a * b < W * n
      BY <3>1, <1>1, <1>2, ProductBelow
    <3> QED  BY <3>2, <2>2
  <2>4. PICK r : r = CondSub((p[2] + B(p[1] # 0)) % W,
                             ularith_mul_ul_ul_2ul((p[1] * i) % W, n)[2], n)
    OBVIOUS
  <2>5. modul_mulredc_ul(a, b, i, n) = r
    BY <2>1, <2>4, Zenon DEF modul_mulredc_ul
  <2>6. r = RedcOf(Val(p), n)
    BY <2>2, <2>3, <2>4, <1>5, CompareRedc
  <2> QED  BY <2>2, <2>5, <2>6
<1>13. ASSUME NEW b \in Word, NEW c \in Word, a * b + c < W * n
       PROVE  modul_muladdredc_ul(a, b, c, i, n) = RedcOf(a * b + c, n)
  <2>1. PICK p0 : p0 = ularith_mul_ul_ul_2ul(a, b)
    OBVIOUS
  <2>2. p0 \in Pair /\ Val(p0) = a * b /\ a * b \in Nat
    BY <2>1, <1>2, MulWords
  <2>3. PICK x \in Nat : x = a * b
    BY <2>2
  <2>4. c \in Nat
    BY WordInt
  <2>5. W * n <= W * W
    BY <1>1, SMT
  <2>6. Val(p0) + c < W * W
    <3>1. PICK y, z \in Int : y = W * n /\ z = W * W
      BY <1>1, SMT
    <3>2. x + c < y /\ y <= z
      BY <2>3, <2>5, <3>1, <1>13
    <3>3. x + c < z
      BY <2>4, <3>2, SMT
    <3> QED  BY <3>1, <3>3, <2>2, <2>3
  <2>7. PICK p : p = ularith_add_ul_2ul(p0, c)
    OBVIOUS
  <2>8. p \in Pair /\ Val(p) = a * b + c
    <3>1. p \in Pair /\ Val(p) = Val(p0) + c
      BY <2>2, <2>6, <2>7, AddToPair
    <3> QED  BY <3>1, <2>2
  <2>9. PICK r : r = CondSub((p[2] + B(p[1] # 0)) % W,
                             ularith_mul_ul_ul_2ul((p[1] * i) % W, n)[2], n)
    OBVIOUS
  <2>10. modul_muladdredc_ul(a, b, c, i, n) = r
    BY <2>1, <2>7, <2>9, Zenon DEF modul_muladdredc_ul
  <2>11. Val(p) < W * n
    BY <2>8, <1>13
  <2>12. r = RedcOf(Val(p), n)
    BY <2>8, <2>9, <2>11, <1>5, CompareRedc
  <2> QED  BY <2>8, <2>10, <2>12
<1>14. ASSUME NEW b \in Word, NEW p \in 0 .. W - 2, NEW r, r = modredcul_redc_semi(b, p, m)
       PROVE  r % n = RedcOf(b + W * p, n) /\ IF p < n THEN r <= n ELSE r <= p
  BY <1>4, <1>5, <1>14, SemiRedc
<1>15. ASSUME NEW b \in 0 .. n - 1 PROVE modul_mulredc(a, b, i, n) = RedcOf(a * b, n)
  BY <1>5, MulRedc
<1>16. \A b \in Word :
          /\ modul_addredc_ul(a, b, m.invm, n) = RedcOf(a + b, n)
          /\ modul_addredcsemi_ul(a, b, m.invm, n) \in 0 .. n
          /\ modul_addredcsemi_ul(a, b, m.invm, n) % n = RedcOf(a + b, n)
          /\ modul_mulredc_ul(a, b, m.invm, n) = RedcOf(a * b, n)
          /\ \A c \in Word : a * b + c < W * n =>
               modul_muladdredc_ul(a, b, c, m.invm, n) = RedcOf(a * b + c, n)
  BY <1>5, <1>11, <1>12, <1>13
<1>17. \A b \in Word : \A p \in 0 .. W - 2 :
          /\ modredcul_redc_semi(b, p, m) % n = RedcOf(b + W * p, n)
          /\ IF p < n THEN modredcul_redc_semi(b, p, m) <= n ELSE modredcul_redc_semi(b, p, m) <= p
  BY <1>14
<1>18. /\ modul_frommontgomery(a, m.invm, n) = RedcOf(a, n)
       /\ a # 0 => modul_redcsemi_ul_not0(a, m.invm, n) \in 0 .. n
       /\ a # 0 => modul_redcsemi_ul_not0(a, m.invm, n) % n = RedcOf(a, n)
       /\ \A b \in 0 .. n - 1 : modul_mulredc(a, b, m.invm, n) = RedcOf(a * b, n)
  BY <1>5, <1>9, <1>10, <1>15
<1> QED  BY <1>3, <1>6, <1>16, <1>17, <1>18, ZenonT(60) DEF SemiOk, RedcOf

-----------------------------------------------------------------------------
(* Conversions from and to the arithmetics of one word.                     *)

\* A number is congruent to itself.
LEMMA CongSelf ==
    ASSUME NEW a \in Int, NEW m \in Int
    PROVE  Cong(a, a, m)
<1>1. a = a + 0 * m /\ 0 \in Int
  BY SMT
<1> QED  BY <1>1 DEF Cong

\* What stands for x in one word.
LEMMA OneStands ==
    ASSUME Width, NEW n, NEW r \in 0 .. n - 1, NEW x \in Int
    PROVE  /\ n \in ModuliOf("ul") /\ Cong(r, x, n) => Stands("ul", r, x, n)
           /\ n \in ModuliOf("redcul") /\ Cong(r, x * W, n) => Stands("redcul", r, x, n)
<1>1. "ul" \in Kinds /\ "redcul" \in Kinds
  BY DEF Kinds
<1>2. /\ "ul" \notin TwoWords /\ Radix("ul") = 1
      /\ "redcul" \notin TwoWords /\ Radix("redcul") = W
  BY <1>1, KindIs
<1>3. Stored("ul", r) = r /\ Stored("redcul", r) = r
  BY <1>2, StoredIs
<1>4. ASSUME n \in ModuliOf("ul") \/ n \in ModuliOf("redcul") PROVE r \in Int
  <2>1. n \in Nat
    BY <1>1, <1>4, ModulusIs
  <2> QED  BY <2>1, SMT
<1>5. x * 1 = x
  BY SMT
<1>6. ASSUME n \in ModuliOf("ul"), Cong(r, x, n) PROVE Stands("ul", r, x, n)
  BY <1>2, <1>3, <1>4, <1>5, <1>6 DEF Stands, IsFormat
<1>7. ASSUME n \in ModuliOf("redcul"), Cong(r, x * W, n) PROVE Stands("redcul", r, x, n)
  BY <1>2, <1>3, <1>4, <1>7 DEF Stands, IsFormat
<1> QED  BY <1>6, <1>7

\* Entering Montgomery form.
LEMMA ToMontgomery ==
    ASSUME Width, NEW n \in ModuliOf("redcul"), NEW m, m.m = n,
           NEW s \in Word, NEW x \in Int, Cong(s, x, n)
    PROVE  Stands("redcul", modredcul_tomontgomery(s, m), x, n)
<1>1. n \in Nat /\ n \in Int /\ n > 0 /\ W \in Nat /\ W \in Int
  BY OneModulus
<1>2. 0 \in Word /\ s \in Int
  <2>1. 0 < W
    BY OneModulus
  <2> QED  BY <2>1, WordInt
<1>3. PICK p : p = <<0, s>>
  OBVIOUS
<1>4. Val(p) = 0 + W * s
  BY <1>2, <1>3, PairIs
<1>5. PICK v \in Int : v = s * W
  BY <1>1, <1>2, SMT
<1>6. 0 + W * s = v
  BY <1>1, <1>2, <1>5, SMT
<1>7. PICK r : r = modredcul_tomontgomery(s, m)
  OBVIOUS
<1>8. r = v % n
  <2>1. r = Val(p) % n
    BY <1>3, <1>7, Zenon DEF modredcul_tomontgomery, ularith_div_2ul_ul_ul_r
  <2> QED  BY <2>1, <1>4, <1>6
<1>9. Cong(r, v, n) /\ r \in 0 .. n - 1
  BY <1>1, <1>8, CongMod
<1>10. r \in Int /\ x * W \in Int
  BY <1>1, <1>9, SMT
<1>11. Cong(v, x * W, n)
  BY <1>1, <1>2, <1>5, CongTimes
<1>12. Cong(r, x * W, n)
  BY <1>1, <1>9, <1>10, <1>11, CongTrans
<1> QED  BY <1>7, <1>9, <1>12, OneStands

\* The field one of a modulus is the Montgomery form of 1.
LEMMA OneIs ==
    ASSUME Width, NEW n \in ModuliOf("redcul"), NEW m, m = initmod("redcul", n)
    PROVE  Stands("redcul", m.one, 1, n) /\ m.one \in 0 .. n - 1 /\ Cong(m.one, 1 * W, n)
<1>1. n # 1 /\ n \in Int /\ W \in Int /\ n \in Nat
  <2>1. n > 1 /\ n \in Nat /\ n \in Int /\ W \in Int
    BY OneModulus
  <2> QED  BY <2>1, SMT
<1>2. PICK d : d = [m |-> n]
  OBVIOUS
<1>3. d.m = n
  BY <1>2
<1>4. m.one = modredcul_tomontgomery(1, d)
  <2>1. m = modredcul_initmod_ul(n)
    BY DEF initmod
  <2>2. m.one = IF n = 1 THEN 0 ELSE modredcul_tomontgomery(1, [m |-> n])
    BY <2>1 DEF modredcul_initmod_ul
  <2> QED  BY <2>2, <1>1, <1>2
<1>5. 1 \in Word /\ 1 \in Int
  BY WordInt
<1>6. Cong(1, 1, n)
  BY <1>1, <1>5, CongSelf
<1>7. Stands("redcul", m.one, 1, n)
  BY <1>3, <1>4, <1>5, <1>6, ToMontgomery
<1>8. "redcul" \in Kinds /\ "redcul" \notin TwoWords /\ Radix("redcul") = W
  BY KindIs DEF Kinds
<1>9. Stored("redcul", m.one) = m.one
  BY <1>8, StoredIs
<1> QED  BY <1>7, <1>8, <1>9 DEF Stands

\* REDC of a double word below W (n - 1), before a reduction by modredcul_add.
LEMMA RedculRight ==
    ASSUME Width, NEW n \in ModuliOf("redcul"), NEW i \in Word, Cong(n * i, -1, W),
           NEW m, m.m = n, m.invm = i, NEW p \in Pair, Val(p) < W * (n - 1),
           NEW r, r = modredcul_redc(p[1], p[2], m)
    PROVE  r \in 0 .. n - 1 /\ Cong(r * W, Val(p), n)
<1>1. n \in Word /\ n \in Nat /\ n < W /\ W \in Nat
  BY OneModulus
<1>2. PICK q, c : q = ularith_mul_ul_ul_2ul((p[1] * i) % W, n) /\ c = B(p[1] # 0)
  OBVIOUS
<1>3. PICK h, t \in Nat :
         /\ h = p[2] + c /\ t = q[2] /\ t < n
         /\ \A x \in Int : x = h + t \/ x = h + t - n => Cong(x * W, Val(p), n)
         /\ Val(p) < W * (n - 1) => h < n
  BY <1>2, PairRedc
<1>4. h < n /\ t < n
  BY <1>3
<1>5. h \in 0 .. n - 1 /\ t \in 0 .. n - 1 /\ h < W
  BY <1>1, <1>4, SMT
<1>6. r = modul_add(h, t, n)
  <2>1. r = modredcul_add((p[2] + c) % W, q[2], m)
    BY <1>2, Zenon DEF modredcul_redc
  <2>2. h % W = h
    BY <1>5, WordInt
  <2>3. r = modredcul_add(h, t, m)
    BY <2>1, <2>2, <1>3
  <2> QED  BY <2>3, Zenon DEF modredcul_add, modul_add
<1>7. r \in 0 .. n - 1 /\ (r = h + t \/ r = (h + t) - n)
  BY <1>1, <1>5, <1>6, ModulAdd
<1>8. r \in Int /\ (r = h + t \/ r = h + t - n)
  <2>1. (h + t) - n = h + t - n
    BY <1>1, SMT
  <2>2. r \in Int
    BY <1>1, <1>7, SMT
  <2> QED  BY <2>1, <2>2, <1>7
<1> QED  BY <1>3, <1>7, <1>8

\* The product of a word and a reduced residue.
LEMMA ScaledBelow ==
    ASSUME NEW w \in Nat, NEW s \in Nat, s < w, NEW n \in Nat, n > 1, NEW o \in Nat, o < n
    PROVE  s * o < w * (n - 1)
<1>1. PICK g \in Nat : g = n - 1 /\ g > 0 /\ o <= g
  BY SMT
<1>2. s * o <= s * g
  BY <1>1, SMT
<1>3. (s + 1) * g <= w * g /\ (s + 1) * g = s * g + g
  BY <1>1, SMT
<1>4. PICK a, b, c \in Int : a = s * o /\ b = s * g /\ c = w * g
  BY <1>1, SMT
<1>5. a <= b /\ b + g <= c
  BY <1>2, <1>3, <1>4
<1>6. a < c
  BY <1>1, <1>5, SMT
<1> QED  BY <1>1, <1>4, <1>6

\* Any word, also one above the modulus, in Montgomery form.
LEMMA SetWord ==
    ASSUME Width, NEW n \in ModuliOf("redcul"), NEW m, m = initmod("redcul", n), NEW s \in Word
    PROVE  Stands("redcul", modredcul_set_ul(s, m), s, n)
<1>1. /\ n \in Word /\ n \in Nat /\ n \in Int /\ n > 1 /\ n > 0 /\ n < W
      /\ W \in Nat /\ W \in Int
  BY OneModulus
<1>2. PICK i \in Word : m.m = n /\ m.invm = i /\ Cong(n * i, -1, W)
  BY OneWordModulus
<1>3. PICK o \in 0 .. n - 1 : o = m.one /\ Cong(o, 1 * W, n)
  BY OneIs
<1>4. o \in Nat /\ o < n /\ o \in Word /\ o \in Int
  BY <1>1, SMT DEF Word
<1>5. s \in Nat /\ s \in Int /\ s < W
  BY WordInt
<1>6. PICK p : p = ularith_mul_ul_ul_2ul(s, o)
  OBVIOUS
<1>7. p \in Pair /\ Val(p) = s * o
  BY <1>4, <1>6, MulWords
<1>8. Val(p) < W * (n - 1)
  <2>1. s * o < W * (n - 1)
    BY <1>1, <1>4, <1>5, ScaledBelow
  <2> QED  BY <2>1, <1>7
<1>9. PICK r : r = modredcul_redc(p[1], p[2], m)
  OBVIOUS
<1>10. r \in 0 .. n - 1 /\ Cong(r * W, Val(p), n)
  BY <1>2, <1>7, <1>8, <1>9, RedculRight
<1>11. r \in Int /\ r \in Word /\ r * W \in Int /\ s * W \in Int /\ s * o \in Int /\ s * (1 * W) \in Int
  <2>1. r \in Nat /\ r < W
    BY <1>1, <1>10, SMT
  <2>2. r \in Word /\ r \in Int
    BY <2>1, WordInt
  <2>3. s * W \in Int /\ s * o \in Int /\ s * (1 * W) \in Int
    BY <1>1, <1>4, <1>5, SMT
  <2>4. r * W \in Int
    BY <2>2, <1>1, SMT
  <2> QED  BY <2>2, <2>3, <2>4
<1>12. Cong(r, s, n)
  <2>1. 1 * W \in Int /\ s * (1 * W) = s * W
    BY <1>1, <1>5, SMT
  <2>2. Cong(s * o, s * (1 * W), n)
    BY <2>1, <1>1, <1>3, <1>4, <1>5, CongTimes
  <2>3. Cong(r * W, s * o, n) /\ Cong(s * o, s * W, n)
    BY <2>1, <2>2, <1>7, <1>10
  <2>4. Cong(r * W, s * W, n)
    BY <2>3, <1>1, <1>11, CongTrans
  <2>5. "redcul" \in Kinds /\ Radix("redcul") = W
    BY KindIs DEF Kinds
  <2>6. PICK j \in Int : Cong(W * j, 1, n)
    BY <2>5, RadixUnit
  <2> QED  BY <2>4, <2>6, <1>1, <1>5, <1>11, CongCancel
<1>13. modredcul_set_ul(s, m) = modredcul_tomontgomery(r, m)
  BY <1>3, <1>6, <1>9, Zenon DEF modredcul_set_ul
<1>14. Stands("redcul", modredcul_tomontgomery(r, m), s, n)
  BY <1>2, <1>5, <1>11, <1>12, ToMontgomery
<1> QED  BY <1>13, <1>14

\* Leaving the arithmetics of one word gives the integer a residue stands for.
LEMMA GetOne ==
    ASSUME Width, NEW k \in {"ul", "redcul"}, NEW n \in ModuliOf(k), NEW a \in 0 .. n - 1,
           NEW x \in 0 .. n - 1, Stands(k, a, x, n)
    PROVE  get(k, a, initmod(k, n)) = x
<1>1. k \in Kinds /\ k \notin TwoWords
  BY DEF Kinds, TwoWords
<1>2. n \in Nat /\ n \in Word /\ n > 1
  BY <1>1, ModulusIs
<1>3. a \in Int /\ x \in Int /\ n \in Int /\ a \in Nat /\ a < n
  BY <1>2, SMT
<1>4. Cong(a, x * Radix(k), n)
  <2>1. Stored(k, a) = a
    BY <1>1, StoredIs
  <2> QED  BY <2>1 DEF Stands
<1>5. CASE k = "ul"
  <2>1. x * 1 = x /\ Radix(k) = 1
    <3>1. x * 1 = x
      BY <1>3, SMT
    <3> QED  BY <3>1, <1>1, <1>5, KindIs
  <2>2. Cong(a, x, n)
    BY <2>1, <1>4
  <2>3. a = x
    BY <2>2, <1>2, CongEqual
  <2>4. get(k, a, initmod(k, n)) = a
    BY <1>5 DEF get, modul_get_ul
  <2> QED  BY <2>3, <2>4
<1>6. CASE k = "redcul"
  <2>1. n \in ModuliOf("redcul") /\ Radix(k) = W
    BY <1>1, <1>6, KindIs
  <2>2. PICK m : m = initmod("redcul", n)
    OBVIOUS
  <2>3. PICK i \in Word : m.m = n /\ m.invm = i /\ Cong(n * i, -1, W)
    BY <2>1, <2>2, OneWordModulus
  <2>4. a \in Word /\ n < W /\ W \in Int
    <3>1. n < W /\ W \in Nat
      BY <2>1, OneModulus
    <3>2. a < W /\ W \in Int
      BY <3>1, <1>3, SMT
    <3> QED  BY <3>1, <3>2, <1>3, WordInt
  <2>5. PICK f : f = (ularith_mul_ul_ul_2ul((a * i) % W, n)[2] + B(a # 0)) % W
    OBVIOUS
  <2>6. f \in 0 .. n - 1 /\ Cong(f * W, a, n)
    BY <2>1, <2>3, <2>4, <2>5, <1>3, WordRedc
  <2>7. get(k, a, initmod(k, n)) = f
    <3>1. get(k, a, initmod(k, n)) = modredcul_frommontgomery(a, m)
      BY <2>2, <1>6, Zenon DEF get, modredcul_get_ul
    <3>2. modredcul_frommontgomery(a, m) = f
      BY <2>3, <2>5, Zenon DEF modredcul_frommontgomery
    <3> QED  BY <3>1, <3>2
  <2>8. f \in Int /\ f * W \in Int /\ x * W \in Int
    <3>1. f \in Int
      BY <2>6, <1>2, SMT
    <3> QED  BY <3>1, <2>4, <1>3, SMT
  <2>9. Cong(a, x * W, n)
    BY <2>1, <1>4
  <2>10. Cong(f * W, x * W, n)
    BY <2>6, <2>8, <2>9, <1>3, CongTrans
  <2>11. PICK j \in Int : Cong(W * j, 1, n)
    BY <2>1, <1>1, RadixUnit
  <2>12. Cong(f, x, n)
    BY <2>4, <2>8, <2>10, <2>11, <1>3, CongCancel
  <2>13. f = x
    BY <2>6, <2>12, <1>2, CongEqual
  <2> QED  BY <2>7, <2>13
<1> QED  BY <1>5, <1>6

\* The one-word conversions of mod_ul.h, and its sums with a word.
LEMMA UlConversions ==
    ASSUME Width, NEW n \in ModuliOf("ul"), NEW a \in 0 .. n - 1, NEW s \in Word
    PROVE  /\ modul_set_ul(s, n) = Repr("ul", s, n)
           /\ modul_add_ul(a, s, n) = (a + s) % n
           /\ modul_sub_ul(a, s, n) = (a - s) % n
           /\ modul_set1(n) = Repr("ul", 1, n)
<1>1. "ul" \in Kinds
  BY DEF Kinds
<1>2. n \in Nat /\ n > 1 /\ n \in Int /\ n > 0
  <2>1. n \in Nat /\ n > 1
    BY <1>1, ModulusIs
  <2> QED  BY <2>1, SMT
<1>3. a \in Nat /\ a < n /\ a \in Int /\ s \in Nat /\ s \in Int
  <2>1. s \in Nat /\ s \in Int
    BY WordInt
  <2> QED  BY <2>1, <1>2, SMT
<1>4. PICK b \in 0 .. n - 1 : b = s % n /\ Cong(b, s, n)
  BY <1>2, <1>3, CongMod
<1>5. b \in Nat /\ b < n /\ b \in Int
  BY <1>2, SMT
<1>6. modul_set_ul(s, n) = Repr("ul", s, n)
  <2>1. modul_set_ul(s, n) = b
    BY <1>4 DEF modul_set_ul
  <2>2. Stands("ul", b, s, n)
    BY <1>3, <1>4, OneStands
  <2>3. Cong(s, s, n)
    BY <1>2, <1>3, CongSelf
  <2> QED  BY <2>1, <2>2, <2>3, <1>1, <1>3, ReprOf
<1>7. Cong(a, a, n)
  BY <1>2, <1>3, CongSelf
<1>8. Cong(a + b, a + s, n) /\ Cong(a - b, a - s, n)
  BY <1>2, <1>3, <1>4, <1>5, <1>7, CongAdd
<1>9. /\ a + s \in Int /\ a - s \in Int /\ a + b \in Int /\ a - b \in Int
  BY <1>3, <1>5, SMT
<1>10. modul_add_ul(a, s, n) = (a + s) % n
  <2>1. PICK r : r = modul_add_ul(a, s, n)
    OBVIOUS
  <2>2. r = IF a >= n - b THEN a - (n - b) ELSE a + b
    BY <2>1, <1>4 DEF modul_add_ul
  <2>3. r \in 0 .. n - 1 /\ r \in Int /\ (r = a + b \/ r = a + b - n)
    BY <2>2, <1>2, <1>3, <1>5, SMT
  <2>4. Cong(r, a + b, n)
    <3>1. PICK t \in Int : t = a + b /\ (r = t \/ r = t - n)
      <4>1. (a + b) - n = a + b - n
        BY <1>2, <1>3, <1>5, SMT
      <4> QED  BY <4>1, <2>3, <1>9
    <3>2. Cong(r, t, n)
      BY <3>1, <2>3, <1>2, Shifted
    <3> QED  BY <3>1, <3>2
  <2>5. Cong(r, a + s, n)
    BY <2>3, <2>4, <1>2, <1>8, <1>9, CongTrans
  <2>6. Cong(a + s, r, n)
    BY <2>3, <2>5, <1>2, <1>9, CongSym
  <2>7. (a + s) % n = r
    BY <2>3, <2>6, <1>2, <1>9, ModIs
  <2> QED  BY <2>1, <2>7
<1>11. modul_sub_ul(a, s, n) = (a - s) % n
  <2>1. PICK r : r = modul_sub_ul(a, s, n)
    OBVIOUS
  <2>2. r = IF a >= b THEN a - b ELSE a + (n - b)
    BY <2>1, <1>4 DEF modul_sub_ul
  <2>3. r \in 0 .. n - 1 /\ r \in Int /\ (r = a - b \/ r = (a - b) + n)
    BY <2>2, <1>2, <1>3, <1>5, SMT
  <2>4. Cong(r, a - b, n)
    BY <2>3, <1>2, <1>9, Shifted
  <2>5. Cong(r, a - s, n)
    BY <2>3, <2>4, <1>2, <1>8, <1>9, CongTrans
  <2>6. Cong(a - s, r, n)
    BY <2>3, <2>5, <1>2, <1>9, CongSym
  <2>7. (a - s) % n = r
    BY <2>3, <2>6, <1>2, <1>9, ModIs
  <2> QED  BY <2>1, <2>7
<1>12. modul_set1(n) = Repr("ul", 1, n)
  <2>1. 1 \in 0 .. n - 1 /\ 1 \in Int
    BY <1>2, SMT
  <2>2. Cong(1, 1, n)
    BY <2>1, <1>2, CongSelf
  <2>3. Stands("ul", 1, 1, n)
    BY <2>1, <2>2, OneStands
  <2>4. 1 = Repr("ul", 1, n)
    BY <2>1, <2>2, <2>3, <1>1, ReprOf
  <2> QED  BY <2>4 DEF modul_set1
<1> QED  BY <1>6, <1>10, <1>11, <1>12

\* The same of modredc_ul.h.
LEMMA RedculConversions ==
    ASSUME Width, NEW n \in ModuliOf("redcul"), NEW m, m = initmod("redcul", n),
           NEW a \in 0 .. n - 1, NEW x \in Int, Stands("redcul", a, x, n), NEW s \in Word
    PROVE  /\ modredcul_set_ul(s, m) = Repr("redcul", s, n)
           /\ modredcul_add_ul(a, s, m) = Repr("redcul", x + s, n)
           /\ modredcul_sub_ul(a, s, m) = Repr("redcul", (x - s) % n, n)
           /\ modredcul_set_uls(s, m) = Repr("redcul", s, n)
           /\ modredcul_set1(m) = Repr("redcul", 1, n)
<1>1. "redcul" \in Kinds
  BY DEF Kinds
<1>2. n \in Nat /\ n > 1 /\ n \in Int /\ n > 0 /\ W \in Nat /\ n < W
  BY OneModulus
<1>3. m.m = n
  BY OneWordModulus
<1>4. s \in Int /\ s \in Nat
  BY WordInt
<1>5. Cong(s, s, n)
  BY <1>2, <1>4, CongSelf
<1>6. PICK b : b = modredcul_set_ul(s, m)
  OBVIOUS
<1>7. Stands("redcul", b, s, n)
  BY <1>6, SetWord
<1>8. modredcul_set_ul(s, m) = Repr("redcul", s, n)
  BY <1>1, <1>4, <1>5, <1>6, <1>7, ReprOf
<1>9. modredcul_set1(m) = Repr("redcul", 1, n)
  <2>1. 1 \in Int
    BY SMT
  <2>2. Cong(1, 1, n)
    BY <2>1, <1>2, CongSelf
  <2>3. Stands("redcul", m.one, 1, n)
    BY OneIs
  <2>4. m.one = Repr("redcul", 1, n)
    BY <2>1, <2>2, <2>3, <1>1, ReprOf
  <2> QED  BY <2>4 DEF modredcul_set1
<1>10. modredcul_set_uls(s, m) = Repr("redcul", s, n)
  <2>1. PICK t \in 0 .. n - 1 : t = s % n /\ Cong(t, s, n)
    BY <1>2, <1>4, CongMod
  <2>2. t \in Word
    <3>1. t \in Nat /\ t < W
      BY <1>2, SMT
    <3> QED  BY <3>1, WordInt
  <2>3. modredcul_set_uls(s, m) = modredcul_tomontgomery(t, m)
    BY <2>1, <1>3, Zenon DEF modredcul_set_uls
  <2>4. Stands("redcul", modredcul_tomontgomery(t, m), s, n)
    BY <2>1, <2>2, <1>3, <1>4, ToMontgomery
  <2> QED  BY <2>3, <2>4, <1>1, <1>4, <1>5, ReprOf
<1>11. Reduced("redcul", a, n) /\ Reduced("redcul", b, n)
  BY <1>7, StandsReduced
<1>12. PICK u, d : u = add("redcul", a, b, m) /\ d = sub("redcul", a, b, m)
  OBVIOUS
<1>13. u = modredcul_add_ul(a, s, m) /\ d = modredcul_sub_ul(a, s, m)
  <2>1. u = modredcul_add(a, b, m) /\ d = modredcul_sub(a, b, m)
    BY <1>12 DEF add, sub
  <2> QED  BY <2>1, <1>6, Zenon DEF modredcul_add_ul, modredcul_sub_ul
<1>14. PICK A, V, U, D : /\ A = Stored("redcul", a) /\ V = Stored("redcul", b)
                         /\ U = Stored("redcul", u) /\ D = Stored("redcul", d)
  OBVIOUS
<1>15. /\ Reduced("redcul", u, n) /\ Reduced("redcul", d, n)
       /\ U = A + V \/ U = (A + V) - n
       /\ D = A - V \/ D = (A - V) + n
  BY <1>1, <1>11, <1>12, <1>14, SumValue
<1>16. A \in Int /\ V \in Int /\ U \in Int /\ D \in Int
  <2>1. A \in 0 .. n - 1 /\ V \in 0 .. n - 1 /\ U \in 0 .. n - 1 /\ D \in 0 .. n - 1
    BY <1>11, <1>14, <1>15 DEF Reduced
  <2> QED  BY <2>1, <1>2, SMT
<1>17. Cong(U, A + V, n) /\ Cong(D, A - V, n)
  <2>1. A + V \in Int /\ A - V \in Int
    BY <1>16, SMT
  <2> QED  BY <2>1, <1>2, <1>15, <1>16, Shifted
<1>18. Stands("redcul", u, x + s, n) /\ Stands("redcul", d, x - s, n)
  <2>1. IsFormat("redcul", u) /\ Stored("redcul", u) \in 0 .. n - 1
    BY <1>15 DEF Reduced
  <2>2. IsFormat("redcul", d) /\ Stored("redcul", d) \in 0 .. n - 1
    BY <1>15 DEF Reduced
  <2>3. Cong(Stored("redcul", u), Stored("redcul", a) + Stored("redcul", b), n)
    BY <1>14, <1>17
  <2>4. Cong(Stored("redcul", d), Stored("redcul", a) - Stored("redcul", b), n)
    BY <1>14, <1>17
  <2>5. Stands("redcul", u, x + s, n)
    BY <2>1, <2>3, <1>1, <1>4, <1>7, SumStands
  <2>6. Stands("redcul", d, x - s, n)
    BY <2>2, <2>4, <1>1, <1>4, <1>7, SumStands
  <2> QED  BY <2>5, <2>6
<1>19. x + s \in Int /\ x - s \in Int
  BY <1>4, SMT
<1>20. u = Repr("redcul", x + s, n)
  <2>1. Cong(x + s, x + s, n)
    BY <1>2, <1>19, CongSelf
  <2> QED  BY <2>1, <1>1, <1>18, <1>19, ReprOf
<1>21. d = Repr("redcul", (x - s) % n, n)
  <2>1. PICK e, f \in Int : e = x - s /\ f = e % n /\ Cong(e, f, n)
    <3>1. PICK e \in Int : e = x - s
      BY <1>19
    <3>2. Cong(e, e % n, n) /\ e % n \in 0 .. n - 1
      BY <1>2, CongMod
    <3>3. e % n \in Int
      BY <3>2, <1>2, SMT
    <3> QED  BY <3>1, <3>2, <3>3
  <2>2. Stands("redcul", d, e, n)
    BY <2>1, <1>18
  <2>3. d = Repr("redcul", f, n)
    BY <2>1, <2>2, <1>1, ReprOf
  <2> QED  BY <2>1, <2>3
<1> QED  BY <1>8, <1>9, <1>10, <1>13, <1>20, <1>21

\* The conversions of mod_ul.h and modredc_ul.h are right for every word size, every
\* modulus their header accepts and every reduced residue a: set1, and set_ul and
\* set_uls of any word, also one above the modulus, return the reduced residue that
\* stands for it; get returns the integer a stands for; add_ul and sub_ul the residue
\* of its sum and difference with any word.
THEOREM OneWordConversions ==
    ASSUME Width, NEW k \in {"ul", "redcul"}, NEW n \in ModuliOf(k), NEW a \in 0 .. n - 1
    PROVE  ConversionsOk(k, n, a)
<1>1. k \in Kinds /\ k \notin TwoWords /\ k # "redc15ul" /\ k # "redc2ul2"
  BY DEF Kinds, TwoWords
<1>2. IsFormat(k, a) /\ Stored(k, a) \in 0 .. n - 1
  BY <1>1, OneReduced DEF Reduced
<1>3. PICK m : m = initmod(k, n)
  OBVIOUS
<1>4. PICK x \in 0 .. n - 1 : x = Plain(k, a, n) /\ Stands(k, a, x, n)
  BY <1>1, <1>2, PlainStands
<1>5. x \in Int
  <2>1. n \in Nat
    BY <1>1, ModulusIs
  <2> QED  BY <2>1, SMT
<1>6. get(k, a, m) = x
  BY <1>3, <1>4, GetOne
<1>7. CASE k = "ul"
  <2>1. m = n /\ n \in ModuliOf("ul")
    BY <1>3, <1>7 DEF initmod
  <2>2. set1(k, m) = Repr(k, 1, n)
    <3>1. 0 \in Word
      <4>1. W \in Nat /\ W >= 16
        BY WordSize
      <4>2. 0 \in Nat /\ 0 < W
        BY <4>1, SMT
      <4> QED  BY <4>2, WordInt
    <3>2. modul_set1(n) = Repr("ul", 1, n)
      BY <2>1, <3>1, UlConversions
    <3> QED  BY <2>1, <3>2, <1>7 DEF set1
  <2>3. ASSUME NEW s \in Word
        PROVE  /\ set_ul(k, s, m) = Repr(k, s, n)
               /\ modul_add_ul(a, s, m) = (a + s) % n
               /\ modul_sub_ul(a, s, m) = (a - s) % n
    <3>1. /\ modul_set_ul(s, n) = Repr("ul", s, n)
          /\ modul_add_ul(a, s, n) = (a + s) % n
          /\ modul_sub_ul(a, s, n) = (a - s) % n
      BY <2>1, UlConversions
    <3>2. set_ul(k, s, m) = modul_set_ul(s, n)
      BY <2>1, <1>7 DEF set_ul
    <3> QED  BY <2>1, <3>1, <3>2, <1>7
  <2>4. k # "redcul"
    BY <1>7
  <2> QED  BY <2>2, <2>3, <2>4, <1>1, <1>3, <1>4, <1>6, ZenonT(60) DEF ConversionsOk
<1>8. CASE k = "redcul"
  <2>1. n \in ModuliOf("redcul") /\ m = initmod("redcul", n) /\ Stands("redcul", a, x, n)
    BY <1>3, <1>4, <1>8
  <2>2. set1(k, m) = Repr(k, 1, n)
    <3>1. 0 \in Word
      <4>1. W \in Nat /\ W >= 16
        BY WordSize
      <4>2. 0 \in Nat /\ 0 < W
        BY <4>1, SMT
      <4> QED  BY <4>2, WordInt
    <3>2. modredcul_set1(m) = Repr("redcul", 1, n)
      BY <2>1, <3>1, <1>5, RedculConversions
    <3> QED  BY <3>2, <1>8 DEF set1
  <2>3. ASSUME NEW s \in Word
        PROVE  /\ set_ul(k, s, m) = Repr(k, s, n)
               /\ modredcul_add_ul(a, s, m) = Repr(k, x + s, n)
               /\ modredcul_sub_ul(a, s, m) = Repr(k, (x - s) % n, n)
               /\ modredcul_set_uls(s, m) = Repr(k, s, n)
    <3>1. /\ modredcul_set_ul(s, m) = Repr("redcul", s, n)
          /\ modredcul_add_ul(a, s, m) = Repr("redcul", x + s, n)
          /\ modredcul_sub_ul(a, s, m) = Repr("redcul", (x - s) % n, n)
          /\ modredcul_set_uls(s, m) = Repr("redcul", s, n)
      BY <2>1, <1>5, RedculConversions
    <3>2. set_ul(k, s, m) = modredcul_set_ul(s, m)
      BY <1>8 DEF set_ul
    <3> QED  BY <3>1, <3>2, <1>8
  <2>4. k # "ul"
    BY <1>8
  <2> QED  BY <2>2, <2>3, <2>4, <1>1, <1>3, <1>4, <1>6, ZenonT(60) DEF ConversionsOk
<1> QED  BY <1>7, <1>8

-----------------------------------------------------------------------------
(* Leaving the arithmetics of two words: two REDC steps, in which no carry  *)
(* is lost.                                                                 *)

\* One step on a reduced pair: its parts, and the reduced value they add up to.
LEMMA StepTwo ==
    ASSUME Width, NEW M \in Pair, M[1] # 0, NEW i \in Word, Cong(M[1] * i, -1, W),
           NEW s \in Pair, Val(s) < Val(M),
           NEW k, k = (s[1] * i) % W, NEW p, p = ularith_mul_ul_ul_2ul(k, M[1]),
           NEW g, g = ularith_mul_ul_ul_2ul(k, M[2])
    PROVE  \E h, R \in Nat :
              /\ B(p[1] # 0) = B(s[1] # 0) /\ h = p[2] + B(p[1] # 0)
              /\ h \in Word /\ h % W = h /\ s[2] \in Word /\ g \in Pair
              /\ R = h + s[2] + Val(g) /\ R < Val(M) /\ h + s[2] < W * W
              /\ Cong(R * W, Val(s), Val(M))
<1>1. W \in Nat /\ W >= 16 /\ W > 0
  <2>1. W \in Nat /\ W >= 16
    BY WordSize
  <2> QED  BY <2>1, SMT
<1>2. /\ M[1] \in Word /\ M[2] \in Word /\ M[1] \in Nat /\ M[2] \in Nat
      /\ Val(M) \in Nat /\ Val(M) < W * W /\ Val(M) = M[1] + W * M[2]
  BY ValRange
<1>3. /\ s[1] \in Word /\ s[2] \in Word /\ s[1] \in Nat /\ s[2] \in Nat
      /\ Val(s) \in Nat /\ Val(s) = s[1] + W * s[2]
  BY ValRange
<1>4. /\ k \in Word /\ p \in Pair /\ Val(p) = k * M[1]
      /\ B(p[1] # 0) \in {0, 1} /\ B(s[1] # 0) = B(p[1] # 0)
      /\ s[1] + p[1] = W * B(p[1] # 0)
  BY <1>2, <1>3, RedcWord
<1>5. g \in Pair /\ Val(g) = k * M[2] /\ Val(g) \in Nat
  BY <1>2, <1>4, MulWords
<1>6. PICK c \in {0, 1} : c = B(p[1] # 0) /\ s[1] + p[1] = W * c
  BY <1>4
<1>7. /\ p[1] \in Nat /\ p[2] \in Nat /\ Val(p) = p[1] + W * p[2]
      /\ k \in Nat /\ k < W /\ c \in Nat
  BY <1>4, ValRange, WordInt
<1>8. PICK p1, p2, s1, s2, m1, m2 \in Nat :
         p1 = p[1] /\ p2 = p[2] /\ s1 = s[1] /\ s2 = s[2] /\ m1 = M[1] /\ m2 = M[2]
  BY <1>2, <1>3, <1>7
<1>9. PICK n, v, kg \in Nat : n = Val(M) /\ v = Val(s) /\ kg = Val(g)
  BY <1>2, <1>3, <1>5
<1>10. /\ s1 + p1 = W * c /\ k * m1 = p1 + W * p2 /\ kg = k * m2
       /\ v = s1 + W * s2 /\ n = m1 + W * m2 /\ v < n /\ n < W * W
       /\ m1 < W /\ m1 # 0 /\ s2 < W
  <2>1. m1 < W /\ s2 < W
    <3>1. m1 \in Word /\ s2 \in Word
      BY <1>2, <1>3, <1>8
    <3> QED  BY <3>1, WordInt
  <2> QED  BY <2>1, <1>2, <1>3, <1>4, <1>5, <1>6, <1>7, <1>8, <1>9
<1>11. PICK h, R \in Nat : h = p2 + c /\ R = h + s2 + kg
  BY <1>7, SMT
<1>12. p2 < m1
  <2>1. m1 > 0
    BY <1>10, SMT
  <2>2. M[1] > 0 => p[2] < M[1]
    BY <1>2, <1>4, <1>6, RedcSum
  <2> QED  BY <2>1, <2>2, <1>8
<1>13. h < W /\ h + s2 < W * W
  <2>1. h < W
    BY <1>1, <1>6, <1>10, <1>11, <1>12, SMT
  <2>2. h + s2 < 2 * W /\ 2 * W <= W * W
    BY <2>1, <1>1, <1>10, SMT
  <2>3. PICK z \in Int : z = W * W
    BY <1>1, SMT
  <2>4. h + s2 < z
    BY <2>2, <2>3, <1>1, SMT
  <2> QED  BY <2>1, <2>3, <2>4
<1>14. W * R = v + k * n
  <2>1. W * (p2 + c + s2 + k * m2) = W * p2 + W * c + W * s2 + k * (W * m2)
    BY <1>1, <1>7, SMT
  <2>2. k * (m1 + W * m2) = k * m1 + k * (W * m2)
    BY <1>1, <1>7, SMT
  <2>3. R = p2 + c + s2 + k * m2
    BY <1>10, <1>11
  <2>4. PICK a, b, d, e, f \in Int :
           a = W * p2 /\ b = W * c /\ d = W * s2 /\ e = k * (W * m2) /\ f = k * m1
    BY <1>1, <1>7, SMT
  <2>5. W * R = a + b + d + e /\ k * n = f + e /\ s1 + p1 = b /\ f = p1 + a /\ v = s1 + d
    BY <2>1, <2>2, <2>3, <2>4, <1>10
  <2>6. a + b + d + e = v + (f + e)
    BY <2>5, SMT
  <2> QED  BY <2>5, <2>6
<1>15. R < n
  <2>1. PICK wn \in Int : wn = W * n
    BY <1>1, SMT
  <2>2. v + (wn - n) < wn
    BY <1>10, SMT
  <2>3. v + (W * n - n) < W * n
    BY <2>1, <2>2
  <2>4. R \in Int /\ v \in Int /\ n \in Int
    BY SMT
  <2> QED  BY <2>3, <2>4, <1>1, <1>7, <1>14, TopBound
<1>16. Cong(R * W, v, n)
  <2>1. R \in Int /\ v \in Int /\ R = R
    BY SMT
  <2> QED  BY <2>1, <1>1, <1>7, <1>14, TopClass
<1>17. h \in Word /\ h % W = h
  BY <1>13, WordInt
<1>18. h = p[2] + B(p[1] # 0) /\ R = h + s[2] + Val(g) /\ R < Val(M) /\ h + s[2] < W * W
  BY <1>6, <1>8, <1>9, <1>11, <1>13, <1>15
<1> QED  BY <1>3, <1>4, <1>5, <1>9, <1>16, <1>17, <1>18

\* The additions of a step: a word and a word, and the second product.
LEMMA StepSum ==
    ASSUME Width, NEW x \in Word, NEW y \in Word, NEW g \in Pair, NEW N \in Nat, N < W * W,
           x + y + Val(g) < N, x + y < W * W,
           NEW r, r = ularith_add_2ul_2ul(ularith_add_ul_2ul(<<x, 0>>, y), g)
    PROVE  r \in Pair /\ Val(r) = x + y + Val(g)
<1>1. W \in Nat /\ W >= 16
  BY WordSize
<1>2. 0 \in Word
  <2>1. 0 \in Nat /\ 0 < W
    BY <1>1, SMT
  <2> QED  BY <2>1, WordInt
<1>3. PICK p : p = <<x, 0>>
  OBVIOUS
<1>4. p \in Pair /\ Val(p) = x + W * 0
  BY <1>2, <1>3, PairIs
<1>5. x \in Nat /\ y \in Nat /\ Val(g) \in Nat
  BY WordInt, ValRange
<1>6. x + W * 0 = x
  BY <1>1, <1>5, SMT
<1>7. Val(p) = x
  BY <1>4, <1>6
<1>8. PICK t : t = ularith_add_ul_2ul(p, y)
  OBVIOUS
<1>9. t \in Pair /\ Val(t) = x + y
  <2>1. Val(p) + y < W * W
    BY <1>7
  <2>2. t \in Pair /\ Val(t) = Val(p) + y
    BY <2>1, <1>4, <1>8, AddToPair
  <2> QED  BY <2>2, <1>7
<1>10. PICK z \in Nat : z = W * W
  BY <1>1, SMT
<1>11. Val(t) + Val(g) < W * W
  <2>1. PICK e \in Nat : e = Val(g)
    BY <1>5
  <2>2. x + y + e < N /\ N < z
    BY <2>1, <1>10
  <2>3. x + y + e < z
    BY <2>2, <1>5, SMT
  <2> QED  BY <2>1, <2>3, <1>9, <1>10
<1>12. PICK e : e = ularith_add_2ul_2ul_cy(t, g)
  OBVIOUS
<1>13. r = ularith_add_2ul_2ul(t, g)
  BY <1>3, <1>8
<1>14. r \in Pair /\ Val(r) = Val(t) + Val(g)
  BY <1>9, <1>11, <1>12, <1>13, AddPairsLow
<1> QED  BY <1>9, <1>14

\* redc1 of modredc_15ul.h and of modredc_2ul2.h, and the second step of
\* frommontgomery in modredc_15ul.h, where the two words change places.
LEMMA Redc1Right ==
    ASSUME Width, NEW M \in Pair, M[1] # 0, NEW i \in Word, Cong(M[1] * i, -1, W),
           NEW m, m.m = M, m.invm = i, NEW s \in Pair, Val(s) < Val(M)
    PROVE  \E r \in Pair :
              /\ Val(r) < Val(M) /\ Cong(Val(r) * W, Val(s), Val(M))
              /\ modredc15ul_redc1(s, m) = r /\ modredc2ul2_redc1(s, m) = r
              /\ LET k == (s[1] * i) % W
                     p == ularith_mul_ul_ul_2ul(k, M[1])
                     u == ularith_add_ul_2ul(<<s[2], 0>>, (p[2] + B(p[1] # 0)) % W)
                 IN  ularith_add_2ul_2ul(u, ularith_mul_ul_ul_2ul(k, M[2])) = r
<1>1. Val(M) \in Nat /\ Val(M) < W * W
  BY ValRange
<1>2. PICK k, p, g : /\ k = (s[1] * i) % W /\ p = ularith_mul_ul_ul_2ul(k, M[1])
                     /\ g = ularith_mul_ul_ul_2ul(k, M[2])
  OBVIOUS
<1>3. PICK h, R \in Nat :
         /\ B(p[1] # 0) = B(s[1] # 0) /\ h = p[2] + B(p[1] # 0)
         /\ h \in Word /\ h % W = h /\ s[2] \in Word /\ g \in Pair
         /\ R = h + s[2] + Val(g) /\ R < Val(M) /\ h + s[2] < W * W
         /\ Cong(R * W, Val(s), Val(M))
  BY <1>2, StepTwo
<1>4. PICK y \in Nat : y = s[2] /\ y \in Word
  BY <1>3, WordInt
<1>5. PICK a, b : /\ a = ularith_add_2ul_2ul(ularith_add_ul_2ul(<<h, 0>>, y), g)
                  /\ b = ularith_add_2ul_2ul(ularith_add_ul_2ul(<<y, 0>>, h), g)
  OBVIOUS
<1>6. h + y + Val(g) = R /\ h + y < W * W /\ R < Val(M)
  BY <1>3, <1>4
<1>7. a \in Pair /\ Val(a) = h + y + Val(g)
  BY <1>1, <1>3, <1>4, <1>5, <1>6, StepSum
<1>8. y + h = h + y
  BY SMT
<1>9. b \in Pair /\ Val(b) = y + h + Val(g)
  <2>1. y + h + Val(g) < Val(M) /\ y + h < W * W
    BY <1>6, <1>8
  <2> QED  BY <2>1, <1>1, <1>3, <1>4, <1>5, StepSum
<1>10. Val(a) = R /\ Val(b) = R
  BY <1>6, <1>7, <1>8, <1>9
<1>11. a = b
  BY <1>7, <1>9, <1>10, ValOne
<1>12. modredc15ul_redc1(s, m)
         = ularith_add_2ul_2ul(ularith_add_ul_2ul(<<(p[2] + B(p[1] # 0)) % W, 0>>, s[2]), g)
  BY <1>2, Zenon DEF modredc15ul_redc1
<1>13. modredc2ul2_redc1(s, m)
         = ularith_add_2ul_2ul(ularith_add_ul_2ul(<<(p[2] + B(s[1] # 0)) % W, 0>>, s[2]), g)
  BY <1>2, Zenon DEF modredc2ul2_redc1
<1>14. (p[2] + B(p[1] # 0)) % W = h /\ (p[2] + B(s[1] # 0)) % W = h
  BY <1>3
<1>15. modredc15ul_redc1(s, m) = a /\ modredc2ul2_redc1(s, m) = a
  BY <1>4, <1>5, <1>12, <1>13, <1>14
<1>16. LET kk == (s[1] * i) % W
           pp == ularith_mul_ul_ul_2ul(kk, M[1])
           uu == ularith_add_ul_2ul(<<s[2], 0>>, (pp[2] + B(pp[1] # 0)) % W)
       IN  ularith_add_2ul_2ul(uu, ularith_mul_ul_ul_2ul(kk, M[2])) = a
  BY <1>2, <1>4, <1>5, <1>11, <1>14
<1>17. Val(a) < Val(M) /\ Cong(Val(a) * W, Val(s), Val(M))
  BY <1>3, <1>10
<1> QED  BY <1>7, <1>15, <1>16, <1>17

\* get_uls of both: the residue over the square of the word size.
LEMMA GetTwo ==
    ASSUME Width, NEW M \in Pair, M[1] # 0, NEW i \in Word, Cong(M[1] * i, -1, W),
           NEW m, m.m = M, m.invm = i, NEW s \in Pair, Val(s) < Val(M)
    PROVE  \E r \in Pair :
              /\ Val(r) < Val(M) /\ Cong(Val(r) * (W * W), Val(s), Val(M))
              /\ modredc15ul_get_uls(s, m) = r /\ modredc2ul2_get_uls(s, m) = r
<1>1. PICK t \in Pair :
         /\ Val(t) < Val(M) /\ Cong(Val(t) * W, Val(s), Val(M))
         /\ modredc15ul_redc1(s, m) = t /\ modredc2ul2_redc1(s, m) = t
         /\ LET k == (s[1] * i) % W
                p == ularith_mul_ul_ul_2ul(k, M[1])
                u == ularith_add_ul_2ul(<<s[2], 0>>, (p[2] + B(p[1] # 0)) % W)
            IN  ularith_add_2ul_2ul(u, ularith_mul_ul_ul_2ul(k, M[2])) = t
  BY Redc1Right
<1>2. PICK r \in Pair :
         /\ Val(r) < Val(M) /\ Cong(Val(r) * W, Val(t), Val(M))
         /\ modredc15ul_redc1(t, m) = r /\ modredc2ul2_redc1(t, m) = r
         /\ LET k == (t[1] * i) % W
                p == ularith_mul_ul_ul_2ul(k, M[1])
                u == ularith_add_ul_2ul(<<t[2], 0>>, (p[2] + B(p[1] # 0)) % W)
            IN  ularith_add_2ul_2ul(u, ularith_mul_ul_ul_2ul(k, M[2])) = r
  BY <1>1, Redc1Right
<1>3. modredc15ul_get_uls(s, m) = r
  BY <1>1, <1>2, Zenon DEF modredc15ul_get_uls, modredc15ul_frommontgomery
<1>4. modredc2ul2_get_uls(s, m) = r
  BY <1>1, <1>2, Zenon DEF modredc2ul2_get_uls, modredc2ul2_frommontgomery
<1>5. PICK R, T, S, n \in Int : R = Val(r) /\ T = Val(t) /\ S = Val(s) /\ n = Val(M)
  <2>1. Val(r) \in Nat /\ Val(t) \in Nat /\ Val(s) \in Nat /\ Val(M) \in Nat
    BY ValRange
  <2> QED  BY <2>1, SMT
<1>6. W \in Int /\ R * W \in Int /\ T * W \in Int /\ (R * W) * W = R * (W * W)
      /\ R * (W * W) \in Int
  <2>1. W \in Nat
    BY WordSize
  <2> QED  BY <2>1, SMT
<1>7. Cong(R * W, T, n) /\ Cong(T * W, S, n)
  BY <1>1, <1>2, <1>5
<1>8. Cong((R * W) * W, T * W, n)
  BY <1>6, <1>7, CongTimes
<1>9. Cong(R * (W * W), T * W, n)
  BY <1>6, <1>8
<1>10. Cong(R * (W * W), S, n)
  BY <1>6, <1>7, <1>9, CongTrans
<1> QED  BY <1>2, <1>3, <1>4, <1>5, <1>10

\* In all four arithmetics, for every word size and modulus, get and get_uls return
\* the integer below the modulus that a reduced residue stands for: neither the one
\* or two REDC steps nor the carries between their words lose anything.
THEOREM GetRight ==
    ASSUME Width, NEW k \in Kinds, NEW n \in ModuliOf(k),
           NEW a, IsFormat(k, a), Stored(k, a) \in 0 .. n - 1
    PROVE  get(k, a, initmod(k, n)) = Plain(k, a, n)
<1>1. PICK x \in 0 .. n - 1 : x = Plain(k, a, n) /\ Stands(k, a, x, n)
  BY PlainStands
<1>2. n \in Nat /\ n \in Int /\ n > 0 /\ n % 2 \in Int /\ x \in Int
  <2>1. n \in Nat /\ n > 1
    BY ModulusIs
  <2> QED  BY <2>1, SMT
<1>3. CASE k \notin TwoWords
  <2>1. k \in {"ul", "redcul"} /\ a \in 0 .. n - 1
    <3>1. k \in {"ul", "redcul"}
      BY <1>3, KindIs
    <3>2. a \in 0 .. n - 1
      BY <1>3, OneReduced DEF Reduced
    <3> QED  BY <3>1, <3>2
  <2> QED  BY <2>1, <1>1, GetOne
<1>4. CASE k \in TwoWords
  <2>1. PICK m : m = initmod(k, n)
    OBVIOUS
  <2>2. m.m \in Pair /\ Val(m.m) = n /\ m.invm \in Word /\ Cong(m.m[1] * m.invm, -1, W)
    BY <2>1, <1>4, TwoWordModulus
  <2>3. m.m[1] # 0
    <3>1. n % 2 = 1
      BY <1>4, ModulusIs, KindIs
    <3>2. m.m[1] % 2 = 1
      BY <3>1, <2>2, ParityPair
    <3>3. 0 % 2 = 0
      BY SMT
    <3>4. 0 # 1
      OBVIOUS
    <3> QED  BY <3>2, <3>3, <3>4
  <2>4. a \in Pair /\ Val(a) < Val(m.m)
    <3>1. a \in Pair /\ Val(a) < n
      BY <1>4, TwoReduced DEF Reduced
    <3> QED  BY <3>1, <2>2
  <2>5. PICK r \in Pair :
           /\ Val(r) < Val(m.m) /\ Cong(Val(r) * (W * W), Val(a), Val(m.m))
           /\ modredc15ul_get_uls(a, m) = r /\ modredc2ul2_get_uls(a, m) = r
    BY <2>2, <2>3, <2>4, GetTwo
  <2>6. PICK R \in Nat : R = Val(r)
    BY ValRange
  <2>7. get(k, a, m) = R
    <3>1. CASE k = "redc15ul"
      <4>1. get(k, a, m) = Val(modredc15ul_get_uls(a, m))
        BY <3>1 DEF get, Val15
      <4> QED  BY <4>1, <2>5, <2>6
    <3>2. CASE k = "redc2ul2"
      <4>1. get(k, a, m) = Val(modredc2ul2_get_uls(a, m))
        BY <3>2 DEF get, Val2
      <4> QED  BY <4>1, <2>5, <2>6
    <3> QED  BY <3>1, <3>2, <1>4, KindIs
  <2>8. Radix(k) = W * W /\ Stored(k, a) = Val(a)
    BY <1>4, KindIs, StoredIs
  <2>9. PICK Q \in Int : Q = W * W
    <3>1. W \in Nat
      BY WordSize
    <3> QED  BY <3>1, SMT
  <2>10. PICK A \in Int : A = Val(a)
    <3>1. Val(a) \in Nat
      BY <2>4, ValRange
    <3> QED  BY <3>1, SMT
  <2>11. Cong(R * Q, A, n) /\ Cong(A, x * Q, n)
    <3>1. Cong(Stored(k, a), x * Radix(k), n)
      BY <1>1 DEF Stands
    <3> QED  BY <3>1, <2>2, <2>5, <2>6, <2>8, <2>9, <2>10
  <2>12. R \in Int /\ R * Q \in Int /\ x * Q \in Int /\ R \in 0 .. n - 1
    <3>1. R < n
      BY <2>2, <2>5, <2>6
    <3> QED  BY <3>1, <1>2, SMT
  <2>13. Cong(R * Q, x * Q, n)
    BY <2>11, <2>12, <1>2, CongTrans
  <2>14. PICK j \in Int : Cong(Q * j, 1, n)
    BY <2>8, <2>9, RadixUnit
  <2>15. Cong(R, x, n)
    BY <2>12, <2>13, <2>14, <1>2, CongCancel
  <2>16. R = x
    BY <2>12, <2>15, <1>2, CongEqual
  <2> QED  BY <2>1, <2>7, <2>16, <1>1
<1> QED  BY <1>3, <1>4

-----------------------------------------------------------------------------
(* Entering the arithmetics of two words: 2w modular doublings, and the     *)
(* remainder of an integer that is not reduced.                             *)

\* A non-empty set of natural numbers has a least element.
LEMMA LeastNumber ==
    ASSUME NEW T \in SUBSET Nat, T # {}
    PROVE  \E i \in T : \A j \in T : i <= j
<1>1. IsWellFoundedOn(OpToRel(<, Nat), Nat)
  BY NatLessThanWellFounded
<1>2. PICK i \in T : \A j \in T : ~(<<j, i>> \in OpToRel(<, Nat))
  BY <1>1, WFMin
<1>3. \A j \in T : ~(j < i)
  BY <1>2 DEF OpToRel
<1> QED  BY <1>3

\* The number of bits of a word.
LEMMA BitsInt ==
    ASSUME Width
    PROVE  LONG_BIT \in Nat /\ LONG_BIT >= 4 /\ 2 * LONG_BIT \in Nat
<1>1. PICK i \in 2 .. 32 : LONG_BIT = 2 * i
  BY DEF Width
<1> QED  BY <1>1

\* The powers of two that occur, as the values of a function.
LEMMA PowersAre ==
    ASSUME Width, PowersOfTwo
    PROVE  \E e \in [0 .. 2 * LONG_BIT -> Nat] :
              /\ \A i \in 0 .. 2 * LONG_BIT : e[i] = 2^i
              /\ e[0] = 1 /\ e[2 * LONG_BIT] = W * W
              /\ \A i \in 1 .. 2 * LONG_BIT : e[i] = 2 * e[i - 1]
              /\ \A i \in 0 .. LONG_BIT : e[i] * e[LONG_BIT - i] = W
<1>1. LONG_BIT \in Nat /\ LONG_BIT >= 4
  BY BitsInt
<1> DEFINE e == [i \in 0 .. 2 * LONG_BIT |-> 2^i]
<1>2. e \in [0 .. 2 * LONG_BIT -> Nat]
  BY DEF PowersOfTwo
<1>3. \A i \in 0 .. 2 * LONG_BIT : e[i] = 2^i
  OBVIOUS
<1> HIDE DEF e
<1>4. e[0] = 1 /\ e[2 * LONG_BIT] = W * W
  <2>1. 0 \in 0 .. 2 * LONG_BIT /\ 2 * LONG_BIT \in 0 .. 2 * LONG_BIT
    BY <1>1
  <2> QED  BY <2>1, <1>3 DEF PowersOfTwo
<1>5. ASSUME NEW i \in 1 .. 2 * LONG_BIT PROVE e[i] = 2 * e[i - 1]
  <2>1. i \in 0 .. 2 * LONG_BIT /\ i - 1 \in 0 .. 2 * LONG_BIT
    BY <1>1
  <2>2. 2^i = 2 * 2^(i - 1)
    BY DEF PowersOfTwo
  <2> QED  BY <2>1, <2>2, <1>3
<1>6. ASSUME NEW i \in 0 .. LONG_BIT PROVE e[i] * e[LONG_BIT - i] = W
  <2>1. i \in 0 .. 2 * LONG_BIT /\ LONG_BIT - i \in 0 .. 2 * LONG_BIT
    BY <1>1
  <2>2. 2^i * 2^(LONG_BIT - i) = W
    BY DEF PowersOfTwo
  <2> QED  BY <2>1, <2>2, <1>3
<1> QED  BY <1>2, <1>3, <1>4, <1>5, <1>6

\* One doubling of the remainder of v times a power.
LEMMA Doubled ==
    ASSUME Width, NEW n \in Pair, Val(n) > 0, 2 * Val(n) <= W * W, NEW m, m.m = n,
           NEW v \in Nat, NEW p \in Nat, NEW r, r = OfVal((v * p) % Val(n))
    PROVE  /\ r \in Pair /\ Val(r) = (v * p) % Val(n) /\ Val(r) \in 0 .. Val(n) - 1
           /\ modredc15ul_add(r, r, m) = OfVal((v * (2 * p)) % Val(n))
<1> DEFINE N == Val(n)
<1>1. N \in Nat /\ N > 0 /\ N < W * W /\ W \in Nat /\ W * W \in Nat
      /\ v * p \in Nat /\ v * (2 * p) \in Nat
      /\ v * (2 * p) = 2 * (v * p)
  BY ValRange, WordSize, SMT
<1> HIDE DEF N
<1> PICK x : x = v * p
  OBVIOUS
<1> PICK y : y = x % N
  OBVIOUS
<1>2. y \in 0 .. N - 1 /\ Cong(y, x, N) /\ Cong(x, y, N) /\ x \in Nat
  <2>1. x \in Nat /\ x \in Int
    BY <1>1
  <2> QED  BY <2>1, <1>1, CongMod
<1>3. y \in Nat /\ y < W * W /\ y < N
  BY <1>1, <1>2, SMT
<1>4. r = OfVal(y)
  BY DEF N
<1>5. r \in Pair /\ Val(r) = y
  BY <1>3, <1>4, OfValIs
<1> PICK q : q = modredc15ul_add(r, r, m)
  OBVIOUS
<1>6. q \in Pair /\ Val(q) \in 0 .. N - 1 /\ (Val(q) = y + y \/ Val(q) = (y + y) - N)
  BY <1>3, <1>5, Add15 DEF N
<1>7. Cong(2 * x, Val(q), N)
  <2>1. PICK k \in Int : x = y + k * N
    BY <1>2 DEF Cong
  <2>2. 2 * x = (y + y) + (2 * k) * N /\ 2 * x = ((y + y) - N) + (2 * k + 1) * N
        /\ 2 * k \in Int /\ 2 * k + 1 \in Int
    BY <2>1, <1>1, <1>2, <1>3, SMT
  <2> QED  BY <2>2, <1>6 DEF Cong
<1>8. (2 * x) % N = Val(q)
  <2>1. 2 * x \in Int
    BY <1>2
  <2> QED  BY <2>1, <1>1, <1>6, <1>7, ModIs
<1>9. q = OfVal((2 * x) % N)
  <2>1. Val(q) \in Nat /\ Val(q) < W * W
    BY <1>6, ValRange
  <2>2. OfVal(Val(q)) \in Pair /\ Val(OfVal(Val(q))) = Val(q)
    BY <2>1, OfValIs
  <2> QED  BY <2>2, <1>6, <1>8, ValOne
<1> QED
  <2>1. v * (2 * p) = 2 * x
    BY <1>1
  <2> QED  BY <2>1, <1>2, <1>5, <1>9 DEF N

\* tomontgomery by doubling: after i doublings the value times 2^i.
LEMMA ToMontgomeryTwo ==
    ASSUME Width, PowersOfTwo, NEW n \in Pair, Val(n) > 0, 2 * Val(n) <= W * W,
           NEW m, m.m = n, NEW s \in Pair, Val(s) < Val(n)
    PROVE  /\ modredc15ul_tomontgomery(s, m) \in Pair
           /\ Val(modredc15ul_tomontgomery(s, m)) = (Val(s) * (W * W)) % Val(n)
<1> PICK top : top = 2 * LONG_BIT
  OBVIOUS
<1> DEFINE step(f, i) == IF i = 0 THEN s ELSE modredc15ul_add(f[i - 1], f[i - 1], m)
           good(f) == f = [i \in 0 .. top |-> step(f, i)]
<1>1. modredc15ul_tomontgomery(s, m) = (CHOOSE f : good(f))[top]
  BY Zenon DEF modredc15ul_tomontgomery, good, step
<1> HIDE DEF step, good
<1>2. PICK e \in [0 .. top -> Nat] :
              /\ e[0] = 1 /\ e[top] = W * W
              /\ \A i \in 1 .. top : e[i] = 2 * e[i - 1]
  BY PowersAre
<1>3. top \in Nat
  BY BitsInt
<1>4. Val(s) \in Nat /\ Val(n) \in Nat
  BY ValRange
<1> DEFINE g == [i \in 0 .. top |-> OfVal((Val(s) * e[i]) % Val(n))]
<1>5. ASSUME NEW i \in 0 .. top
      PROVE  /\ g[i] = OfVal((Val(s) * e[i]) % Val(n)) /\ e[i] \in Nat
             /\ i # 0 => i - 1 \in 0 .. top /\ i \in 1 .. top
  <2>1. g[i] = OfVal((Val(s) * e[i]) % Val(n))
    OBVIOUS
  <2>2. e[i] \in Nat
    BY <1>2
  <2>3. i # 0 => i - 1 \in 0 .. top /\ i \in 1 .. top
    BY <1>3
  <2> QED  BY <2>1, <2>2, <2>3
<1> HIDE DEF g
<1>6. g[0] = s
  <2>1. 0 \in 0 .. top
    BY <1>3
  <2>2. g[0] = OfVal((Val(s) * 1) % Val(n))
    BY <1>2, <1>5, <2>1
  <2>3. (Val(s) * 1) % Val(n) = Val(s)
    BY <1>4, SMT
  <2>4. OfVal(Val(s)) \in Pair /\ Val(OfVal(Val(s))) = Val(s)
    BY ValRange, OfValIs
  <2> QED  BY <2>2, <2>3, <2>4, ValOne
<1>7. ASSUME NEW i \in 0 .. top, i # 0
      PROVE  g[i] = modredc15ul_add(g[i - 1], g[i - 1], m)
  <2>1. i - 1 \in 0 .. top /\ e[i] = 2 * e[i - 1] /\ e[i - 1] \in Nat
    <3>1. i - 1 \in 0 .. top /\ i \in 1 .. top
      BY <1>5, <1>7
    <3> QED  BY <3>1, <1>2
  <2>2. g[i - 1] = OfVal((Val(s) * e[i - 1]) % Val(n))
    BY <1>5, <2>1
  <2>3. g[i] = OfVal((Val(s) * (2 * e[i - 1])) % Val(n))
    BY <1>5, <2>1
  <2> QED  BY <2>1, <2>2, <2>3, <1>4, Doubled
<1>8. good(g)
  <2>1. ASSUME NEW i \in 0 .. top PROVE g[i] = step(g, i)
    BY <1>6, <1>7 DEF step
  <2>2. g = [i \in 0 .. top |-> g[i]]
    BY DEF g
  <2> QED  BY <2>1, <2>2, Zenon DEF good
<1> PICK f : f = CHOOSE h : good(h)
  OBVIOUS
<1>9. good(f)
  BY <1>8, Zenon
<1>10. \A i \in 0 .. top : f[i] = IF i = 0 THEN s ELSE modredc15ul_add(f[i - 1], f[i - 1], m)
  BY <1>9, Zenon DEF good, step
<1>11. ASSUME NEW i \in 0 .. top PROVE f[i] = g[i]
  <2> DEFINE T == {j \in 0 .. top : f[j] # g[j]}
  <2>1. SUFFICES ASSUME T # {} PROVE FALSE
    OBVIOUS
  <2>2. T \in SUBSET Nat
    BY <1>3
  <2>3. PICK j \in T : \A l \in T : j <= l
    BY <2>1, <2>2, LeastNumber
  <2>4. j \in 0 .. top /\ j \in Nat /\ f[j] # g[j]
    BY <2>2, <2>3
  <2>5. CASE j = 0
    BY <2>4, <2>5, <1>6, <1>10
  <2>6. CASE j # 0
    <3>1. j - 1 \in 0 .. top /\ j - 1 < j
      BY <2>4, <2>6, <1>3
    <3>2. j - 1 \notin T
      BY <2>3, <3>1, <2>4
    <3>3. f[j - 1] = g[j - 1]
      BY <3>1, <3>2
    <3> QED  BY <3>3, <2>4, <2>6, <1>7, <1>10
  <2> QED  BY <2>5, <2>6
<1>12. f[top] = OfVal((Val(s) * (W * W)) % Val(n))
  <2>1. top \in 0 .. top
    BY <1>3
  <2> QED  BY <2>1, <1>2, <1>5, <1>11
<1>13. W * W \in Nat
  <2>1. W \in Nat
    BY WordSize
  <2> QED  BY <2>1
<1>14. OfVal((Val(s) * (W * W)) % Val(n)) \in Pair
      /\ Val(OfVal((Val(s) * (W * W)) % Val(n))) = (Val(s) * (W * W)) % Val(n)
  <2> PICK p : p = W * W
    OBVIOUS
  <2>1. p \in Nat /\ Val(s) \in Nat
    BY <1>4, <1>13
  <2> PICK r : r = OfVal((Val(s) * p) % Val(n))
    OBVIOUS
  <2>2. r \in Pair /\ Val(r) = (Val(s) * p) % Val(n)
    BY <2>1, Doubled
  <2> QED  BY <2>2
<1> QED  BY <1>1, <1>12, <1>14, Zenon

\* Quotient and remainder.
\* Quotient and remainder of natural numbers.
LEMMA DivMod ==
    ASSUME NEW a \in Nat, NEW b \in Nat, b > 0
    PROVE  /\ a \div b \in Nat /\ a % b \in 0 .. b - 1 /\ a % b \in Nat
           /\ a = b * (a \div b) + (a % b) /\ a \div b <= a
<1>1. a \div b \in Nat /\ a % b \in 0 .. b - 1 /\ a = b * (a \div b) + (a % b)
  BY SMT
<1>2. PICK q \in Nat : q = a \div b
  BY <1>1
<1>3. b * q >= q /\ b * q \in Nat
  BY SMT
<1> QED  BY <1>1, <1>2, <1>3

\* Two divisions are one by the product.
LEMMA DivDiv ==
    ASSUME NEW a \in Nat, NEW b \in Nat, b > 0, NEW c \in Nat, c > 0
    PROVE  (a \div b) \div c = a \div (b * c) /\ b * c \in Nat /\ b * c > 0 /\ a \div b \in Nat
<1>1. PICK q \in Nat : q = a \div b /\ \E r \in 0 .. b - 1 : a = b * q + r
  <2>1. a = b * (a \div b) + (a % b) /\ a % b \in 0 .. b - 1 /\ a \div b \in Nat
    BY SMT
  <2> QED  BY <2>1
<1>2. PICK r \in 0 .. b - 1 : a = b * q + r
  BY <1>1
<1>3. PICK u \in Nat : u = q \div c /\ \E v \in 0 .. c - 1 : q = c * u + v
  <2>1. q = c * (q \div c) + (q % c) /\ q % c \in 0 .. c - 1 /\ q \div c \in Nat
    BY SMT
  <2> QED  BY <2>1
<1>4. PICK v \in 0 .. c - 1 : q = c * u + v
  BY <1>3
<1>5. PICK m \in Nat : m = b * c /\ m > 0
  <2>1. b * c \in Nat /\ b * c > 0
    BY SMT
  <2> QED  BY <2>1
<1>6. b * q = u * m + b * v /\ b * v \in Nat /\ b * v <= m - b
  <2>1. b * q = b * (c * u) + b * v
    BY <1>4, SMT
  <2>2. b * (c * u) = u * (b * c)
    BY SMT
  <2>3. b * v \in Nat /\ b * v <= b * (c - 1) /\ b * (c - 1) = b * c - b
    BY SMT
  <2> QED  BY <2>1, <2>2, <2>3, <1>5
<1>7. a = u * m + (b * v + r) /\ b * v + r \in 0 .. m - 1
  <2>1. PICK x \in Nat : x = b * v
    BY <1>6
  <2>2. PICK y \in Nat : y = u * m
    BY <1>5
  <2> QED  BY <2>1, <2>2, <1>2, <1>6
<1>8. a \div m = u
  BY <1>7, <1>5, DivIs
<1> QED  BY <1>1, <1>3, <1>5, <1>8

\* Shifting a two-word integer to the right divides it.
LEMMA ShiftPair ==
    ASSUME Width, NEW s \in Pair, NEW i, NEW p \in Nat, p > 0, 2^i = p,
           NEW r, r = modredc15ul_intshr(s, i)
    PROVE  r \in Pair /\ Val(r) = Val(s) \div p /\ r[2] = s[2] \div p
<1>1. s[1] \in Nat /\ s[2] \in Nat /\ s[1] < W /\ Val(s) = s[1] + W * s[2] /\ Val(s) \in Nat
      /\ Val(s) < W * W /\ W \in Nat /\ W > 0
  BY ValRange, WordSize, WordInt
<1>2. Val(s) \div W = s[2]
  <2>1. s[1] \in 0 .. W - 1 /\ Val(s) = s[2] * W + s[1]
    BY <1>1
  <2> QED  BY <2>1, <1>1, DivIs
<1>3. PICK x \in Nat : x = Val(s) \div p
  BY <1>1, DivDiv
<1>4. x \div W = s[2] \div p
  <2>1. x \div W = Val(s) \div (p * W)
    BY <1>1, <1>3, DivDiv
  <2>2. s[2] \div p = Val(s) \div (W * p)
    BY <1>1, <1>2, DivDiv
  <2>3. p * W = W * p
    BY <1>1
  <2> QED  BY <2>1, <2>2, <2>3
<1>5. s[2] \div p \in Nat /\ s[2] \div p <= s[2]
  BY <1>1, DivMod
<1>6. s[2] \div p \in Word /\ x % W \in Word
  <2>1. s[2] < W
    BY ValRange, WordInt
  <2>2. x % W \in 0 .. W - 1
    BY <1>1, <1>3, DivMod
  <2> QED  BY <2>1, <2>2, <1>1, <1>5, WordInt DEF Word
<1>7. r = <<x % W, s[2] \div p>>
  BY <1>1, <1>3 DEF modredc15ul_intshr, ularith_shrd
<1>8. r \in Pair /\ Val(r) = (x % W) + W * (s[2] \div p) /\ r[2] = s[2] \div p
  BY <1>6, <1>7, PairIs
<1>9. x = W * (x \div W) + (x % W)
  BY <1>1, <1>3, DivMod
<1>10. Val(r) = x
  <2>1. x % W \in Nat
    BY <1>6, WordInt
  <2>2. PICK z : z = W * (x \div W)
    OBVIOUS
  <2>3. z \in Nat
    BY <2>2, <1>4, <1>5, <1>1
  <2> QED  BY <2>1, <2>2, <2>3, <1>4, <1>8, <1>9
<1> QED  BY <1>3, <1>8, <1>10

\* clz: shifted by that much, a word has its top bit set and loses none.
LEMMA ClzRight ==
    ASSUME Width, PowersOfTwo, NEW a \in Word, a # 0, NEW c, c = ularith_clz(a)
    PROVE  /\ c \in 0 .. LONG_BIT - 1
           /\ 2^(LONG_BIT - c) \in Nat /\ a < 2^(LONG_BIT - c) /\ 2^(LONG_BIT - c) <= 2 * a
<1> PICK L : L = LONG_BIT
  OBVIOUS
<1>2. L \in Nat /\ L >= 4 /\ a \in Nat /\ a > 0 /\ a < W /\ W \in Nat /\ W > 0
  <2>1. L \in Nat /\ L >= 4
    BY BitsInt
  <2>2. a \in Nat /\ a < W
    BY WordInt
  <2>3. W \in Nat /\ W > 0
    BY WordSize
  <2> QED  BY <2>1, <2>2, <2>3
<1>1. PICK e \in [0 .. 2 * L -> Nat] :
              /\ \A i \in 0 .. 2 * L : e[i] = 2^i
              /\ e[0] = 1
              /\ \A i \in 1 .. 2 * L : e[i] = 2 * e[i - 1]
              /\ \A i \in 0 .. L : e[i] * e[L - i] = W
  BY PowersAre
<1>3. PICK H \in Nat : W = 2 * H /\ W \div 2 = H /\ H > 0
  <2>1. PICK h \in Nat : W = 4 * h
    <3>1. PICK h \in Nat : W = 4 * (h * HalfW)
      BY WordSize
    <3>2. h * HalfW \in Nat
      BY WordSize
    <3> QED  BY <3>1, <3>2
  <2>2. 2 * h \in Nat /\ W = 2 * (2 * h) /\ W \div 2 = 2 * h /\ 2 * h > 0
    BY <2>1, <1>2
  <2> QED  BY <2>2
<1>4. \A i \in 0 .. L : e[i] \in Nat /\ e[i] = 2^i /\ a * e[i] \in Nat
  <2> SUFFICES ASSUME NEW i \in 0 .. L
               PROVE  e[i] \in Nat /\ e[i] = 2^i /\ a * e[i] \in Nat
    OBVIOUS
  <2>1. i \in 0 .. 2 * L
    BY <1>2
  <2>2. e[i] \in Nat /\ e[i] = 2^i
    BY <1>1, <2>1
  <2>3. a * e[i] \in Nat
    BY <1>2, <2>2
  <2> QED  BY <2>2, <2>3
<1>21. \A i \in 0 .. L : i # 0 => e[i] = 2 * e[i - 1] /\ i - 1 \in 0 .. L
  <2> SUFFICES ASSUME NEW i \in 0 .. L, i # 0 PROVE e[i] = 2 * e[i - 1] /\ i - 1 \in 0 .. L
    OBVIOUS
  <2>1. i \in 1 .. 2 * L /\ i - 1 \in 0 .. L
    BY <1>2
  <2> QED  BY <2>1, <1>1
<1>5. e[L] = W
  <2>1. 0 \in 0 .. L /\ L - 0 = L /\ L \in 0 .. L
    BY <1>2
  <2>2. e[0] * e[L] = W
    BY <1>1, <2>1
  <2> QED  BY <2>1, <2>2, <1>1, <1>4
<1> PICK T : T = {i \in 0 .. L - 1 : H <= a * e[i]}
  OBVIOUS
<1>6. L - 1 \in T
  <2>1. L \in 0 .. L /\ L # 0 /\ L - 1 \in 0 .. L - 1
        /\ L - 1 \in 0 .. L
    BY <1>2
  <2>2. e[L] = 2 * e[L - 1]
    BY <1>21, <2>1
  <2>5. e[L - 1] \in Nat
    BY <1>4, <2>1
  <2>3. e[L - 1] = H
    BY <2>2, <2>5, <1>3, <1>5
  <2>4. H <= a * H
    BY <1>2, <1>3, SMT
  <2> QED  BY <2>1, <2>3, <2>4
<1>7. T \in SUBSET Nat /\ T # {}
  BY <1>2, <1>6
<1>8. PICK i \in T : \A j \in T : i <= j
  BY <1>7, LeastNumber
<1>9. i \in 0 .. L - 1 /\ i \in 0 .. L /\ H <= a * e[i]
  BY <1>2
<1> PICK x : x = a * e[i]
  OBVIOUS
<1>10. x \in Nat /\ x < 2 * H
  <2>1. x \in Nat
    BY <1>4, <1>9
  <2>2. CASE i = 0
    BY <2>2, <1>1, <1>2, <1>3
  <2>3. CASE i # 0
    <3>1. i - 1 \in 0 .. L - 1 /\ i - 1 < i /\ i - 1 \in 0 .. L
      BY <1>2, <1>9, <2>3
    <3>2. i - 1 \notin T
      BY <1>8, <3>1, <1>9, <1>2
    <3>5. e[i] = 2 * e[i - 1]
      BY <1>21, <1>9, <2>3
    <3>6. e[i - 1] \in Nat /\ a * e[i - 1] \in Nat
      BY <1>4, <3>1
    <3>3. a * e[i - 1] < H /\ e[i] = 2 * e[i - 1] /\ e[i - 1] \in Nat
      BY <3>1, <3>2, <3>5, <3>6, <1>3
    <3>4. a * (2 * e[i - 1]) = 2 * (a * e[i - 1]) /\ a * e[i - 1] \in Nat
      BY <3>6, <1>2, SMT
    <3> QED  BY <3>3, <3>4, <1>3
  <2> QED  BY <2>1, <2>2, <2>3
<1>11. x \div H = 1
  <2>1. x - H \in 0 .. H - 1 /\ x = 1 * H + (x - H)
    BY <1>3, <1>9, <1>10
  <2> QED  BY <2>1, <1>3, <1>10, DivIs
<1>12. (a * 2^i) \div (W \div 2) = 1
  <2>1. e[i] = 2^i
    BY <1>4, <1>9
  <2> QED  BY <2>1, <1>11, <1>3
<1>13. c \in 0 .. L - 1 /\ (a * 2^c) \div (W \div 2) = 1
  BY <1>12, <1>9 DEF ularith_clz
<1>14. c \in 0 .. L /\ L - c \in 0 .. L
  <2>1. c \in 0 .. L - 1
    BY <1>13
  <2> QED  BY SMTT(30), <2>1, <1>2
<1> PICK y : y = a * e[c]
  OBVIOUS
<1>15. y \in Nat /\ y \div H = 1
  <2>1. e[c] = 2^c /\ a * e[c] \in Nat
    BY <1>4, <1>14
  <2>2. (a * 2^c) \div (W \div 2) = 1
    BY <1>13
  <2> QED  BY <2>1, <2>2, <1>3
<1>16. H <= y /\ y < W
  <2>1. y = H * (y \div H) + (y % H) /\ y % H \in 0 .. H - 1
    BY <1>15, <1>3, DivMod
  <2>2. H * (y \div H) = H
    BY <1>3, <1>15
  <2>3. PICK r \in 0 .. H - 1 : r = y % H
    BY <2>1
  <2>4. y = H + r
    BY <2>1, <2>2, <2>3
  <2> QED  BY <2>4, <1>3
<1>17. PICK p \in Nat : p = e[L - c] /\ p = 2^(L - c)
  <2>1. e[L - c] \in Nat /\ e[L - c] = 2^(L - c)
    BY <1>4, <1>14
  <2> QED  BY <2>1
<1>18. PICK s \in Nat : s = e[c] /\ s * p = W
  <2>1. e[c] \in Nat
    BY <1>4, <1>14
  <2>2. e[c] * e[L - c] = W
    BY <1>1, <1>14
  <2> QED  BY <2>1, <2>2, <1>17
<1>19. a * s < s * p /\ s * p <= 2 * (a * s)
  BY <1>16, <1>18, <1>3
<1>20. a < p /\ p <= 2 * a
  <2>1. s > 0
    BY <1>18, <1>2, SMT
  <2>2. a >= p => a * s >= s * p
    BY <1>2, SMT
  <2>3. p > 2 * a => s * p > 2 * (a * s)
    BY <2>1, <1>2, SMT
  <2>4. a * s \in Nat /\ s * p \in Nat
    BY <1>2
  <2> QED  BY <2>2, <2>3, <2>4, <1>19, <1>2
<1> QED  BY <1>13, <1>17, <1>20

\* The shift intmod takes brings the top bit of the divisor to the top of a word.
LEMMA NormalShift ==
    ASSUME Width, PowersOfTwo, NEW d \in Pair, d[2] # 0,
           NEW h, h = modredc15ul_intshr(d, 1),
           NEW i, i = IF h[2] = 0 THEN 0 ELSE LONG_BIT - ularith_clz(h[2])
    PROVE  /\ h \in Pair /\ 2^1 = 2
           /\ \E p \in Nat : /\ 2^i = p /\ p > 0
                             /\ p = 1 \/ p >= 2
                             /\ d[2] < 2 * p /\ p <= d[2]
<1>1. 2^1 = 2 /\ 2^0 = 1
  <2>1. 1 \in 1 .. 2 * LONG_BIT /\ 1 - 1 = 0
    BY BitsInt
  <2>2. 2^1 = 2 * 2^(1 - 1) /\ 2^0 = 1
    BY <2>1 DEF PowersOfTwo
  <2> QED  BY <2>1, <2>2
<1>2. h \in Pair /\ h[2] = d[2] \div 2 /\ h[2] \in Word
  <2>1. h \in Pair /\ h[2] = d[2] \div 2
    <3> PICK j : j = 1
      OBVIOUS
    <3>1. PICK p \in Nat : p = 2 /\ p > 0 /\ 2^j = p
      BY <1>1
    <3>2. h \in Pair /\ h[2] = d[2] \div p
      BY <3>1, ShiftPair
    <3> QED  BY <3>1, <3>2
  <2> QED  BY <2>1, ValRange
<1>3. d[2] \in Nat /\ h[2] \in Nat
  BY <1>2, ValRange, WordInt
<1>4. d[2] = 2 * h[2] \/ d[2] = 2 * h[2] + 1
  BY <1>2, <1>3
<1>5. CASE h[2] = 0
  <2>1. i = 0 /\ d[2] = 1
    BY <1>3, <1>4, <1>5
  <2> QED  BY <2>1, <1>1, <1>2
<1>6. CASE h[2] # 0
  <2>1. i = LONG_BIT - ularith_clz(h[2])
    BY <1>6
  <2>2. PICK p \in Nat : p = 2^i /\ h[2] < p /\ p <= 2 * h[2]
    <3>1. 2^i \in Nat /\ h[2] < 2^i /\ 2^i <= 2 * h[2]
      BY <2>1, <1>2, <1>6, ClzRight
    <3> QED  BY <3>1
  <2>3. p > 0 /\ p >= 2 /\ d[2] < 2 * p /\ p <= d[2]
    BY <2>2, <1>3, <1>4, <1>6
  <2> QED  BY <2>2, <2>3, <1>1, <1>2
<1> QED  BY <1>5, <1>6

\* The estimate from the top word of the divisor: at most one too large.
LEMMA Estimate ==
    ASSUME NEW w \in Nat, w >= 16, NEW u \in Nat, w = 2 * u, NEW P \in Nat, P = 2 \/ P >= 4,
           NEW d \in Nat, d > w, d < w * P, w * P <= 2 * d,
           NEW N \in Nat, ((N \div d) + 1) * d < w * w
    PROVE  /\ d \div P \in Nat /\ d \div P < w /\ u <= d \div P
           /\ \E q \in Nat : /\ q = (N \div P) \div (d \div P)
                             /\ q = N \div d \/ q = (N \div d) + 1
           /\ N \div d \in Nat /\ (N \div d) + 1 < w
<1>1. PICK D \in Nat : D = d \div P /\ \E r \in 0 .. P - 1 : d = P * D + r
  BY DivMod
<1>2. PICK r \in 0 .. P - 1 : d = P * D + r
  BY <1>1
<1>3. PICK Q \in Nat : Q = N \div d /\ \E s \in 0 .. d - 1 : N = d * Q + s
  BY DivMod
<1>4. PICK s \in 0 .. d - 1 : N = d * Q + s
  BY <1>3
<1>5. PICK E \in Nat : E = P * D /\ d = E + r
  <2>1. P * D \in Nat
    OBVIOUS
  <2> QED  BY <2>1, <1>2
<1>6. D < w
  <2>1. D >= w => P * D >= w * P
    BY SMT
  <2> QED  BY <2>1, <1>5
<1>7. u <= D
  <2>1. SUFFICES ASSUME D + 1 <= u PROVE FALSE
    OBVIOUS
  <2>2. P * (D + 1) <= P * u
    BY <2>1, SMT
  <2>3. P * (D + 1) = E + P /\ w * P = 2 * (P * u)
    BY <1>5, SMT
  <2>4. P * u \in Nat
    OBVIOUS
  <2> QED  BY <2>2, <2>3, <2>4, <1>5, <1>2
<1>8. D > 0 /\ E > 0
  <2>1. D > 0
    BY <1>7
  <2>2. P * D >= D
    BY <2>1, SMT
  <2> QED  BY <2>1, <2>2, <1>5
<1>9. PICK q \in Nat : q = (N \div P) \div D /\ \E t \in 0 .. E - 1 : N = E * q + t
  <2>1. (N \div P) \div D = N \div E
    BY <1>5, <1>8, DivDiv
  <2>2. N \div E \in Nat /\ N % E \in 0 .. E - 1 /\ N = E * (N \div E) + (N % E)
    BY <1>8, DivMod
  <2> QED  BY <2>1, <2>2
<1>10. PICK t \in 0 .. E - 1 : N = E * q + t
  BY <1>9
<1>11. (Q + 1) * d < w * w
  BY <1>3
<1>12. Q + 1 < w
  <2>1. Q + 1 >= w => (Q + 1) * d >= w * w
    BY SMT
  <2>2. (Q + 1) * d \in Nat /\ w * w \in Nat
    OBVIOUS
  <2> QED  BY <2>1, <2>2, <1>11
<1>13. (Q + 1) * P < 2 * w
  <2>1. (Q + 1) * (w * P) <= (Q + 1) * (2 * d)
    BY SMT
  <2>2. (Q + 1) * (2 * d) = 2 * ((Q + 1) * d) /\ (Q + 1) * (w * P) = w * ((Q + 1) * P)
    BY SMT
  <2>3. PICK x \in Nat : x = (Q + 1) * P
    OBVIOUS
  <2>4. w * x < 2 * (w * w)
    BY <2>1, <2>2, <2>3, <1>11, SMT
  <2>5. x >= 2 * w => w * x >= 2 * (w * w)
    BY <2>3, SMT
  <2>6. w * x \in Nat /\ w * w \in Nat
    OBVIOUS
  <2> QED  BY <2>3, <2>4, <2>5, <2>6
<1>14. (Q + 2) * (P - 1) <= d
  <2>1. CASE P = 2
    BY <2>1, <1>12
  <2>2. CASE P >= 4 /\ Q = 0
    <3>1. w * P >= 16 * P
      BY SMT
    <3> QED  BY <3>1, <2>2
  <2>3. CASE P >= 4 /\ Q >= 1
    <3>1. PICK x \in Nat : x = (Q + 1) * P
      OBVIOUS
    <3>2. (Q + 2) * (P - 1) = x + P - Q - 2
      BY <3>1, SMT
    <3>3. PICK y \in Nat : y = w * P
      OBVIOUS
    <3>4. y >= 4 * w + 2 * P - 8
      <4>1. PICK a \in Nat, b \in Nat : w = a + 2 /\ P = b + 4
        <5>1. w - 2 \in Nat /\ P - 4 \in Nat /\ w = (w - 2) + 2 /\ P = (P - 4) + 4
          BY <2>3
        <5> QED  BY <5>1
      <4>2. (a + 2) * (b + 4) = a * b + 4 * a + 2 * b + 8 /\ a * b \in Nat
        BY SMT
      <4> QED  BY <4>1, <4>2, <3>3
    <3>5. x <= 2 * w - 1
      BY <3>1, <1>13
    <3> QED  BY <3>2, <3>3, <3>4, <3>5, <2>3
  <2> QED  BY <2>1, <2>2, <2>3
<1>15. Q <= q
  <2>1. q + 1 <= Q => d * (q + 1) <= d * Q
    BY SMT
  <2>2. E * (q + 1) <= d * (q + 1) /\ E * (q + 1) = E * q + E
    BY <1>5, SMT
  <2>3. d * (q + 1) \in Nat /\ d * Q \in Nat /\ E * q \in Nat /\ E * (q + 1) \in Nat
    OBVIOUS
  <2> QED  BY <2>1, <2>2, <2>3, <1>4, <1>10
<1>16. q <= Q + 1
  <2>1. SUFFICES ASSUME q >= Q + 2 PROVE FALSE
    OBVIOUS
  <2>2. E * (Q + 2) <= E * q
    BY <2>1, SMT
  <2>3. PICK v \in Nat : v = (Q + 2) * r /\ v <= (Q + 2) * (P - 1)
    <3>1. (Q + 2) * r \in Nat /\ (Q + 2) * r <= (Q + 2) * (P - 1)
      BY SMT
    <3> QED  BY <3>1
  <2>4. E * (Q + 2) = (d * Q + 2 * d) - v
    <3>1. (d - r) * (Q + 2) = (d * Q + 2 * d) - (Q + 2) * r
      BY SMT
    <3> QED  BY <3>1, <2>3, <1>5
  <2>5. d * Q \in Nat /\ E * q \in Nat /\ E * (Q + 2) \in Nat
    OBVIOUS
  <2> QED  BY <2>2, <2>3, <2>4, <2>5, <1>4, <1>10, <1>14
<1>17. q = Q \/ q = Q + 1
  BY <1>15, <1>16
<1> QED  BY <1>1, <1>3, <1>6, <1>7, <1>9, <1>12, <1>17

\* What such a shift leaves of the value, with the power of two as it stands.
LEMMA ShiftValue ==
    ASSUME Width, NEW s \in Pair, NEW i, 2^i \in Nat, 2^i > 0
    PROVE  /\ modredc15ul_intshr(s, i) \in Pair
           /\ Val(modredc15ul_intshr(s, i)) = Val(s) \div 2^i
<1> PICK p \in Nat : p = 2^i /\ p > 0
  OBVIOUS
<1> QED  BY ShiftPair

\* The product of a quotient word and a two-word divisor that does not overflow.
LEMMA TimesWord ==
    ASSUME Width, NEW d \in Pair, NEW q \in Word, q * Val(d) < W * W,
           NEW p, p = ularith_mul_ul_ul_2ul(q, d[1]),
           NEW r, r = <<p[1], (p[2] + q * d[2]) % W>>
    PROVE  r \in Pair /\ Val(r) = q * Val(d)
<1>1. d[1] \in Word /\ d[1] \in Nat /\ d[2] \in Nat /\ q \in Nat /\ W \in Nat /\ W > 0
      /\ Val(d) = d[1] + W * d[2]
  BY ValRange, WordInt, WordSize
<1>2. p \in Pair /\ Val(p) = q * d[1]
  BY <1>1, MulWords
<1>3. p[1] \in Word /\ p[1] \in Nat /\ p[2] \in Nat /\ Val(p) = p[1] + W * p[2]
  BY <1>2, ValRange
<1>4. PICK g \in Nat : g = q * d[2]
  BY <1>1
<1>5. q * Val(d) = p[1] + W * (p[2] + g)
  <2>1. q * (d[1] + W * d[2]) = q * d[1] + W * (q * d[2])
    BY <1>1, SMT
  <2>2. W * (p[2] + g) = W * p[2] + W * g
    BY <1>1, <1>3, SMT
  <2>3. W * p[2] \in Nat /\ W * g \in Nat
    BY <1>1, <1>3
  <2> QED  BY <2>1, <2>2, <2>3, <1>1, <1>2, <1>3, <1>4
<1>6. PICK h \in Nat : h = p[2] + g
  BY <1>3
<1>7. h < W
  <2>1. p[1] + W * h < W * W
    BY <1>5, <1>6
  <2>2. SUFFICES ASSUME h >= W PROVE FALSE
    BY <1>1
  <2>3. W \in Nat /\ p[1] \in Nat /\ h \in Int
    BY <1>1, <1>3
  <2> QED  BY <2>1, <2>2, <2>3, HighBelow, Zenon
<1>8. h \in Word /\ h % W = h
  BY <1>7, WordInt
<1>9. r = <<p[1], h>>
  BY <1>4, <1>6, <1>8
<1> QED  BY <1>3, <1>5, <1>6, <1>8, <1>9, PairIs

\* intmod, for a divisor of two words and a quotient that leaves room.
LEMMA IntModRight ==
    ASSUME Width, PowersOfTwo, NEW n \in Pair, NEW d \in Pair, Val(d) > W,
           ((Val(n) \div Val(d)) + 1) * Val(d) < W * W
    PROVE  modredc15ul_intmod(n, d) \in Pair
           /\ Val(modredc15ul_intmod(n, d)) = Val(n) % Val(d)
<1>1. PICK w \in Nat : w = W /\ w >= 16 /\ \E u \in Nat : w = 2 * u
  <2>1. W \in Nat /\ W >= 16 /\ \E h \in Nat : W = 4 * (h * HalfW) /\ h * HalfW \in Nat
    BY WordSize
  <2>2. PICK g \in Nat : W = 4 * g
    BY <2>1
  <2>3. 2 * g \in Nat /\ W = 2 * (2 * g)
    BY <2>2
  <2> QED  BY <2>1, <2>3
<1>2. PICK u \in Nat : w = 2 * u
  BY <1>1
<1>3. PICK N \in Nat : N = Val(n)
  BY ValRange
<1>4. PICK D \in Nat : D = Val(d) /\ D > w
  BY ValRange, <1>1
<1>5. d[1] \in Nat /\ d[2] \in Nat /\ d[1] < w /\ D = d[1] + w * d[2]
  BY <1>1, <1>4, ValRange, WordInt
<1>6. d[2] # 0
  <2>1. d[2] = 0 => w * d[2] = 0
    BY <1>1
  <2> QED  BY <2>1, <1>4, <1>5
<1> PICK h : h = modredc15ul_intshr(d, 1)
  OBVIOUS
<1> PICK i : i = IF h[2] = 0 THEN 0 ELSE LONG_BIT - ularith_clz(h[2])
  OBVIOUS
<1>7. /\ h \in Pair /\ 2^1 = 2
      /\ \E p \in Nat : /\ 2^i = p /\ p > 0
                        /\ p = 1 \/ p >= 2
                        /\ d[2] < 2 * p /\ p <= d[2]
  BY <1>6, NormalShift
<1>8. PICK p \in Nat : /\ 2^i = p /\ p > 0
                       /\ p = 1 \/ p >= 2
                       /\ d[2] < 2 * p /\ p <= d[2]
  BY <1>7
<1>9. PICK P \in Nat : P = 2 * p /\ (P = 2 \/ P >= 4) /\ P > 0
  BY <1>8
<1>10. D < w * P /\ w * P <= 2 * D
  <2>1. w * (d[2] + 1) <= w * P /\ w * (d[2] + 1) = w * d[2] + w
    BY <1>5, <1>8, <1>9, SMT
  <2>2. w * p <= w * d[2] /\ w * P = 2 * (w * p)
    BY <1>5, <1>8, <1>9, SMT
  <2>3. w * d[2] \in Nat /\ w * p \in Nat
    BY <1>5
  <2> QED  BY <2>1, <2>2, <2>3, <1>5
\* A shift by one and then by i is a division by P.
<1>11. ASSUME NEW a \in Pair
       PROVE  /\ modredc15ul_intshr(modredc15ul_intshr(a, 1), i) \in Pair
              /\ Val(modredc15ul_intshr(modredc15ul_intshr(a, 1), i)) = Val(a) \div P
  <2> PICK j : j = 1
    OBVIOUS
  <2>1. PICK two \in Nat : two = 2 /\ two > 0 /\ 2^j = two
    BY <1>7
  <2> PICK b : b = modredc15ul_intshr(a, j)
    OBVIOUS
  <2>2. b \in Pair /\ Val(b) = Val(a) \div two
    <3>1. 2^j \in Nat /\ 2^j > 0
      BY <2>1
    <3> QED  BY <3>1, <2>1, ShiftValue
  <2> PICK c : c = modredc15ul_intshr(b, i)
    OBVIOUS
  <2>3. c \in Pair /\ Val(c) = Val(b) \div p
    <3>1. 2^i \in Nat /\ 2^i > 0
      BY <1>8
    <3> QED  BY <3>1, <2>2, <1>8, ShiftValue
  <2>4. (Val(a) \div two) \div p = Val(a) \div (two * p)
    BY ValRange, <2>1, <1>8, DivDiv
  <2>5. two * p = P
    BY <2>1, <1>9
  <2> QED  BY <2>2, <2>3, <2>4, <2>5
<1> PICK x : x = modredc15ul_intshr(modredc15ul_intshr(n, 1), i)
  OBVIOUS
<1> PICK y : y = modredc15ul_intshr(h, i)
  OBVIOUS
<1>12. x \in Pair /\ Val(x) = N \div P /\ y \in Pair /\ Val(y) = D \div P
  BY <1>3, <1>4, <1>11
<1>13. ((N \div D) + 1) * D < w * w
  BY <1>1, <1>3, <1>4
<1>14. /\ D \div P \in Nat /\ D \div P < w /\ u <= D \div P
       /\ \E q \in Nat : /\ q = (N \div P) \div (D \div P)
                         /\ q = N \div D \/ q = (N \div D) + 1
       /\ N \div D \in Nat /\ (N \div D) + 1 < w
  <2>1. w >= 16 /\ w = 2 * u /\ (P = 2 \/ P >= 4) /\ D > w /\ D < w * P /\ w * P <= 2 * D
    BY <1>1, <1>2, <1>4, <1>9, <1>10
  <2> QED  BY <2>1, <1>13, Estimate, Zenon
<1>15. y[1] = D \div P
  <2>1. y[1] \in Nat /\ y[2] \in Nat /\ Val(y) = y[1] + w * y[2]
    BY <1>1, <1>12, ValRange
  <2>2. y[2] > 0 => w * y[2] >= w
    BY <2>1, SMT
  <2>3. w * y[2] \in Nat /\ (y[2] = 0 => w * y[2] = 0)
    BY <2>1
  <2> QED  BY <2>1, <2>2, <2>3, <1>12, <1>14
<1>16. PICK Q \in Nat : Q = N \div D /\ Q + 1 < w
  BY <1>14
<1>17. PICK q \in Nat : q = Val(x) \div y[1] /\ (q = Q \/ q = Q + 1)
  BY <1>12, <1>14, <1>15, <1>16
<1>18. PICK r \in 0 .. D - 1 : N = D * Q + r /\ r = N % D
  BY <1>4, <1>16, DivMod
<1>19. PICK A \in Nat, C \in Nat : A = Q * D /\ C = q * D /\ (C = A \/ C = A + D) /\ N = A + r /\ A + D < w * w
  <2>1. Q * D \in Nat /\ q * D \in Nat /\ D * Q = Q * D /\ (Q + 1) * D = Q * D + D
    BY SMT
  <2> QED  BY <2>1, <1>13, <1>16, <1>17, <1>18
<1> PICK f : f = ularith_mul_ul_ul_2ul(q, d[1])
  OBVIOUS
<1> PICK e : e = <<f[1], (f[2] + q * d[2]) % W>>
  OBVIOUS
<1>20. e \in Pair /\ Val(e) = C
  <2>1. q \in Word
    BY SMTT(30), <1>1, <1>16, <1>17, WordInt
  <2>2. w * w \in Nat
    OBVIOUS
  <2>3. q * Val(d) < W * W
    BY <2>2, <1>1, <1>4, <1>19
  <2> QED  BY <2>1, <2>3, <1>4, <1>19, TimesWord
<1> PICK fit : fit = IF modredc15ul_intlt(n, e) THEN modredc15ul_intsub(e, d) ELSE e
  OBVIOUS
<1>21. modredc15ul_intmod(n, d) = modredc15ul_intsub(n, fit)
  BY <1>6, <1>17 DEF modredc15ul_intmod, ularith_div_2ul_ul_ul
<1>22. fit \in Pair /\ Val(fit) = A
  <2>1. CASE C = A
    <3>1. ~(Val(n) < Val(e))
      BY <2>1, <1>3, <1>19, <1>20
    <3>2. fit = e
      BY <3>1 DEF modredc15ul_intlt
    <3> QED  BY <3>2, <2>1, <1>20
  <2>2. CASE C = A + D
    <3>1. Val(n) < Val(e)
      BY <2>2, <1>3, <1>19, <1>20
    <3>2. fit = ularith_sub_2ul_2ul(e, d)
      BY <3>1 DEF modredc15ul_intlt, modredc15ul_intsub
    <3>3. Val(e) >= Val(d)
      BY <2>2, <1>4, <1>19, <1>20
    <3>4. fit \in Pair /\ Val(fit) = Val(e) - Val(d)
      BY <3>2, <3>3, <1>20, SubPairsHigh
    <3> QED  BY <3>4, <2>2, <1>4, <1>19, <1>20
  <2> QED  BY <2>1, <2>2, <1>19
<1>23. modredc15ul_intmod(n, d) \in Pair /\ Val(modredc15ul_intmod(n, d)) = N - A
  <2>1. Val(n) >= Val(fit)
    BY <1>3, <1>19, <1>22
  <2>2. modredc15ul_intmod(n, d) = ularith_sub_2ul_2ul(n, fit)
    BY <1>21 DEF modredc15ul_intsub
  <2> QED  BY <2>1, <2>2, <1>3, <1>22, SubPairsHigh
<1> QED  BY <1>3, <1>4, <1>18, <1>19, <1>23

\* What the proofs below use of a modulus of two words.
LEMMA TwoModulus ==
    ASSUME Width, NEW k \in TwoWords, NEW n \in ModuliOf(k), NEW m, m = initmod(k, n)
    PROVE  /\ k \in Kinds /\ Radix(k) = W * W
           /\ n \in Nat /\ n \in Int /\ n > W /\ n > 1 /\ 2 * n <= W * W /\ n < W * W
           /\ W \in Nat /\ W >= 16 /\ W * W \in Nat
           /\ m.m \in Pair /\ Val(m.m) = n
           /\ m.one = modredc15ul_intmod(modredc15ul_intsub(<<0, 0>>, m.m), m.m)
<1>1. k \in Kinds /\ (k = "redc15ul" \/ k = "redc2ul2")
  BY DEF TwoWords, Kinds
<1>2. W \in Nat /\ W >= 16 /\ W * W \in Nat
  <2>1. W \in Nat /\ W >= 16
    BY WordSize
  <2> QED  BY <2>1, SMT
<1>3. n \in Nat /\ n > 1 /\ 2 * n <= W * W /\ n < W * W
  BY <1>1, ModulusIs
<1>4. n > W
  <2>1. n >= W + 1
    BY <1>1, <1>2, <1>3 DEF ModuliOf
  <2> QED  BY <2>1, <1>2, <1>3, SMT
<1>5. m.m \in Pair /\ Val(m.m) = n
  BY <1>1, TwoWordModulus
<1>6. PICK p : p = OfVal(n)
  OBVIOUS
<1>7. m = modredc15ul_initmod_uls(p)
  <2>1. CASE k = "redc15ul"
    BY <2>1, <1>6 DEF initmod
  <2>2. CASE k = "redc2ul2"
    BY <2>2, <1>6 DEF initmod, modredc2ul2_initmod_uls
  <2> QED  BY <2>1, <2>2, <1>1
<1>8. m.m = p /\ m.one = modredc15ul_intmod(modredc15ul_intsub(<<0, 0>>, p), p)
  BY <1>7 DEF modredc15ul_initmod_uls
<1>9. n \in Int /\ Radix(k) = W * W
  <2>1. n \in Int
    BY <1>3, SMT
  <2> QED  BY <2>1, <1>1, KindIs
<1> QED  BY <1>1, <1>2, <1>3, <1>4, <1>5, <1>8, <1>9

\* What stands for x in two words.
LEMMA TwoStands ==
    ASSUME Width, NEW k \in TwoWords, NEW n \in Nat, NEW r \in Pair, Val(r) \in 0 .. n - 1,
           NEW x \in Int, Cong(Val(r), x * (W * W), n)
    PROVE  Stands(k, r, x, n)
<1>1. k \in Kinds
  BY DEF TwoWords, Kinds
<1>2. Radix(k) = W * W /\ Stored(k, r) = Val(r)
  BY <1>1, KindIs, StoredIs
<1> QED  BY <1>2 DEF Stands, IsFormat

\* Entering Montgomery form.
LEMMA EnterTwo ==
    ASSUME Width, PowersOfTwo, NEW k \in TwoWords, NEW n \in ModuliOf(k),
           NEW m, m = initmod(k, n), NEW s \in Pair, Val(s) < n,
           NEW x \in Int, Cong(Val(s), x, n)
    PROVE  Stands(k, modredc15ul_tomontgomery(s, m), x, n)
<1>1. /\ n \in Nat /\ n \in Int /\ n > 1 /\ 2 * n <= W * W
      /\ m.m \in Pair /\ Val(m.m) = n
  BY TwoModulus
<1>2. PICK r : r = modredc15ul_tomontgomery(s, m)
  OBVIOUS
<1>3. PICK p : p = m.m
  OBVIOUS
<1>4. p \in Pair /\ Val(p) > 0 /\ 2 * Val(p) <= W * W /\ Val(s) < Val(p)
  <2>1. n > 0
    BY <1>1, SMT
  <2> QED  BY <2>1, <1>1, <1>3
<1>5. r \in Pair /\ Val(r) = (Val(s) * (W * W)) % Val(p)
  BY <1>2, <1>3, <1>4, ToMontgomeryTwo
<1>6. PICK S, Q, R \in Int : S = Val(s) /\ Q = W * W /\ R = Val(r)
  <2>1. Val(s) \in Nat /\ Val(r) \in Nat
    BY <1>5, ValRange
  <2>2. W \in Nat
    BY WordSize
  <2>3. W * W \in Int /\ Val(s) \in Int /\ Val(r) \in Int
    BY <2>1, <2>2, SMT
  <2> QED  BY <2>3
<1>7. R = (S * Q) % n
  BY <1>1, <1>3, <1>5, <1>6
<1>8. S * Q \in Int /\ x * Q \in Int /\ n > 0
  BY <1>1, SMT
<1>9. Cong(R, S * Q, n) /\ R \in 0 .. n - 1
  BY <1>1, <1>7, <1>8, CongMod
<1>10. Cong(S * Q, x * Q, n)
  BY <1>1, <1>6, CongTimes
<1>11. Cong(R, x * Q, n)
  BY <1>1, <1>8, <1>9, <1>10, CongTrans
<1>12. Cong(Val(r), x * (W * W), n) /\ Val(r) \in 0 .. n - 1
  BY <1>6, <1>9, <1>11
<1> QED  BY <1>1, <1>2, <1>5, <1>12, TwoStands

\* A modulus that divides the radix, less itself, is 1.
LEMMA RadixRest ==
    ASSUME NEW Q \in Nat, NEW n \in Nat, n > 1, n < Q, NEW j \in Int, Cong(Q * j, 1, n)
    PROVE  /\ (Q - n) \div n \in Nat
           /\ (((Q - n) \div n) + 1) * n < Q
           /\ Cong((Q - n) % n, 1 * Q, n) /\ (Q - n) % n \in 0 .. n - 1
<1>1. PICK V \in Nat : V = Q - n
  BY SMT
<1>2. n > 0 /\ n \in Int /\ Q \in Int /\ V \in Int
  BY SMT
<1>3. PICK q, r \in Nat : q = V \div n /\ r = V % n /\ r \in 0 .. n - 1 /\ V = n * q + r
  BY <1>2, DivMod
<1>4. (q + 1) * n = Q - r
  <2>1. (q + 1) * n = n * q + n
    BY <1>2, SMT
  <2>2. PICK y \in Int : y = n * q
    BY <1>2, SMT
  <2>3. V = y + r
    BY <2>2, <1>3
  <2>4. y + n = Q - r
    BY <2>3, <1>1, <1>2, SMT
  <2> QED  BY <2>1, <2>2, <2>4
<1>5. r # 0
  <2> SUFFICES ASSUME r = 0 PROVE FALSE
    OBVIOUS
  <2>1. PICK l \in Int : Q * j = 1 + l * n
    BY DEF Cong
  <2>2. Q = (q + 1) * n
    BY <1>2, <1>4, SMT
  <2>3. ((q + 1) * n) * j = n * ((q + 1) * j)
    BY <1>2, SMT
  <2>4. PICK b \in Int : b = (q + 1) * j
    BY <1>2, SMT
  <2>5. n * b = 1 + l * n
    BY <2>1, <2>2, <2>3, <2>4
  <2>6. PICK c \in Int : c = b - l
    BY SMT
  <2>7. n * (b - l) = n * b - l * n
    BY <1>2, SMT
  <2>8. PICK e, f \in Int : e = n * b /\ f = l * n
    BY <1>2, SMT
  <2>9. n * c = e - f /\ e = 1 + f
    BY <2>5, <2>6, <2>7, <2>8
  <2>10. n * c = 1
    BY <2>9, SMT
  <2>11. CASE c >= 1
    <3>1. n * c >= n * 1
      BY <2>11, <1>2, SMT
    <3> QED  BY <3>1, <2>10, <1>2, SMT
  <2>12. CASE c <= 0
    <3>1. n * c <= 0
      BY <2>12, <1>2, SMT
    <3> QED  BY <3>1, <2>10, SMT
  <2> QED  BY <2>11, <2>12, SMT
<1>6. (q + 1) * n < Q
  <2>1. PICK y \in Int : y = (q + 1) * n
    BY <1>2, SMT
  <2>2. y = Q - r
    BY <2>1, <1>4
  <2>3. y < Q
    BY <2>2, <1>2, <1>5, SMT
  <2> QED  BY <2>1, <2>3
<1>7. Cong(r, Q, n)
  <2>1. Cong(r, V, n)
    BY <1>2, <1>3, CongMod
  <2>2. Cong(V, Q, n)
    BY <1>1, <1>2, Shifted
  <2>3. r \in Int
    BY SMT
  <2> QED  BY <2>1, <2>2, <2>3, <1>2, CongTrans
<1>8. 1 * Q = Q
  BY <1>2, SMT
<1> QED  BY <1>1, <1>3, <1>6, <1>7, <1>8

\* The field one of a modulus.
LEMMA OneTwo ==
    ASSUME Width, PowersOfTwo, NEW k \in TwoWords, NEW n \in ModuliOf(k),
           NEW m, m = initmod(k, n)
    PROVE  Stands(k, m.one, 1, n)
<1>1. /\ k \in Kinds /\ Radix(k) = W * W
      /\ n \in Nat /\ n \in Int /\ n > W /\ n > 1 /\ n < W * W
      /\ W \in Nat /\ W >= 16 /\ W * W \in Nat
      /\ m.m \in Pair /\ Val(m.m) = n
      /\ m.one = modredc15ul_intmod(modredc15ul_intsub(<<0, 0>>, m.m), m.m)
  BY TwoModulus
<1>2. PICK p \in Pair : p = m.m /\ Val(p) = n
  BY <1>1
<1>3. PICK Q \in Nat : Q = W * W
  BY <1>1
<1>4. PICK o \in Pair : o = <<0, 0>> /\ Val(o) = 0
  BY ZeroPair
<1>5. PICK d : d = ularith_sub_2ul_2ul_cy(o, p)
  OBVIOUS
<1>6. /\ d.r \in Pair /\ d.cy \in {0, 1}
      /\ Val(o) - Val(p) = Val(d.r) - d.cy * (W * W)
      /\ d.cy = 1 <=> Val(o) < Val(p)
  BY <1>5, SubPairs
<1>7. PICK z \in Pair : z = d.r /\ z = modredc15ul_intsub(o, p)
  BY <1>5, <1>6 DEF modredc15ul_intsub, ularith_sub_2ul_2ul
<1>8. Val(z) = Q - n
  <2>1. PICK V \in Nat : V = Val(z)
    BY ValRange
  <2>2. 0 < n
    BY <1>1, SMT
  <2>3. d.cy = 1
    BY <2>2, <1>2, <1>4, <1>6
  <2>4. 0 - n = V - 1 * Q
    BY <2>1, <2>3, <1>2, <1>3, <1>4, <1>6, <1>7
  <2>5. V = Q - n
    BY <2>4, <1>1, SMT
  <2> QED  BY <2>1, <2>5
<1>9. PICK j \in Int : Cong(Q * j, 1, n)
  BY <1>1, <1>3, RadixUnit
<1>10. /\ (((Q - n) \div n) + 1) * n < Q
       /\ Cong((Q - n) % n, 1 * Q, n) /\ (Q - n) % n \in 0 .. n - 1
  <2>1. n < Q
    BY <1>1, <1>3
  <2> QED  BY <2>1, <1>1, <1>9, RadixRest
<1>11. ((Val(z) \div Val(p)) + 1) * Val(p) < W * W /\ Val(p) > W
  BY <1>1, <1>2, <1>3, <1>8, <1>10
<1>12. PICK r : r = modredc15ul_intmod(z, p)
  OBVIOUS
<1>13. r \in Pair /\ Val(r) = Val(z) % Val(p)
  BY <1>11, <1>12, IntModRight
<1>14. Val(r) = (Q - n) % n
  BY <1>2, <1>8, <1>13
<1>15. Val(r) \in 0 .. n - 1 /\ Cong(Val(r), 1 * (W * W), n)
  BY <1>3, <1>10, <1>14
<1>16. m.one = r
  BY <1>1, <1>2, <1>4, <1>7, <1>12
<1>17. 1 \in Int
  BY SMT
<1> QED  BY <1>1, <1>13, <1>15, <1>16, <1>17, TwoStands

\* A word, and any pair that is below the modulus or whose quotient leaves room.
LEMMA SetTwo ==
    ASSUME Width, PowersOfTwo, NEW k \in TwoWords, NEW n \in ModuliOf(k),
           NEW m, m = initmod(k, n)
    PROVE  /\ \A s \in Word : Stands(k, modredc15ul_set_ul(s, m), s, n)
           /\ \A s \in Pair : Reducible(Val(s), n) =>
                 Stands(k, modredc15ul_set_uls(s, m), Val(s) % n, n)
<1>1. /\ n \in Nat /\ n \in Int /\ n > W /\ n > 1 /\ W \in Nat /\ W >= 16
      /\ m.m \in Pair /\ Val(m.m) = n
  BY TwoModulus
<1>2. n > 0
  BY <1>1, SMT
<1>3. ASSUME NEW s \in Word PROVE Stands(k, modredc15ul_set_ul(s, m), s, n)
  <2>1. s \in Nat /\ s < W /\ s \in Int
    BY WordInt
  <2>2. PICK p : p = <<s, 0>>
    OBVIOUS
  <2>3. 0 \in Word
    BY WordInt
  <2>4. p \in Pair /\ Val(p) = s + W * 0
    BY <2>2, <2>3, PairIs
  <2>5. s + W * 0 = s /\ s < n
    BY <2>1, <1>1, SMT
  <2>6. Val(p) = s
    BY <2>4, <2>5
  <2>7. Cong(s, s, n)
    BY <2>1, <1>1, CongSelf
  <2>8. Cong(Val(p), s, n) /\ Val(p) < n
    BY <2>5, <2>6, <2>7
  <2>9. Stands(k, modredc15ul_tomontgomery(p, m), s, n)
    BY <2>1, <2>4, <2>8, EnterTwo
  <2> QED  BY <2>2, <2>9 DEF modredc15ul_set_ul
<1>4. ASSUME NEW s \in Pair, Reducible(Val(s), n)
      PROVE  Stands(k, modredc15ul_set_uls(s, m), Val(s) % n, n)
  <2>1. PICK S \in Nat : S = Val(s)
    BY ValRange
  <2>2. PICK x \in 0 .. n - 1 : x = S % n /\ Cong(S, x, n)
    BY <2>1, <1>1, <1>2, CongMod
  <2>3. x \in Int /\ x \in Nat /\ x < n
    BY <1>1, SMT
  <2>4. PICK t : t = IF modredc15ul_intlt(s, m.m) THEN s ELSE modredc15ul_intmod(s, m.m)
    OBVIOUS
  <2>5. modredc15ul_set_uls(s, m) = modredc15ul_tomontgomery(t, m)
    BY <2>4, Zenon DEF modredc15ul_set_uls
  <2>6. modredc15ul_intlt(s, m.m) <=> S < n
    BY <2>1, <1>1, Zenon DEF modredc15ul_intlt
  <2>7. t \in Pair /\ Val(t) < n /\ Cong(Val(t), x, n)
    <3>1. CASE S < n
      BY <3>1, <2>1, <2>2, <2>4, <2>6
    <3>2. CASE ~(S < n)
      <4>1. PICK p : p = m.m
        OBVIOUS
      <4>2. p \in Pair /\ Val(p) = n /\ Val(p) > W
        BY <4>1, <1>1
      <4>3. ((Val(s) \div Val(p)) + 1) * Val(p) < W * W
        BY <4>2, <1>4 DEF Reducible
      <4>4. t = modredc15ul_intmod(s, p)
        BY <3>2, <4>1, <2>4, <2>6
      <4>5. t \in Pair /\ Val(t) = Val(s) % Val(p)
        BY <4>2, <4>3, <4>4, IntModRight
      <4>6. Val(t) = x
        BY <4>2, <4>5, <2>1, <2>2
      <4>7. Cong(x, x, n)
        BY <2>3, <1>1, CongSelf
      <4> QED  BY <4>5, <4>6, <4>7, <2>3
    <3> QED  BY <3>1, <3>2
  <2>8. Stands(k, modredc15ul_tomontgomery(t, m), x, n)
    BY <2>3, <2>7, EnterTwo
  <2> QED  BY <2>1, <2>2, <2>5, <2>8
<1> QED  BY <1>3, <1>4

\* The conversions of modredc_15ul.h and of modredc_2ul2.h, which repeats their text.
LEMMA TwoWordConversions ==
    ASSUME Width, PowersOfTwo, NEW k \in TwoWords, NEW n \in ModuliOf(k),
           NEW m, m = initmod(k, n), NEW a, NEW x \in Int, Stands(k, a, x, n), NEW s \in Word
    PROVE  /\ modredc15ul_set_ul(s, m) = Repr(k, s, n)
           /\ modredc15ul_add_ul(a, s, m) = Repr(k, x + s, n)
           /\ modredc15ul_sub_ul(a, s, m) = Repr(k, (x - s) % n, n)
           /\ Reducible(Val(<<s, a[1]>>), n) =>
                modredc15ul_set_uls(<<s, a[1]>>, m) = Repr(k, Val(<<s, a[1]>>) % n, n)
           /\ m.one = Repr(k, 1, n)
<1>1. k \in Kinds /\ n \in Nat /\ n \in Int /\ n > 1
  BY TwoModulus
<1>2. n > 0
  BY <1>1, SMT
<1>3. s \in Int
  BY WordInt
<1>4. ASSUME NEW y \in Int, NEW r, Stands(k, r, y, n) PROVE r = Repr(k, y, n)
  <2>1. Cong(y, y, n)
    BY <1>1, CongSelf
  <2> QED  BY <2>1, <1>1, <1>4, ReprOf
<1>5. PICK b : b = modredc15ul_set_ul(s, m)
  OBVIOUS
<1>6. Stands(k, b, s, n)
  BY <1>5, SetTwo
<1>7. modredc15ul_set_ul(s, m) = Repr(k, s, n)
  BY <1>3, <1>4, <1>5, <1>6
<1>8. m.one = Repr(k, 1, n)
  <2>1. 1 \in Int
    BY SMT
  <2>2. Stands(k, m.one, 1, n)
    BY OneTwo
  <2> QED  BY <2>1, <2>2, <1>4
<1>9. ASSUME Reducible(Val(<<s, a[1]>>), n)
      PROVE  modredc15ul_set_uls(<<s, a[1]>>, m) = Repr(k, Val(<<s, a[1]>>) % n, n)
  <2>1. a \in Pair
    <3>1. k \in TwoWords
      OBVIOUS
    <3>2. IsFormat(k, a)
      BY DEF Stands
    <3> QED  BY <3>1, <3>2 DEF IsFormat
  <2>2. a[1] \in Word
    BY <2>1, ValRange
  <2>3. PICK p : p = <<s, a[1]>>
    OBVIOUS
  <2>4. p \in Pair
    BY <2>2, <2>3, PairIs
  <2>5. Stands(k, modredc15ul_set_uls(p, m), Val(p) % n, n)
    <3>1. Reducible(Val(p), n)
      BY <2>3, <1>9
    <3> QED  BY <2>4, <3>1, SetTwo
  <2>6. Val(p) % n \in Int
    <3>1. PICK v \in Int : v = Val(p)
      <4>1. Val(p) \in Nat
        BY <2>4, ValRange
      <4> QED  BY <4>1, SMT
    <3>2. v % n \in Int
      BY <1>1, <1>2, SMT
    <3> QED  BY <3>1, <3>2
  <2>7. modredc15ul_set_uls(p, m) = Repr(k, Val(p) % n, n)
    BY <2>5, <2>6, <1>4
  <2> QED  BY <2>3, <2>7
<1>10. Reduced(k, a, n) /\ Reduced(k, b, n)
  BY <1>6, StandsReduced
<1>11. PICK u, d : u = add(k, a, b, m) /\ d = sub(k, a, b, m)
  OBVIOUS
<1>12. u = modredc15ul_add_ul(a, s, m) /\ d = modredc15ul_sub_ul(a, s, m)
  <2>1. u = modredc15ul_add(a, b, m) /\ d = modredc15ul_sub(a, b, m)
    BY <1>1, <1>11, TwoWordOps
  <2> QED  BY <2>1, <1>5, Zenon DEF modredc15ul_add_ul, modredc15ul_sub_ul
<1>13. PICK A, V, U, D : /\ A = Stored(k, a) /\ V = Stored(k, b)
                         /\ U = Stored(k, u) /\ D = Stored(k, d)
  OBVIOUS
<1>14. /\ Reduced(k, u, n) /\ Reduced(k, d, n)
       /\ U = A + V \/ U = (A + V) - n
       /\ D = A - V \/ D = (A - V) + n
  BY <1>1, <1>10, <1>11, <1>13, SumValue
<1>15. A \in Int /\ V \in Int /\ U \in Int /\ D \in Int
  <2>1. A \in 0 .. n - 1 /\ V \in 0 .. n - 1 /\ U \in 0 .. n - 1 /\ D \in 0 .. n - 1
    BY <1>10, <1>13, <1>14 DEF Reduced
  <2> QED  BY <2>1, <1>1, SMT
<1>16. Cong(U, A + V, n) /\ Cong(D, A - V, n)
  <2>1. A + V \in Int /\ A - V \in Int
    BY <1>15, SMT
  <2> QED  BY <2>1, <1>1, <1>14, <1>15, Shifted
<1>17. Stands(k, u, x + s, n) /\ Stands(k, d, x - s, n)
  <2>1. IsFormat(k, u) /\ Stored(k, u) \in 0 .. n - 1
    BY <1>14 DEF Reduced
  <2>2. IsFormat(k, d) /\ Stored(k, d) \in 0 .. n - 1
    BY <1>14 DEF Reduced
  <2>3. Cong(Stored(k, u), Stored(k, a) + Stored(k, b), n)
    BY <1>13, <1>16
  <2>4. Cong(Stored(k, d), Stored(k, a) - Stored(k, b), n)
    BY <1>13, <1>16
  <2>5. Stands(k, u, x + s, n)
    BY <2>1, <2>3, <1>1, <1>3, <1>6, SumStands
  <2>6. Stands(k, d, x - s, n)
    BY <2>2, <2>4, <1>1, <1>3, <1>6, SumStands
  <2> QED  BY <2>5, <2>6
<1>18. x + s \in Int /\ x - s \in Int
  BY <1>3, SMT
<1>19. u = Repr(k, x + s, n)
  BY <1>4, <1>17, <1>18
<1>20. d = Repr(k, (x - s) % n, n)
  <2>1. PICK e, f \in Int : e = x - s /\ f = e % n /\ Cong(e, f, n)
    <3>1. PICK e \in Int : e = x - s
      BY <1>18
    <3>2. Cong(e, e % n, n) /\ e % n \in 0 .. n - 1
      BY <1>1, <1>2, CongMod
    <3>3. e % n \in Int
      BY <3>2, <1>1, SMT
    <3> QED  BY <3>1, <3>2, <3>3
  <2>2. Stands(k, d, e, n)
    BY <2>1, <1>17
  <2>3. d = Repr(k, f, n)
    BY <2>1, <2>2, <1>1, ReprOf
  <2> QED  BY <2>1, <2>3
<1> QED  BY <1>7, <1>8, <1>9, <1>12, <1>19, <1>20

\* The conversions of all four arithmetics are right, for every word size, every modulus
\* their header accepts and every reduced residue a: set1, set_ul of any word and set_uls
\* (of two words: when the estimated quotient leaves room) return the reduced residue that
\* stands for the integer, get the integer a stands for, add_ul and sub_ul the residue
\* of its sum and difference with any word.
THEOREM ConversionsRight ==
    ASSUME Width, PowersOfTwo, NEW k \in Kinds, NEW n \in ModuliOf(k),
           NEW a, IsFormat(k, a), Stored(k, a) \in 0 .. n - 1
    PROVE  ConversionsOk(k, n, a)
<1>1. CASE k \notin TwoWords
  <2>1. k \in {"ul", "redcul"} /\ a \in 0 .. n - 1
    <3>1. k \in {"ul", "redcul"}
      BY <1>1, KindIs
    <3>2. a \in 0 .. n - 1
      BY <1>1, OneReduced DEF Reduced
    <3> QED  BY <3>1, <3>2
  <2> QED  BY <2>1, OneWordConversions
<1>2. CASE k \in TwoWords
  <2>1. k # "ul" /\ k # "redcul"
    BY <1>2 DEF TwoWords
  <2>2. PICK m : m = initmod(k, n)
    OBVIOUS
  <2>3. PICK x \in 0 .. n - 1 : x = Plain(k, a, n) /\ Stands(k, a, x, n)
    BY PlainStands
  <2>4. x \in Int
    <3>1. n \in Nat
      BY ModulusIs
    <3> QED  BY <3>1, SMT
  <2>5. get(k, a, m) = x
    BY <2>2, <2>3, GetRight
  <2>6. 0 \in Word
    BY WordInt
  <2>7. ASSUME NEW s \in Word
        PROVE  /\ modredc15ul_set_ul(s, m) = Repr(k, s, n)
               /\ modredc15ul_add_ul(a, s, m) = Repr(k, x + s, n)
               /\ modredc15ul_sub_ul(a, s, m) = Repr(k, (x - s) % n, n)
               /\ Reducible(Val(<<s, a[1]>>), n) =>
                    modredc15ul_set_uls(<<s, a[1]>>, m) = Repr(k, Val(<<s, a[1]>>) % n, n)
    BY <1>2, <2>2, <2>3, <2>4, TwoWordConversions
  <2>8. m.one = Repr(k, 1, n)
    BY ZenonT(60), <1>2, <2>2, <2>3, <2>4, <2>6, TwoWordConversions
  <2>9. CASE k = "redc15ul"
    <3>1. k # "redc2ul2"
      BY <2>9
    <3>2. set1(k, m) = Repr(k, 1, n)
      BY <2>8, <2>9 DEF set1, modredc15ul_set1
    <3>3. ASSUME NEW s \in Word PROVE set_ul(k, s, m) = Repr(k, s, n)
      <4>1. set_ul(k, s, m) = modredc15ul_set_ul(s, m)
        BY <2>9 DEF set_ul
      <4> QED  BY <4>1, <2>7
    <3>4. ASSUME NEW s \in Word
          PROVE  /\ set_ul(k, s, m) = Repr(k, s, n)
                 /\ k = "ul" => /\ modul_add_ul(a, s, m) = (a + s) % n
                                /\ modul_sub_ul(a, s, m) = (a - s) % n
                 /\ k = "redcul" => /\ modredcul_add_ul(a, s, m) = Repr(k, x + s, n)
                                    /\ modredcul_sub_ul(a, s, m) = Repr(k, (x - s) % n, n)
                                    /\ modredcul_set_uls(s, m) = Repr(k, s, n)
                 /\ k = "redc15ul" => /\ modredc15ul_add_ul(a, s, m) = Repr(k, x + s, n)
                                      /\ modredc15ul_sub_ul(a, s, m) = Repr(k, (x - s) % n, n)
                                      /\ Reducible(Val(<<s, a[1]>>), n) =>
                                           modredc15ul_set_uls(<<s, a[1]>>, m)
                                             = Repr(k, Val(<<s, a[1]>>) % n, n)
                 /\ k = "redc2ul2" => /\ modredc2ul2_add_ul(a, s, m) = Repr(k, x + s, n)
                                      /\ modredc2ul2_sub_ul(a, s, m) = Repr(k, (x - s) % n, n)
                                      /\ Reducible(Val(<<s, a[1]>>), n) =>
                                           modredc2ul2_set_uls(<<s, a[1]>>, m)
                                             = Repr(k, Val(<<s, a[1]>>) % n, n)
      BY <2>1, <2>7, <3>1, <3>3, Zenon
    <3> QED  BY <2>2, <2>3, <2>5, <3>2, <3>4, SMTT(30) DEF ConversionsOk
  <2>10. CASE k = "redc2ul2"
    <3>1. k # "redc15ul"
      BY <2>10
    <3>2. set1(k, m) = Repr(k, 1, n)
      BY <2>8, <2>10 DEF set1, modredc2ul2_set1
    <3>3. ASSUME NEW s \in Word
          PROVE  /\ modredc2ul2_set_ul(s, m) = modredc15ul_set_ul(s, m)
                 /\ modredc2ul2_add_ul(a, s, m) = modredc15ul_add_ul(a, s, m)
                 /\ modredc2ul2_sub_ul(a, s, m) = modredc15ul_sub_ul(a, s, m)
      BY Zenon DEF modredc2ul2_set_ul, modredc2ul2_add_ul, modredc2ul2_sub_ul,
                   modredc2ul2_add, modredc2ul2_sub, modredc2ul2_tomontgomery,
                   modredc15ul_set_ul, modredc15ul_add_ul, modredc15ul_sub_ul
    <3>4. ASSUME NEW t PROVE modredc2ul2_set_uls(t, m) = modredc15ul_set_uls(t, m)
      BY Zenon DEF modredc2ul2_set_uls, modredc15ul_set_uls, modredc2ul2_tomontgomery,
                   modredc2ul2_intlt, modredc2ul2_intmod
    <3>5. ASSUME NEW s \in Word
          PROVE  /\ set_ul(k, s, m) = Repr(k, s, n)
                 /\ modredc2ul2_add_ul(a, s, m) = Repr(k, x + s, n)
                 /\ modredc2ul2_sub_ul(a, s, m) = Repr(k, (x - s) % n, n)
                 /\ Reducible(Val(<<s, a[1]>>), n) =>
                      modredc2ul2_set_uls(<<s, a[1]>>, m) = Repr(k, Val(<<s, a[1]>>) % n, n)
      <4>1. set_ul(k, s, m) = modredc2ul2_set_ul(s, m)
        BY <2>10 DEF set_ul
      <4>2. modredc2ul2_set_uls(<<s, a[1]>>, m) = modredc15ul_set_uls(<<s, a[1]>>, m)
        BY <3>4
      <4> QED  BY <4>1, <4>2, <3>3, <2>7
    <3>6. ASSUME NEW s \in Word
          PROVE  /\ set_ul(k, s, m) = Repr(k, s, n)
                 /\ k = "ul" => /\ modul_add_ul(a, s, m) = (a + s) % n
                                /\ modul_sub_ul(a, s, m) = (a - s) % n
                 /\ k = "redcul" => /\ modredcul_add_ul(a, s, m) = Repr(k, x + s, n)
                                    /\ modredcul_sub_ul(a, s, m) = Repr(k, (x - s) % n, n)
                                    /\ modredcul_set_uls(s, m) = Repr(k, s, n)
                 /\ k = "redc15ul" => /\ modredc15ul_add_ul(a, s, m) = Repr(k, x + s, n)
                                      /\ modredc15ul_sub_ul(a, s, m) = Repr(k, (x - s) % n, n)
                                      /\ Reducible(Val(<<s, a[1]>>), n) =>
                                           modredc15ul_set_uls(<<s, a[1]>>, m)
                                             = Repr(k, Val(<<s, a[1]>>) % n, n)
                 /\ k = "redc2ul2" => /\ modredc2ul2_add_ul(a, s, m) = Repr(k, x + s, n)
                                      /\ modredc2ul2_sub_ul(a, s, m) = Repr(k, (x - s) % n, n)
                                      /\ Reducible(Val(<<s, a[1]>>), n) =>
                                           modredc2ul2_set_uls(<<s, a[1]>>, m)
                                             = Repr(k, Val(<<s, a[1]>>) % n, n)
      BY <2>1, <3>1, <3>5, Zenon
    <3> QED  BY <2>2, <2>3, <2>5, <3>2, <3>6, SMTT(30) DEF ConversionsOk
  <2> QED  BY <1>2, <2>9, <2>10, KindIs
<1> QED  BY <1>1, <1>2
=============================================================================
