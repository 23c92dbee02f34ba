----------------------------- MODULE ArithProofs -----------------------------
(***************************************************************************)
(* The ring operations of the modular arithmetics agree with the integers  *)
(* for every word width and every modulus, and so does the inverse modulo  *)
(* the word size they rest on.                                             *)
(*                                                                         *)
(* Congruences are kept as equations with an explicit multiple; what a     *)
(* word operation wraps away is such a multiple of W, what REDC adds one   *)
(* of the modulus.                                                         *)
(***************************************************************************)
EXTENDS Arith, TLAPS

Cong(a, b, m) == \E k \in Int : a = b + k * m

\* A number is congruent to its remainder.
LEMMA CongMod ==
    ASSUME NEW a \in Int, NEW m \in Nat, m > 0
    PROVE  Cong(a % m, a, m) /\ Cong(a, a % m, m) /\ a % m \in 0 .. m - 1
<1>1. a = m * (a \div m) + (a % m) /\ a % m \in 0 .. m - 1 /\ a \div m \in Int
  BY SMT
<1>2. a % m = a + (-(a \div m)) * m /\ -(a \div m) \in Int
  BY <1>1, SMT
<1>3. a = (a % m) + (a \div m) * m
  BY <1>1, SMT
<1> QED  BY <1>1, <1>2, <1>3 DEF Cong

\* Congruence is symmetric.
LEMMA CongSym ==
    ASSUME NEW a \in Int, NEW b \in Int, NEW m \in Int, Cong(a, b, m)
    PROVE  Cong(b, a, m)
<1>1. PICK k \in Int : a = b + k * m
  BY DEF Cong
<1>2. b = a + (-k) * m /\ -k \in Int
  BY <1>1, SMT
<1> QED  BY <1>2 DEF Cong

\* Congruence is transitive.
LEMMA CongTrans ==
    ASSUME NEW a \in Int, NEW b \in Int, NEW c \in Int, NEW m \in Int,
           Cong(a, b, m), Cong(b, c, m)
    PROVE  Cong(a, c, m)
<1>1. PICK k \in Int : a = b + k * m
  BY DEF Cong
<1>2. PICK l \in Int : b = c + l * m
  BY DEF Cong
<1>3. a = c + (k + l) * m /\ k + l \in Int
  BY <1>1, <1>2, SMT
<1> QED  BY <1>3 DEF Cong

\* Sums and differences of congruent numbers are congruent.
LEMMA CongAdd ==
    ASSUME NEW a \in Int, NEW b \in Int, NEW c \in Int, NEW d \in Int, NEW m \in Int,
           Cong(a, b, m), Cong(c, d, m)
    PROVE  Cong(a + c, b + d, m) /\ Cong(a - c, b - d, m)
<1>1. PICK k \in Int : a = b + k * m
  BY DEF Cong
<1>2. PICK l \in Int : c = d + l * m
  BY DEF Cong
<1>3. a + c = b + d + (k + l) * m /\ k + l \in Int
  BY <1>1, <1>2, SMT
<1>4. a - c = b - d + (k - l) * m /\ k - l \in Int
  BY <1>1, <1>2, SMT
<1> QED  BY <1>3, <1>4 DEF Cong

\* A multiple of congruent numbers is congruent.
LEMMA CongTimes ==
    ASSUME NEW a \in Int, NEW b \in Int, NEW c \in Int, NEW m \in Int, Cong(a, b, m)
    PROVE  Cong(a * c, b * c, m) /\ Cong(c * a, c * b, m)
<1>1. PICK k \in Int : a = b + k * m
  BY DEF Cong
<1>2. a * c = b * c + (k * c) * m /\ k * c \in Int
  BY <1>1, SMT
<1>3. c * a = c * b + (k * c) * m
  BY <1>1, SMT
<1> QED  BY <1>2, <1>3 DEF Cong

\* Products of congruent numbers are congruent.
LEMMA CongMul ==
    ASSUME NEW a \in Int, NEW b \in Int, NEW c \in Int, NEW d \in Int, NEW m \in Int,
           Cong(a, b, m), Cong(c, d, m)
    PROVE  Cong(a * c, b * d, m)
<1>1. Cong(a * c, b * c, m) /\ Cong(b * c, b * d, m)
  BY CongTimes
<1> QED  BY <1>1, CongTrans, SMT

\* Two remainders that are congruent are equal.
LEMMA CongEqual ==
    ASSUME NEW m \in Nat, NEW a \in 0 .. m - 1, NEW b \in 0 .. m - 1, Cong(a, b, m)
    PROVE  a = b
<1>1. PICK k \in Int : a = b + k * m
  BY DEF Cong
<1>2. CASE k = 0
  BY <1>1, <1>2, SMT
<1>3. CASE k >= 1
  <2>1. k * m >= m
    BY <1>3, SMT
  <2> QED  BY <1>1, <2>1, SMT
<1>4. CASE k <= -1
  <2>1. k * m <= -m
    BY <1>4, SMT
  <2> QED  BY <1>1, <2>1, SMT
<1> QED  BY <1>2, <1>3, <1>4, SMT

\* A congruence modulo a multiple.
LEMMA CongDown ==
    ASSUME NEW a \in Int, NEW b \in Int, NEW d \in Int, NEW e \in Int, Cong(a, b, d * e)
    PROVE  Cong(a, b, d)
<1>1. PICK k \in Int : a = b + k * (d * e)
  BY DEF Cong
<1>2. a = b + (k * e) * d /\ k * e \in Int
  BY <1>1, SMT
<1> QED  BY <1>2 DEF Cong

\* The remainder is what is congruent and small enough.
LEMMA ModIs ==
    ASSUME NEW m \in Nat, NEW a \in Int, NEW r \in 0 .. m - 1, Cong(a, r, m)
    PROVE  a % m = r
<1>1. m > 0
  BY SMT
<1>2. Cong(a % m, a, m) /\ a % m \in 0 .. m - 1
  BY <1>1, CongMod
<1>3. Cong(a % m, r, m)
  BY <1>2, CongTrans, SMT
<1> QED  BY <1>2, <1>3, CongEqual

-----------------------------------------------------------------------------
(* Words.                                                                  *)

\* The powers of two a half word can be.
HalfWords == {4, 8, 16, 32, 64, 128, 256, 512, 1024, 2048, 4096, 8192, 16384, 32768, 65536,
              131072, 262144, 524288, 1048576, 2097152, 4194304, 8388608, 16777216, 33554432,
              67108864, 134217728, 268435456, 536870912, 1073741824, 2147483648, 4294967296}

\* The values half a word of the allowed widths can have.
LEMMA HalfWordIs == Width => HalfW \in HalfWords
<1> SUFFICES ASSUME Width PROVE HalfW \in HalfWords
  OBVIOUS
<1>1. PICK h \in 2 .. 32 : LONG_BIT = 2 * h
  BY DEF Width
<1>2. LONG_BIT \div 2 = h
  BY <1>1, SMT
<1>3. CASE h = 2
  <2>1. 2^2 = 4
    BY SMT
  <2>2. HalfW = 2^2
    BY <1>2, <1>3 DEF HalfW
  <2>3. HalfW = 4
    BY <2>1, <2>2, SMT
  <2> QED  BY <2>3, SMT DEF HalfWords
<1>4. CASE h = 3
  <2>1. 2^3 = 8
    BY SMT
  <2>2. HalfW = 2^3
    BY <1>2, <1>4 DEF HalfW
  <2>3. HalfW = 8
    BY <2>1, <2>2, SMT
  <2> QED  BY <2>3, SMT DEF HalfWords
<1>5. CASE h = 4
  <2>1. 2^4 = 16
    BY SMT
  <2>2. HalfW = 2^4
    BY <1>2, <1>5 DEF HalfW
  <2>3. HalfW = 16
    BY <2>1, <2>2, SMT
  <2> QED  BY <2>3, SMT DEF HalfWords
<1>6. CASE h = 5
  <2>1. 2^5 = 32
    BY SMT
  <2>2. HalfW = 2^5
    BY <1>2, <1>6 DEF HalfW
  <2>3. HalfW = 32
    BY <2>1, <2>2, SMT
  <2> QED  BY <2>3, SMT DEF HalfWords
<1>7. CASE h = 6
  <2>1. 2^6 = 64
    BY SMT
  <2>2. HalfW = 2^6
    BY <1>2, <1>7 DEF HalfW
  <2>3. HalfW = 64
    BY <2>1, <2>2, SMT
  <2> QED  BY <2>3, SMT DEF HalfWords
<1>8. CASE h = 7
  <2>1. 2^7 = 128
    BY SMT
  <2>2. HalfW = 2^7
    BY <1>2, <1>8 DEF HalfW
  <2>3. HalfW = 128
    BY <2>1, <2>2, SMT
  <2> QED  BY <2>3, SMT DEF HalfWords
<1>9. CASE h = 8
  <2>1. 2^8 = 256
    BY SMT
  <2>2. HalfW = 2^8
    BY <1>2, <1>9 DEF HalfW
  <2>3. HalfW = 256
    BY <2>1, <2>2, SMT
  <2> QED  BY <2>3, SMT DEF HalfWords
<1>10. CASE h = 9
  <2>1. 2^9 = 512
    BY SMT
  <2>2. HalfW = 2^9
    BY <1>2, <1>10 DEF HalfW
  <2>3. HalfW = 512
    BY <2>1, <2>2, SMT
  <2> QED  BY <2>3, SMT DEF HalfWords
<1>11. CASE h = 10
  <2>1. 2^10 = 1024
    BY SMT
  <2>2. HalfW = 2^10
    BY <1>2, <1>11 DEF HalfW
  <2>3. HalfW = 1024
    BY <2>1, <2>2, SMT
  <2> QED  BY <2>3, SMT DEF HalfWords
<1>12. CASE h = 11
  <2>1. 2^11 = 2048
    BY SMT
  <2>2. HalfW = 2^11
    BY <1>2, <1>12 DEF HalfW
  <2>3. HalfW = 2048
    BY <2>1, <2>2, SMT
  <2> QED  BY <2>3, SMT DEF HalfWords
<1>13. CASE h = 12
  <2>1. 2^12 = 4096
    BY SMT
  <2>2. HalfW = 2^12
    BY <1>2, <1>13 DEF HalfW
  <2>3. HalfW = 4096
    BY <2>1, <2>2, SMT
  <2> QED  BY <2>3, SMT DEF HalfWords
<1>14. CASE h = 13
  <2>1. 2^13 = 8192
    BY SMT
  <2>2. HalfW = 2^13
    BY <1>2, <1>14 DEF HalfW
  <2>3. HalfW = 8192
    BY <2>1, <2>2, SMT
  <2> QED  BY <2>3, SMT DEF HalfWords
<1>15. CASE h = 14
  <2>1. 2^14 = 16384
    BY SMT
  <2>2. HalfW = 2^14
    BY <1>2, <1>15 DEF HalfW
  <2>3. HalfW = 16384
    BY <2>1, <2>2, SMT
  <2> QED  BY <2>3, SMT DEF HalfWords
<1>16. CASE h = 15
  <2>1. 2^15 = 32768
    BY SMT
  <2>2. HalfW = 2^15
    BY <1>2, <1>16 DEF HalfW
  <2>3. HalfW = 32768
    BY <2>1, <2>2, SMT
  <2> QED  BY <2>3, SMT DEF HalfWords
<1>17. CASE h = 16
  <2>1. 2^16 = 65536
    BY SMT
  <2>2. HalfW = 2^16
    BY <1>2, <1>17 DEF HalfW
  <2>3. HalfW = 65536
    BY <2>1, <2>2, SMT
  <2> QED  BY <2>3, SMT DEF HalfWords
<1>18. CASE h = 17
  <2>1. 2^17 = 131072
    BY SMT
  <2>2. HalfW = 2^17
    BY <1>2, <1>18 DEF HalfW
  <2>3. HalfW = 131072
    BY <2>1, <2>2, SMT
  <2> QED  BY <2>3, SMT DEF HalfWords
<1>19. CASE h = 18
  <2>1. 2^18 = 262144
    BY SMT
  <2>2. HalfW = 2^18
    BY <1>2, <1>19 DEF HalfW
  <2>3. HalfW = 262144
    BY <2>1, <2>2, SMT
  <2> QED  BY <2>3, SMT DEF HalfWords
<1>20. CASE h = 19
  <2>1. 2^19 = 524288
    BY SMT
  <2>2. HalfW = 2^19
    BY <1>2, <1>20 DEF HalfW
  <2>3. HalfW = 524288
    BY <2>1, <2>2, SMT
  <2> QED  BY <2>3, SMT DEF HalfWords
<1>21. CASE h = 20
  <2>1. 2^20 = 1048576
    BY SMT
  <2>2. HalfW = 2^20
    BY <1>2, <1>21 DEF HalfW
  <2>3. HalfW = 1048576
    BY <2>1, <2>2, SMT
  <2> QED  BY <2>3, SMT DEF HalfWords
<1>22. CASE h = 21
  <2>1. 2^21 = 2097152
    BY SMT
  <2>2. HalfW = 2^21
    BY <1>2, <1>22 DEF HalfW
  <2>3. HalfW = 2097152
    BY <2>1, <2>2, SMT
  <2> QED  BY <2>3, SMT DEF HalfWords
<1>23. CASE h = 22
  <2>1. 2^22 = 4194304
    BY SMT
  <2>2. HalfW = 2^22
    BY <1>2, <1>23 DEF HalfW
  <2>3. HalfW = 4194304
    BY <2>1, <2>2, SMT
  <2> QED  BY <2>3, SMT DEF HalfWords
<1>24. CASE h = 23
  <2>1. 2^23 = 8388608
    BY SMT
  <2>2. HalfW = 2^23
    BY <1>2, <1>24 DEF HalfW
  <2>3. HalfW = 8388608
    BY <2>1, <2>2, SMT
  <2> QED  BY <2>3, SMT DEF HalfWords
<1>25. CASE h = 24
  <2>1. 2^24 = 16777216
    BY SMT
  <2>2. HalfW = 2^24
    BY <1>2, <1>25 DEF HalfW
  <2>3. HalfW = 16777216
    BY <2>1, <2>2, SMT
  <2> QED  BY <2>3, SMT DEF HalfWords
<1>26. CASE h = 25
  <2>1. 2^25 = 33554432
    BY SMT
  <2>2. HalfW = 2^25
    BY <1>2, <1>26 DEF HalfW
  <2>3. HalfW = 33554432
    BY <2>1, <2>2, SMT
  <2> QED  BY <2>3, SMT DEF HalfWords
<1>27. CASE h = 26
  <2>1. 2^26 = 67108864
    BY SMT
  <2>2. HalfW = 2^26
    BY <1>2, <1>27 DEF HalfW
  <2>3. HalfW = 67108864
    BY <2>1, <2>2, SMT
  <2> QED  BY <2>3, SMT DEF HalfWords
<1>28. CASE h = 27
  <2>1. 2^27 = 134217728
    BY SMT
  <2>2. HalfW = 2^27
    BY <1>2, <1>28 DEF HalfW
  <2>3. HalfW = 134217728
    BY <2>1, <2>2, SMT
  <2> QED  BY <2>3, SMT DEF HalfWords
<1>29. CASE h = 28
  <2>1. 2^28 = 268435456
    BY SMT
  <2>2. HalfW = 2^28
    BY <1>2, <1>29 DEF HalfW
  <2>3. HalfW = 268435456
    BY <2>1, <2>2, SMT
  <2> QED  BY <2>3, SMT DEF HalfWords
<1>30. CASE h = 29
  <2>1. 2^29 = 536870912
    BY SMT
  <2>2. HalfW = 2^29
    BY <1>2, <1>30 DEF HalfW
  <2>3. HalfW = 536870912
    BY <2>1, <2>2, SMT
  <2> QED  BY <2>3, SMT DEF HalfWords
<1>31. CASE h = 30
  <2>1. 2^30 = 1073741824
    BY SMT
  <2>2. HalfW = 2^30
    BY <1>2, <1>31 DEF HalfW
  <2>3. HalfW = 1073741824
    BY <2>1, <2>2, SMT
  <2> QED  BY <2>3, SMT DEF HalfWords
<1>32. CASE h = 31
  <2>1. 2^31 = 2147483648
    BY SMT
  <2>2. HalfW = 2^31
    BY <1>2, <1>32 DEF HalfW
  <2>3. HalfW = 2147483648
    BY <2>1, <2>2, SMT
  <2> QED  BY <2>3, SMT DEF HalfWords
<1>33. CASE h = 32
  <2>1. 2^32 = 4294967296
    BY SMT
  <2>2. HalfW = 2^32
    BY <1>2, <1>33 DEF HalfW
  <2>3. HalfW = 4294967296
    BY <2>1, <2>2, SMT
  <2> QED  BY <2>3, SMT DEF HalfWords
<1>0. h \in Nat /\ 2 <= h /\ h <= 32
  BY <1>1, SMT
<1> QED   BY <1>0, <1>3, <1>4, <1>5, <1>6, <1>7, <1>8, <1>9, <1>10, <1>11, <1>12, <1>13,
     <1>14, <1>15, <1>16, <1>17, <1>18, <1>19, <1>20, <1>21, <1>22, <1>23, <1>24, <1>25,
     <1>26, <1>27, <1>28, <1>29, <1>30, <1>31, <1>32, <1>33, SMT

\* What the proofs use of the word size.
LEMMA WordSize ==
    ASSUME Width
    PROVE  /\ HalfW \in Nat /\ HalfW >= 4 /\ W = HalfW * HalfW /\ W \in Nat /\ W >= 16
           /\ \E h \in Nat : HalfW = 4 * h /\ W = 4 * (h * HalfW)
<1>1. HalfW \in HalfWords
  BY HalfWordIs
<1>2. HalfW \in Nat /\ HalfW >= 4
  BY <1>1, SMT DEF HalfWords
<1>3. HalfW \div 4 \in Nat /\ HalfW = 4 * (HalfW \div 4)
  BY <1>1, SMT DEF HalfWords
<1>4. PICK h \in Nat : HalfW = 4 * h
  BY <1>3
<1>5. W = HalfW * HalfW
  BY DEF Width
<1>6. HalfW * HalfW >= 4 * HalfW
  BY <1>2, SMT
<1>7. W \in Nat /\ W >= 16
  BY <1>2, <1>5, <1>6, SMT
<1>8. W = 4 * (h * HalfW)
  BY <1>2, <1>4, <1>5, SMT
<1> QED  BY <1>2, <1>4, <1>5, <1>7, <1>8

\* Quotient and remainder by what determines them.
LEMMA DivIs ==
    ASSUME NEW v \in Int, NEW q \in Int, NEW w \in Nat, NEW r \in 0 .. w - 1, v = q * w + r
    PROVE  v \div w = q /\ v % w = r
  BY SMT

\* add and adc: sum word and carry make the sum.
LEMMA AddCarry ==
    ASSUME Width, NEW x \in Word, NEW y \in Word, NEW c \in {0, 1}, NEW s, s = AddC(x, y, c)
    PROVE  /\ s[1] \in Word /\ s[2] \in {0, 1}
           /\ x + y + c = s[1] + W * s[2]
<1>1. W \in Nat /\ W >= 16
  BY WordSize
<1>2. x \in Nat /\ y \in Nat /\ c \in Nat /\ x < W /\ y < W /\ c <= 1
  BY <1>1, SMT DEF Word
<1>3. CASE x + y + c < W
  <2>1. x + y + c = 0 * W + (x + y + c) /\ x + y + c \in 0 .. W - 1
    BY <1>1, <1>2, <1>3, SMT
  <2>2. (x + y + c) \div W = 0 /\ (x + y + c) % W = x + y + c
    BY <2>1, <1>1, <1>2, DivIs, SMT
  <2>3. s[1] = x + y + c /\ s[2] = 0
    BY <2>2 DEF AddC
  <2> QED  BY <2>1, <2>3, <1>1, SMT DEF Word
<1>4. CASE x + y + c >= W
  <2>1. x + y + c = 1 * W + (x + y + c - W) /\ x + y + c - W \in 0 .. W - 1
    BY <1>1, <1>2, <1>4, SMT
  <2>2. (x + y + c) \div W = 1 /\ (x + y + c) % W = x + y + c - W
    BY <2>1, <1>1, <1>2, DivIs, SMT
  <2>3. s[1] = x + y + c - W /\ s[2] = 1
    BY <2>2 DEF AddC
  <2> QED  BY <2>1, <2>3, <1>1, SMT DEF Word
<1> QED  BY <1>1, <1>2, <1>3, <1>4, SMT

\* sub and sbb: difference word and borrow make the difference.
LEMMA SubBorrow ==
    ASSUME Width, NEW x \in Word, NEW y \in Word, NEW c \in {0, 1}, NEW s, s = SubB(x, y, c)
    PROVE  /\ s[1] \in Word /\ s[2] \in {0, 1}
           /\ x - y - c = s[1] - W * s[2]
           /\ s[2] = 1 <=> x < y + c
<1>1. W \in Nat /\ W >= 16
  BY WordSize
<1>2. x \in Nat /\ y \in Nat /\ c \in Nat /\ x < W /\ y < W /\ c <= 1
  BY <1>1, SMT DEF Word
<1>3. CASE x >= y + c
  <2>1. x - y - c = 0 * W + (x - y - c) /\ x - y - c \in 0 .. W - 1
    BY <1>1, <1>2, <1>3, SMT
  <2>2. (x - y - c) % W = x - y - c
    BY <2>1, <1>1, <1>2, DivIs, SMT
  <2>3. s[1] = x - y - c /\ s[2] = 0 /\ ~(x < y + c)
    BY <2>2, <1>2, <1>3, SMT DEF SubB, B
  <2> QED  BY <2>1, <2>3, <1>1, SMT DEF Word
<1>4. CASE x < y + c
  <2>1. x - y - c = (-1) * W + (x - y - c + W) /\ x - y - c + W \in 0 .. W - 1
    BY <1>1, <1>2, <1>4, SMT
  <2>2. (x - y - c) % W = x - y - c + W
    BY <2>1, <1>1, <1>2, DivIs, SMT
  <2>3. s[1] = x - y - c + W /\ s[2] = 1
    BY <2>2, <1>4 DEF SubB, B
  <2> QED  BY <2>1, <2>3, <1>1, <1>4, SMT DEF Word
<1> QED  BY <1>2, <1>3, <1>4, SMT

\* A two-word integer is its value.
LEMMA ValRange ==
    ASSUME Width, NEW p \in Pair
    PROVE  /\ p[1] \in Word /\ p[2] \in Word /\ p[1] \in Nat /\ p[2] \in Nat
           /\ Val(p) \in Nat /\ Val(p) < W * W /\ Val(p) = p[1] + W * p[2]
<1>1. W \in Nat /\ W >= 16
  BY WordSize
<1>2. p[1] \in Word /\ p[2] \in Word
  BY DEF Pair
<1>3. p[1] \in Nat /\ p[2] \in Nat /\ p[1] <= W - 1 /\ p[2] <= W - 1
  BY <1>1, <1>2, SMT DEF Word
<1>4. W * p[2] <= W * (W - 1) /\ W * p[2] \in Nat
  BY <1>1, <1>3, SMT
<1>5. Val(p) = p[1] + W * p[2]
  BY DEF Val
<1>6. W * (W - 1) = W * W - W
  BY <1>1, SMT
<1> QED  BY <1>1, <1>2, <1>3, <1>4, <1>5, <1>6, SMT

\* OfVal splits a number below W * W in two words.
LEMMA OfValIs ==
    ASSUME Width, NEW v \in Nat, v < W * W
    PROVE  OfVal(v) \in Pair /\ Val(OfVal(v)) = v
<1>1. W \in Nat /\ W >= 16
  BY WordSize
<1>2. v = (v \div W) * W + (v % W) /\ v % W \in 0 .. W - 1 /\ v \div W \in Nat
  BY <1>1, SMT
<1>3. v \div W < W
  <2>1. CASE v \div W >= W
    <3>1. (v \div W) * W >= W * W
      BY <2>1, <1>1, <1>2, SMT
    <3> QED  BY <3>1, <1>1, <1>2, SMT
  <2> QED  BY <2>1, <1>1, <1>2, SMT
<1>4. (v \div W) % W = v \div W
  <2>1. v \div W = 0 * W + (v \div W) /\ v \div W \in 0 .. W - 1
    BY <1>1, <1>2, <1>3, SMT
  <2> QED  BY <2>1, <1>1, <1>2, DivIs, SMT
<1>5. OfVal(v) = <<v % W, v \div W>>
  BY <1>4 DEF OfVal
<1>6. v % W \in Word /\ v \div W \in Word
  BY <1>1, <1>2, <1>3, SMT DEF Word
<1>7. Val(OfVal(v)) = (v % W) + W * (v \div W)
  BY <1>5 DEF Val
<1> QED  BY <1>1, <1>2, <1>5, <1>6, <1>7, SMT DEF Pair

\* Two pairs of words with one value are the same.
LEMMA ValOne ==
    ASSUME Width, NEW p \in Pair, NEW q \in Pair, Val(p) = Val(q)
    PROVE  p = q
<1>1. W \in Nat /\ W >= 16
  BY WordSize
<1>2. /\ p[1] \in 0 .. W - 1 /\ p[2] \in Nat /\ q[1] \in 0 .. W - 1 /\ q[2] \in Nat
      /\ p[1] + W * p[2] = q[1] + W * q[2]
  BY ValRange DEF Word
<1> PICK p1, p2, q1, q2 \in Int : p1 = p[1] /\ p2 = p[2] /\ q1 = q[1] /\ q2 = q[2]
  BY <1>1, <1>2, SMT
<1>3a. p1 + W * p2 = q1 + W * q2
  BY <1>2
<1>3b. p1 = q1 + (q2 - p2) * W /\ q2 - p2 \in Int
  BY <1>1, <1>3a, SMT
<1>3. p[1] = q[1] + (q[2] - p[2]) * W /\ q[2] - p[2] \in Int
  BY <1>3b
<1>4. Cong(p[1], q[1], W)
  BY <1>3 DEF Cong
<1>5. p[1] = q[1]
  BY <1>1, <1>2, <1>4, CongEqual
<1>6. p[2] = q[2]
  BY <1>1, <1>2, <1>5, SMT
<1> QED  BY <1>5, <1>6 DEF Pair

\* mulq: the product of two words as a pair.
LEMMA MulWords ==
    ASSUME Width, NEW a \in Word, NEW b \in Word, NEW p, p = ularith_mul_ul_ul_2ul(a, b)
    PROVE  p \in Pair /\ Val(p) = a * b /\ a * b \in Nat
<1>1. W \in Nat /\ W >= 16
  BY WordSize
<1>2. a \in Nat /\ b \in Nat /\ a < W /\ b < W
  BY <1>1, SMT DEF Word
<1>3. a * b \in Nat /\ a * b <= a * W /\ a * W < W * W
  BY <1>1, <1>2, SMT
<1>4. a * b < W * W
  BY <1>1, <1>2, <1>3, SMT
<1> QED  BY <1>3, <1>4, OfValIs DEF ularith_mul_ul_ul_2ul


-----------------------------------------------------------------------------
(* Operations on two-word integers, by the values of their operands.       *)

LEMMA Spread ==
    ASSUME NEW w \in Int, NEW a \in Int, NEW b \in Int, NEW c \in Int
    PROVE  /\ w * (a + b + c) = w * a + w * b + w * c
           /\ w * (a - b - c) = w * a - w * b - w * c
           /\ w * (a + w * b) = w * a + b * (w * w)
           /\ w * (a - w * b) = w * a - b * (w * w)
           /\ w * a \in Int /\ w * b \in Int /\ w * c \in Int /\ b * (w * w) \in Int
  BY SMT

\* What is below w^2 has a high part below w.
LEMMA HighBelow ==
    ASSUME NEW w \in Nat, NEW l \in Nat, NEW h \in Int, l + w * h < w * w, h >= w
    PROVE  FALSE
<1>1. w * h >= w * w
  BY SMT
<1> QED  BY <1>1, SMT

\* A word is an integer.
LEMMA WordInt ==
    ASSUME Width
    PROVE  /\ \A x \in Word : x \in Int /\ x \in Nat /\ x < W
           /\ \A x \in Nat : x < W => x \in Word /\ x % W = x /\ x \div W = 0
           /\ \A c \in {0, 1} : c \in Int /\ c \in Nat /\ c \in Word
<1>1. W \in Nat /\ W >= 16
  BY WordSize
<1>2. ASSUME NEW x \in Nat, x < W PROVE x \in Word /\ x % W = x /\ x \div W = 0
  <2>1. x \in 0 .. W - 1 /\ x = 0 * W + x
    BY <1>1, <1>2, SMT
  <2> QED  BY <2>1, <1>1, DivIs, SMT DEF Word
<1>3. ASSUME NEW x \in Word PROVE x \in Int /\ x \in Nat /\ x < W
  BY <1>1, SMT DEF Word
<1>4. ASSUME NEW c \in {0, 1} PROVE c \in Int /\ c \in Nat /\ c \in Word
  BY <1>1, SMT DEF Word
<1> QED  BY <1>2, <1>3, <1>4

\* Two words make a pair.
LEMMA PairIs ==
    ASSUME Width, NEW l \in Word, NEW h \in Word, NEW p, p = <<l, h>>
    PROVE  p \in Pair /\ Val(p) = l + W * h /\ p[1] = l /\ p[2] = h
  BY DEF Pair, Val

\* A carry goes from the low to the high words and out of them.
LEMMA AddPairs ==
    ASSUME Width, NEW p \in Pair, NEW q \in Pair, NEW d, d = ularith_add_2ul_2ul_cy(p, q)
    PROVE  /\ d.r \in Pair /\ d.cy \in {0, 1}
           /\ Val(p) + Val(q) = Val(d.r) + d.cy * (W * W)
<1> PICK l : l = AddC(p[1], q[1], 0)
  OBVIOUS
<1> PICK h : h = AddC(p[2], q[2], l[2])
  OBVIOUS
<1>1. W \in Nat /\ W >= 16
  BY WordSize
<1>2. /\ p[1] \in Word /\ p[2] \in Word /\ Val(p) = p[1] + W * p[2]
      /\ q[1] \in Word /\ q[2] \in Word /\ Val(q) = q[1] + W * q[2]
  BY ValRange
<1>3. l[1] \in Word /\ l[2] \in {0, 1} /\ p[1] + q[1] + 0 = l[1] + W * l[2]
  BY <1>2, AddCarry
<1>4. h[1] \in Word /\ h[2] \in {0, 1} /\ p[2] + q[2] + l[2] = h[1] + W * h[2]
  BY <1>2, <1>3, AddCarry
<1>5. d.r = <<l[1], h[1]>> /\ d.cy = h[2]
  BY DEF ularith_add_2ul_2ul_cy
<1>6. d.r \in Pair /\ Val(d.r) = l[1] + W * h[1]
  BY <1>3, <1>4, <1>5, PairIs
<1>7. /\ W \in Int /\ p[1] \in Int /\ p[2] \in Int /\ q[1] \in Int /\ q[2] \in Int
      /\ l[1] \in Int /\ l[2] \in Int /\ h[1] \in Int /\ h[2] \in Int
  <2>1. W \in Int
    BY <1>1, SMT
  <2>2. p[1] \in Int /\ p[2] \in Int /\ q[1] \in Int /\ q[2] \in Int
    BY <1>2, WordInt
  <2>3. l[1] \in Int /\ l[2] \in Int
    BY <1>3, WordInt
  <2>4. h[1] \in Int /\ h[2] \in Int
    BY <1>4, WordInt
  <2> QED  BY <2>1, <2>2, <2>3, <2>4
<1>8. p[1] + q[1] = l[1] + W * l[2]
  BY <1>3, <1>7, SMT
<1>9. (p[1] + W * p[2]) + (q[1] + W * q[2]) = (l[1] + W * h[1]) + h[2] * (W * W)
  <2>1. /\ W \in Int /\ p[1] \in Int /\ p[2] \in Int /\ q[1] \in Int /\ q[2] \in Int
        /\ l[1] \in Int /\ l[2] \in Int /\ h[1] \in Int /\ h[2] \in Int
    BY <1>7
  <2>2. W * (p[2] + q[2] + l[2]) = W * (h[1] + W * h[2])
    BY <1>4
  <2>3. /\ W * (p[2] + q[2] + l[2]) = W * p[2] + W * q[2] + W * l[2]
        /\ W * p[2] \in Int /\ W * q[2] \in Int /\ W * l[2] \in Int
    BY <2>1, Spread
  <2>4. /\ W * (h[1] + W * h[2]) = W * h[1] + h[2] * (W * W)
        /\ W * h[1] \in Int /\ h[2] * (W * W) \in Int
    BY <2>1, Spread
  <2>5. PICK a, b, c, f, g \in Int : /\ a = W * p[2] /\ b = W * q[2] /\ c = W * l[2]
                                  /\ f = W * h[1] /\ g = h[2] * (W * W)
    BY <2>3, <2>4
  <2>6. a + b + c = f + g
    BY <2>2, <2>3, <2>4, <2>5
  <2>7. PICK x, y, z \in Int : x = p[1] /\ y = q[1] /\ z = l[1]
    BY <2>1
  <2>8. x + y = z + c
    BY <1>8, <2>5, <2>7
  <2>9. (x + a) + (y + b) = (z + f) + g
    BY <2>6, <2>8, SMT
  <2> QED  BY <2>5, <2>7, <2>9
<1> QED  BY <1>2, <1>4, <1>5, <1>6, <1>9

\* ularith_add_2ul_2ul without a carry out of the high word.
LEMMA AddPairsLow ==
    ASSUME Width, NEW p \in Pair, NEW q \in Pair, Val(p) + Val(q) < W * W,
           NEW d, d = ularith_add_2ul_2ul(p, q),
           NEW e, e = ularith_add_2ul_2ul_cy(p, q)
    PROVE  /\ d \in Pair /\ Val(d) = Val(p) + Val(q)
           /\ e.r = d /\ e.cy = 0
<1>1. W \in Nat /\ W >= 16
  BY WordSize
<1>2. /\ e.r \in Pair /\ e.cy \in {0, 1}
      /\ Val(p) + Val(q) = Val(e.r) + e.cy * (W * W)
  BY AddPairs
<1>3. e.r = d
  BY DEF ularith_add_2ul_2ul_cy, ularith_add_2ul_2ul
<1>4. Val(p) \in Nat /\ Val(q) \in Nat /\ Val(e.r) \in Nat
  BY <1>2, ValRange
<1>5. e.cy = 0
  BY <1>1, <1>2, <1>4, SMT
<1> QED  BY <1>1, <1>2, <1>3, <1>4, <1>5, SMT

\* ularith_sub_2ul_2ul_cy: the borrow says that the first operand is smaller.
LEMMA SubPairs ==
    ASSUME Width, NEW p \in Pair, NEW q \in Pair, NEW d, d = ularith_sub_2ul_2ul_cy(p, q)
    PROVE  /\ d.r \in Pair /\ d.cy \in {0, 1}
           /\ Val(p) - Val(q) = Val(d.r) - d.cy * (W * W)
           /\ d.cy = 1 <=> Val(p) < Val(q)
<1> PICK l : l = SubB(p[1], q[1], 0)
  OBVIOUS
<1> PICK h : h = SubB(p[2], q[2], l[2])
  OBVIOUS
<1>1. W \in Nat /\ W >= 16
  BY WordSize
<1>2. /\ p[1] \in Word /\ p[2] \in Word /\ Val(p) = p[1] + W * p[2]
      /\ q[1] \in Word /\ q[2] \in Word /\ Val(q) = q[1] + W * q[2]
  BY ValRange
<1>3. l[1] \in Word /\ l[2] \in {0, 1} /\ p[1] - q[1] - 0 = l[1] - W * l[2]
  BY <1>2, SubBorrow
<1>4. h[1] \in Word /\ h[2] \in {0, 1} /\ p[2] - q[2] - l[2] = h[1] - W * h[2]
  BY <1>2, <1>3, SubBorrow
<1>5. d.r = <<l[1], h[1]>> /\ d.cy = h[2]
  BY DEF ularith_sub_2ul_2ul_cy
<1>6. d.r \in Pair /\ Val(d.r) = l[1] + W * h[1]
  BY <1>3, <1>4, <1>5, PairIs
<1>7. /\ W \in Int /\ p[1] \in Int /\ p[2] \in Int /\ q[1] \in Int /\ q[2] \in Int
      /\ l[1] \in Int /\ l[2] \in Int /\ h[1] \in Int /\ h[2] \in Int
  <2>1. W \in Int
    BY <1>1, SMT
  <2>2. p[1] \in Int /\ p[2] \in Int /\ q[1] \in Int /\ q[2] \in Int
    BY <1>2, WordInt
  <2>3. l[1] \in Int /\ l[2] \in Int
    BY <1>3, WordInt
  <2>4. h[1] \in Int /\ h[2] \in Int
    BY <1>4, WordInt
  <2> QED  BY <2>1, <2>2, <2>3, <2>4
<1>8. p[1] - q[1] = l[1] - W * l[2]
  BY <1>3, <1>7, SMT
<1>9. (p[1] + W * p[2]) - (q[1] + W * q[2]) = (l[1] + W * h[1]) - h[2] * (W * W)
  <2>1. /\ W \in Int /\ p[1] \in Int /\ p[2] \in Int /\ q[1] \in Int /\ q[2] \in Int
        /\ l[1] \in Int /\ l[2] \in Int /\ h[1] \in Int /\ h[2] \in Int
    BY <1>7
  <2>2. W * (p[2] - q[2] - l[2]) = W * (h[1] - W * h[2])
    BY <1>4
  <2>3. /\ W * (p[2] - q[2] - l[2]) = W * p[2] - W * q[2] - W * l[2]
        /\ W * p[2] \in Int /\ W * q[2] \in Int /\ W * l[2] \in Int
    BY <2>1, Spread
  <2>4. /\ W * (h[1] - W * h[2]) = W * h[1] - h[2] * (W * W)
        /\ W * h[1] \in Int /\ h[2] * (W * W) \in Int
    BY <2>1, Spread
  <2>5. PICK a, b, c, f, g \in Int : /\ a = W * p[2] /\ b = W * q[2] /\ c = W * l[2]
                                  /\ f = W * h[1] /\ g = h[2] * (W * W)
    BY <2>3, <2>4
  <2>6. a - b - c = f - g
    BY <2>2, <2>3, <2>4, <2>5
  <2>7. PICK x, y, z \in Int : x = p[1] /\ y = q[1] /\ z = l[1]
    BY <2>1
  <2>8. x - y = z - c
    BY <1>8, <2>5, <2>7
  <2>9. (x + a) - (y + b) = (z + f) - g
    BY <2>6, <2>8, SMT
  <2> QED  BY <2>5, <2>7, <2>9
<1>10. Val(p) - Val(q) = Val(d.r) - d.cy * (W * W)
  BY <1>2, <1>5, <1>6, <1>9
<1>11. /\ Val(p) \in Nat /\ Val(q) \in Nat
       /\ Val(d.r) \in Nat /\ Val(d.r) < W * W
  BY <1>6, ValRange
<1>12. d.cy = 1 <=> Val(p) < Val(q)
  <2> PICK s \in Int : s = W * W
    BY <1>1, SMT
  <2>1. d.cy \in {0, 1}
    BY <1>4, <1>5
  <2>2. CASE d.cy = 0
    BY <2>2, <1>10, <1>11, SMT
  <2>3. CASE d.cy = 1
    BY <2>3, <1>10, <1>11, SMT
  <2> QED  BY <2>1, <2>2, <2>3
<1> QED  BY <1>4, <1>5, <1>6, <1>10, <1>12

\* One conditional subtraction reduces what is below twice the modulus.
LEMMA SubGe ==
    ASSUME Width, NEW p \in Pair, NEW q \in Pair, Val(p) < 2 * Val(q),
           NEW d, d = ularith_sub_2ul_2ul_ge(p, q)
    PROVE  /\ d \in Pair /\ Val(d) \in 0 .. Val(q) - 1
           /\ Val(d) = Val(p) \/ Val(d) = Val(p) - Val(q)
<1> PICK e : e = ularith_sub_2ul_2ul_cy(p, q)
  OBVIOUS
<1>1. W \in Nat /\ W * W \in Nat
  BY WordSize, SMT
<1>2. /\ e.r \in Pair /\ e.cy \in {0, 1}
      /\ Val(p) - Val(q) = Val(e.r) - e.cy * (W * W)
      /\ e.cy = 1 <=> Val(p) < Val(q)
  BY SubPairs
<1>3. Val(p) \in Nat /\ Val(q) \in Nat /\ Val(e.r) \in Nat
  BY <1>2, ValRange
<1>4. d = IF e.cy = 0 THEN e.r ELSE p
  BY DEF ularith_sub_2ul_2ul_ge
<1>5. CASE e.cy = 0
  <2>1. d = e.r
    BY <1>4, <1>5
  <2>2. Val(e.r) = Val(p) - Val(q) /\ Val(p) >= Val(q)
    BY <1>1, <1>2, <1>3, <1>5, SMT
  <2> QED  BY <2>1, <2>2, <1>2, <1>3, SMT
<1>6. CASE e.cy = 1
  <2>1. d = p /\ Val(p) < Val(q)
    BY <1>2, <1>4, <1>6
  <2> QED  BY <2>1, <1>3, SMT
<1> QED  BY <1>2, <1>5, <1>6

\* ularith_sub_2ul_2ul of a smaller operand.
LEMMA SubPairsHigh ==
    ASSUME Width, NEW p \in Pair, NEW q \in Pair, Val(p) >= Val(q),
           NEW d, d = ularith_sub_2ul_2ul(p, q)
    PROVE  d \in Pair /\ Val(d) = Val(p) - Val(q)
<1> PICK e : e = ularith_sub_2ul_2ul_cy(p, q)
  OBVIOUS
<1>1. W \in Nat /\ W * W \in Nat
  BY WordSize, SMT
<1>2. /\ e.r \in Pair /\ e.cy \in {0, 1}
      /\ Val(p) - Val(q) = Val(e.r) - e.cy * (W * W)
      /\ e.cy = 1 <=> Val(p) < Val(q)
  BY SubPairs
<1>3. Val(p) \in Nat /\ Val(q) \in Nat /\ Val(e.r) \in Nat
  BY <1>2, ValRange
<1>4. d = e.r
  BY DEF ularith_sub_2ul_2ul
<1>5. e.cy = 0
  BY <1>2, <1>3, SMT
<1> QED  BY <1>1, <1>2, <1>3, <1>4, <1>5, SMT

\* A word added to a pair: its high word is the pair's high word plus a carry.
LEMMA AddToPair ==
    ASSUME Width, NEW p \in Pair, NEW a \in Word, Val(p) + a < W * W,
           NEW d, d = ularith_add_ul_2ul(p, a)
    PROVE  d \in Pair /\ Val(d) = Val(p) + a
<1> PICK l : l = AddC(p[1], a, 0)
  OBVIOUS
<1>1. W \in Nat /\ W >= 16
  BY WordSize
<1>2. p[1] \in Word /\ p[2] \in Word /\ Val(p) = p[1] + W * p[2]
  BY ValRange
<1>3. l[1] \in Word /\ l[2] \in {0, 1} /\ p[1] + a + 0 = l[1] + W * l[2]
  BY <1>2, AddCarry
<1>4. /\ p[1] \in Nat /\ p[2] \in Nat /\ l[1] \in Nat /\ l[2] \in Nat /\ a \in Nat
  BY <1>2, <1>3, WordInt
<1>5. (p[1] + W * p[2]) + a = l[1] + W * (p[2] + l[2])
  <2>1. W * (p[2] + l[2]) = W * p[2] + W * l[2]
    BY <1>1, <1>4, SMT
  <2>2. W * p[2] \in Int /\ W * l[2] \in Int
    BY <1>1, <1>4, SMT
  <2> QED  BY <2>1, <2>2, <1>3, <1>4, SMT
<1>6. p[2] + l[2] \in Nat /\ p[2] + l[2] < W
  <2>1. p[2] + l[2] \in Nat
    BY <1>4, SMT
  <2>2. l[1] + W * (p[2] + l[2]) < W * W
    BY <1>2, <1>5
  <2> QED  BY <2>1, <2>2, <1>1, <1>4, HighBelow, SMT
<1>7. p[2] + l[2] \in Word /\ (p[2] + l[2]) % W = p[2] + l[2]
  BY <1>6, WordInt
<1>8. d = <<l[1], p[2] + l[2]>>
  BY <1>7 DEF ularith_add_ul_2ul
<1>9. d \in Pair /\ Val(d) = l[1] + W * (p[2] + l[2])
  BY <1>3, <1>7, <1>8, PairIs
<1> QED  BY <1>2, <1>5, <1>9

-----------------------------------------------------------------------------
(* The inverse modulo the word size.                                       *)

Multiple(a, d) == \E k \in Int : a = k * d

\* A congruence modulo a multiple of e holds modulo e.
LEMMA CongMultiple ==
    ASSUME NEW a \in Int, NEW b \in Int, NEW d \in Int, NEW e \in Int,
           Cong(a, b, d), Multiple(d, e)
    PROVE  Cong(a, b, e)
<1>1. PICK l \in Int : d = l * e
  BY DEF Multiple
<1>2. d = e * l
  BY <1>1, SMT
<1>3. Cong(a, b, e * l)
  BY <1>2
<1> QED  BY <1>3, CongDown

\* How many bits of the inverse are right before each step on half words: 5, 10
\* and 20, or all of them.
LEMMA HalfChain ==
    ASSUME Width
    PROVE  \E d0, d1, d2 \in Nat :
              /\ Multiple(32, d0) /\ Multiple(HalfW, d0)
              /\ Multiple(HalfW, d1) /\ Multiple(d0 * d0, d1)
              /\ Multiple(HalfW, d2) /\ Multiple(d1 * d1, d2)
              /\ Multiple(d2 * d2, HalfW)
<1>1. HalfW \in HalfWords
  BY HalfWordIs
<1>2. HalfW \in Nat
  BY WordSize
<1>3. HalfW = 1 * HalfW /\ Multiple(HalfW, HalfW) /\ Multiple(HalfW * HalfW, HalfW)
  BY <1>2, SMT DEF Multiple
<1>4. CASE HalfW \in {4, 8, 16, 32}
  <2>1. 32 = (32 \div HalfW) * HalfW /\ 32 \div HalfW \in Int
    BY <1>4, SMT
  <2>2. Multiple(32, HalfW)
    BY <2>1 DEF Multiple
  <2> QED  BY <2>2, <1>2, <1>3
<1>5. CASE HalfW \in {64, 128, 256, 512, 1024}
  <2>1. 1024 = (1024 \div HalfW) * HalfW /\ 1024 \div HalfW \in Int
    BY <1>5, SMT
  <2>2. HalfW = (HalfW \div 32) * 32 /\ HalfW \div 32 \in Int
    BY <1>5, SMT
  <2>3. 32 * 32 = 1024 /\ 32 = 1 * 32 /\ 32 \in Nat /\ 1 \in Int
    BY SMT
  <2>4. Multiple(32, 32) /\ Multiple(HalfW, 32) /\ Multiple(32 * 32, HalfW)
    <3>1. Multiple(32, 32) /\ Multiple(HalfW, 32)
      BY <2>2, <2>3, SMT DEF Multiple
    <3>2. Multiple(32 * 32, HalfW)
      BY <2>1, <2>3, SMT DEF Multiple
    <3> QED  BY <3>1, <3>2, SMT
  <2> QED  BY <2>3, <2>4, <1>2, <1>3, SMT
<1>6. CASE HalfW \in {2048, 4096, 8192, 16384, 32768, 65536, 131072, 262144, 524288, 1048576}
  <2>1. 1048576 = (1048576 \div HalfW) * HalfW /\ 1048576 \div HalfW \in Int
    BY <1>6, SMT
  <2>2. HalfW = (HalfW \div 1024) * 1024 /\ HalfW \div 1024 \in Int
    BY <1>6, SMT
  <2>3. HalfW = (HalfW \div 32) * 32 /\ HalfW \div 32 \in Int
    BY <1>6, SMT
  <2>4. /\ Multiple(32, 32) /\ Multiple(HalfW, 32) /\ Multiple(HalfW, 1024)
        /\ Multiple(32 * 32, 1024) /\ Multiple(1024 * 1024, HalfW)
    <3>1. 32 * 32 = 1 * 1024 /\ 1024 * 1024 = 1048576 /\ 32 = 1 * 32
      BY SMT
    <3>2. Multiple(32, 32) /\ Multiple(32 * 32, 1024)
      BY <3>1, SMT DEF Multiple
    <3>3. Multiple(HalfW, 32) /\ Multiple(HalfW, 1024)
      BY <2>2, <2>3, SMT DEF Multiple
    <3>4. Multiple(1024 * 1024, HalfW)
      BY <2>1, <3>1, SMT DEF Multiple
    <3> QED  BY <3>2, <3>3, <3>4, SMT
  <2>5. 32 \in Nat /\ 1024 \in Nat
    BY SMT
  <2> HIDE DEF Multiple
  <2> QED  BY <2>4, <2>5, <1>2, <1>3, SMT
<1>7. CASE HalfW \in {2097152, 4194304, 8388608, 16777216, 33554432, 67108864, 134217728,
                      268435456, 536870912, 1073741824, 2147483648, 4294967296}
  <2>1. 1099511627776 = (1099511627776 \div HalfW) * HalfW /\ 1099511627776 \div HalfW \in Int
    BY <1>7, SMT
  <2>2. HalfW = (HalfW \div 1048576) * 1048576 /\ HalfW \div 1048576 \in Int
    BY <1>7, SMT
  <2>3. HalfW = (HalfW \div 1024) * 1024 /\ HalfW \div 1024 \in Int
    BY <1>7, SMT
  <2>4. HalfW = (HalfW \div 32) * 32 /\ HalfW \div 32 \in Int
    BY <1>7, SMT
  <2>5. /\ Multiple(32, 32) /\ Multiple(HalfW, 32) /\ Multiple(HalfW, 1024)
        /\ Multiple(HalfW, 1048576) /\ Multiple(32 * 32, 1024)
        /\ Multiple(1024 * 1024, 1048576) /\ Multiple(1048576 * 1048576, HalfW)
    <3>1. 32 * 32 = 1 * 1024 /\ 1024 * 1024 = 1 * 1048576 /\ 32 = 1 * 32
      BY SMT
    <3>2. Multiple(32, 32) /\ Multiple(32 * 32, 1024) /\ Multiple(1024 * 1024, 1048576)
      BY <3>1, SMT DEF Multiple
    <3>3. Multiple(HalfW, 32) /\ Multiple(HalfW, 1024) /\ Multiple(HalfW, 1048576)
      BY <2>2, <2>3, <2>4, SMT DEF Multiple
    <3>4. 1048576 * 1048576 = 1099511627776
      BY SMT
    <3>5. Multiple(1048576 * 1048576, HalfW)
      BY <2>1, <3>4, SMT DEF Multiple
    <3> QED  BY <3>2, <3>3, <3>5, SMT
  <2>6. 32 \in Nat /\ 1024 \in Nat /\ 1048576 \in Nat
    BY SMT
  <2> QED  BY <2>5, <2>6, SMT
<1> QED  BY <1>1, <1>4, <1>5, <1>6, <1>7, SMT DEF HalfWords

\* A Newton step squares the modulus up to which the inverse is right, as far as
\* the width it is computed with allows.
LEMMA NewtonStep ==
    ASSUME Width, NEW M \in Nat, M > 0, Multiple(W, M),
           NEW d \in Nat, NEW e \in Nat, Multiple(M, e), Multiple(d * d, e),
           NEW n \in Word, NEW r \in Word, Cong(n * r, 1, d),
           NEW s, s = Newton(r, n, M)
    PROVE  s \in Word /\ Cong(n * s, 1, e)
<1>1. W \in Nat /\ W >= 16 /\ n \in Nat /\ r \in Nat
  BY WordSize, WordInt
<1>2. PICK rm \in Int : rm = r % M /\ Cong(rm, r, M)
  BY <1>1, CongMod, SMT
<1>3. PICK nm \in Int : nm = n % M /\ Cong(nm, n, M)
  BY <1>1, CongMod, SMT
<1>4. PICK rr \in Int : rr = (rm * rm) % M /\ Cong(rr, rm * rm, M)
  BY CongMod, SMT
<1>5. Cong(rr, r * r, M)
  <2>1. Cong(rm * rm, r * r, M)
    BY <1>1, <1>2, CongMul, SMT
  <2> QED  BY <2>1, <1>1, <1>4, CongTrans, SMT
<1>6. PICK t \in Int : t = (rr * nm) % M /\ Cong(t, rr * nm, M)
  BY CongMod, SMT
<1>7. Cong(t, (r * r) * n, M)
  <2>1. Cong(rr * nm, (r * r) * n, M)
    BY <1>1, <1>3, <1>5, CongMul, SMT
  <2> QED  BY <2>1, <1>1, <1>6, CongTrans, SMT
<1>8. s = (2 * r - t) % W
  BY <1>2, <1>3, <1>4, <1>6 DEF Newton
<1>9. s \in Word /\ s \in Int /\ Cong(s, 2 * r - t, W)
  <2>0. 2 * r - t \in Int /\ W > 0
    BY <1>1, SMT
  <2>1. PICK v \in Int : v = 2 * r - t
    BY <2>0
  <2>2. Cong(v % W, v, W) /\ v % W \in 0 .. W - 1
    BY <1>1, <2>0, CongMod
  <2>3. s \in Word /\ Cong(s, 2 * r - t, W)
    BY <2>1, <2>2, <1>8 DEF Word
  <2> QED  BY <2>3, WordInt
<1>10. Cong(s, 2 * r - t, M)
  <2>1. 2 * r - t \in Int /\ W \in Int /\ M \in Int
    BY <1>1, SMT
  <2> QED  BY <2>1, <1>9, CongMultiple
<1>11. Cong(2 * r - t, 2 * r - (r * r) * n, M)
  <2>1. 2 * r = 2 * r + 0 * M /\ 2 * r \in Int /\ (r * r) * n \in Int
    BY <1>1, SMT
  <2>2. 0 \in Int /\ M \in Int
    BY SMT
  <2>3. Cong(2 * r, 2 * r, M)
    BY <2>1, <2>2 DEF Cong
  <2> QED  BY <2>1, <2>2, <2>3, <1>7, CongAdd
<1>12. Cong(s, 2 * r - (r * r) * n, e)
  <2>1. 2 * r - t \in Int /\ 2 * r - (r * r) * n \in Int /\ M \in Int /\ e \in Int
    BY <1>1, SMT
  <2>2. Cong(s, 2 * r - (r * r) * n, M)
    BY <2>1, <1>9, <1>10, <1>11, CongTrans
  <2> QED  BY <2>1, <2>2, <1>9, CongMultiple
<1>13. Cong(n * s, n * (2 * r - (r * r) * n), e)
  <2>1. 2 * r - (r * r) * n \in Int /\ e \in Int /\ n \in Int
    BY <1>1, SMT
  <2> QED  BY <2>1, <1>9, <1>12, CongTimes
<1>14. PICK k \in Int : n * r = 1 + k * d
  BY DEF Cong
<1>15. n * (2 * r - (r * r) * n) = 1 + (-(k * k)) * (d * d)
  <2>1. PICK p \in Int : p = n * r
    BY <1>1, SMT
  <2>2. n * (2 * r - (r * r) * n) = 2 * (n * r) - (n * r) * (n * r)
    BY <1>1, SMT
  <2>3. n * (2 * r - (r * r) * n) = 2 * p - p * p
    BY <2>1, <2>2
  <2>4. PICK q \in Int : q = k * d
    BY SMT
  <2>5. p = 1 + q
    BY <1>14, <2>1, <2>4
  <2>6. 2 * p - p * p = 1 - q * q
    BY <2>5, SMT
  <2>7. q * q = (k * k) * (d * d)
    BY <2>4, SMT
  <2>8. 1 - q * q = 1 + (-(k * k)) * (d * d)
    BY <2>7, SMT
  <2> QED  BY <2>3, <2>6, <2>8
<1>16. Cong(n * (2 * r - (r * r) * n), 1, e)
  <2>1. -(k * k) \in Int /\ d * d \in Int /\ n * (2 * r - (r * r) * n) \in Int /\ e \in Int
    BY <1>1, SMT
  <2>2. Cong(n * (2 * r - (r * r) * n), 1, d * d)
    BY <2>1, <1>15 DEF Cong
  <2> QED  BY <2>1, <2>2, CongMultiple, SMT
<1>17. Cong(n * s, 1, e)
  <2>1. n * s \in Int /\ n * (2 * r - (r * r) * n) \in Int /\ e \in Int /\ 1 \in Int
    BY <1>1, <1>9, SMT
  <2> QED  BY <2>1, <1>13, <1>16, CongTrans
<1> QED  BY <1>9, <1>17

\* 3 n with its second bit flipped inverts n modulo 32.
LEMMA NewtonStart ==
    ASSUME Width, NEW n \in Word, n % 2 = 1, NEW d \in Nat, Multiple(32, d), Multiple(HalfW, d),
           NEW r, r = XorTwo((3 * n) % W)
    PROVE  r \in Word /\ Cong(n * r, 1, d)
<1>1. W \in Nat /\ W >= 16 /\ n \in Nat
  BY WordSize, WordInt
<1>2. PICK h \in Nat : W = 4 * (h * HalfW) /\ HalfW \in Nat /\ h * HalfW \in Nat
  BY WordSize, SMT
<1>3. PICK g \in Nat : g = h * HalfW /\ W = 4 * g
  BY <1>2
<1>4. PICK x \in Nat : x = (3 * n) % W /\ Cong(x, 3 * n, W) /\ x < W
  <2>1. PICK v \in Int : v = 3 * n
    BY <1>1, SMT
  <2>0. W > 0
    BY <1>1, SMT
  <2>2. Cong(v % W, v, W) /\ v % W \in 0 .. W - 1
    BY <1>1, <2>0, CongMod
  <2>3. v % W \in Nat /\ v % W < W
    BY <2>2, <1>1, SMT
  <2> QED  BY <2>1, <2>2, <2>3
<1>5. PICK k \in Int : x = 3 * n + k * (4 * g)
  BY <1>3, <1>4 DEF Cong
<1>6. PICK j \in Int : j = k * g
  BY SMT
<1>7. x = 3 * n + 4 * j
  <2>1. k * (4 * g) = 4 * (k * g)
    BY SMT
  <2> QED  BY <2>1, <1>5, <1>6
<1>8. PICK t \in Nat : n = 2 * t + 1
  <2>1. n = 2 * (n \div 2) + 1 /\ n \div 2 \in Nat
    BY <1>1, SMT
  <2> QED  BY <2>1
<1>9. Multiple(W, d)
  <2>1. PICK i \in Int : HalfW = i * d
    BY DEF Multiple
  <2>2. W = HalfW * HalfW
    BY WordSize
  <2>3. W = (HalfW * i) * d /\ HalfW * i \in Int
    BY <2>1, <2>2, <1>2, SMT
  <2> QED  BY <2>3 DEF Multiple
<1>10. \E c \in Int : r = x + c /\ Cong(n * (3 * n + c), 1, 32) /\ (c = 2 \/ c = -2)
                    /\ r \in Nat /\ r < W
  <2>1. CASE t % 2 = 0
    <3>1. PICK u \in Nat : t = 2 * u
      <4>1. t = 2 * (t \div 2) /\ t \div 2 \in Nat
        BY <2>1, SMT
      <4> QED  BY <4>1
    <3>2. x \div 2 = 2 * (3 * u + j) + 1 /\ x = 12 * u + 3 + 4 * j
      BY <1>7, <1>8, <3>1, SMT
    <3>3. (x \div 2) % 2 = 1
      BY <3>2, SMT
    <3>4. r = x - 2
      BY <3>3, <1>4 DEF XorTwo
    <3>5. x >= 2
      BY <3>2, SMT
    <3>6. n * (3 * n + (-2)) = 1 + 16 * (u * (3 * u + 1))
      <4>1. n = 4 * u + 1
        BY <3>1, <1>8, SMT
      <4> QED  BY <4>1, SMT
    <3>7. PICK v \in Int : u * (3 * u + 1) = 2 * v
      <4>1. CASE u % 2 = 0
        <5>1. u = 2 * (u \div 2) /\ u \div 2 \in Int
          BY <4>1, SMT
        <5>2. PICK w \in Int : u = 2 * w
          BY <5>1
        <5>3. u * (3 * u + 1) = 2 * (w * (3 * u + 1)) /\ w * (3 * u + 1) \in Int
          BY <5>2, SMT
        <5> QED  BY <5>3
      <4>2. CASE u % 2 = 1
        <5>1. u = 2 * (u \div 2) + 1 /\ u \div 2 \in Int
          BY <4>2, SMT
        <5>2. PICK w \in Int : u = 2 * w + 1
          BY <5>1
        <5>3. 3 * u + 1 = 2 * (3 * w + 2)
          BY <5>2, SMT
        <5>4. u * (2 * (3 * w + 2)) = 2 * (u * (3 * w + 2)) /\ u * (3 * w + 2) \in Int
          BY SMT
        <5> QED  BY <5>3, <5>4
      <4> QED  BY <4>1, <4>2, SMT
    <3>8. n * (3 * n + (-2)) = 1 + v * 32
      BY <3>6, <3>7, SMT
    <3>9. Cong(n * (3 * n + (-2)), 1, 32)
      BY <3>8 DEF Cong
    <3>10. r = x + (-2) /\ -2 \in Int /\ r \in Nat /\ r < W
      BY <3>4, <3>5, <1>1, <1>4, SMT
    <3> QED  BY <3>9, <3>10
  <2>2. CASE t % 2 = 1
    <3>1. PICK u \in Nat : t = 2 * u + 1
      <4>1. t = 2 * (t \div 2) + 1 /\ t \div 2 \in Nat
        BY <2>2, SMT
      <4> QED  BY <4>1
    <3>2. x \div 2 = 2 * (3 * u + j + 2) /\ x = 12 * u + 9 + 4 * j
      BY <1>7, <1>8, <3>1, SMT
    <3>3. (x \div 2) % 2 = 0
      BY <3>2, SMT
    <3>4. r = x + 2
      BY <3>3, <1>4, SMT DEF XorTwo
    <3>5. x + 2 < W
      <4>1. x = 4 * (3 * u + 2 + j) + 1
        BY <3>2, SMT
      <4>2. PICK y \in Int : y = 3 * u + 2 + j
        BY SMT
      <4>3. x = 4 * y + 1
        BY <4>1, <4>2
      <4> QED  BY <4>3, <1>3, <1>4, SMT
    <3>6. n * (3 * n + 2) = 33 + 16 * (u * (3 * u + 5))
      <4>1. n = 4 * u + 3
        BY <3>1, <1>8, SMT
      <4> QED  BY <4>1, SMT
    <3>7. PICK v \in Int : u * (3 * u + 5) = 2 * v
      <4>1. CASE u % 2 = 0
        <5>1. u = 2 * (u \div 2) /\ u \div 2 \in Int
          BY <4>1, SMT
        <5>2. PICK w \in Int : u = 2 * w
          BY <5>1
        <5>3. u * (3 * u + 5) = 2 * (w * (3 * u + 5)) /\ w * (3 * u + 5) \in Int
          BY <5>2, SMT
        <5> QED  BY <5>3
      <4>2. CASE u % 2 = 1
        <5>1. u = 2 * (u \div 2) + 1 /\ u \div 2 \in Int
          BY <4>2, SMT
        <5>2. PICK w \in Int : u = 2 * w + 1
          BY <5>1
        <5>3. 3 * u + 5 = 2 * (3 * w + 4)
          BY <5>2, SMT
        <5>4. u * (2 * (3 * w + 4)) = 2 * (u * (3 * w + 4)) /\ u * (3 * w + 4) \in Int
          BY SMT
        <5> QED  BY <5>3, <5>4
      <4> QED  BY <4>1, <4>2, SMT
    <3>8. n * (3 * n + 2) = 1 + (v + 1) * 32
      BY <3>6, <3>7, SMT
    <3>9. Cong(n * (3 * n + 2), 1, 32)
      <4>1. v + 1 \in Int
        BY SMT
      <4> QED  BY <4>1, <3>8 DEF Cong
    <3>10. r \in Nat /\ r < W /\ 2 \in Int
      BY <3>4, <3>5, <1>4, SMT
    <3> QED  BY <3>4, <3>9, <3>10
  <2> QED  BY <2>1, <2>2, SMT
<1>11. PICK c \in Int : r = x + c /\ Cong(n * (3 * n + c), 1, 32) /\ r \in Nat /\ r < W
  BY <1>10
<1>12. Cong(n * (3 * n + c), 1, d)
  <2>1. n * (3 * n + c) \in Int /\ 1 \in Int /\ 32 \in Int /\ d \in Int
    BY <1>1, SMT
  <2> QED  BY <2>1, <1>11, CongMultiple
<1>13. Cong(r, 3 * n + c, d)
  <2>1. x \in Int /\ 3 * n \in Int /\ W \in Int /\ d \in Int /\ 3 * n + c \in Int
    BY <1>1, SMT
  <2>2. Cong(x, 3 * n, d)
    BY <2>1, <1>4, <1>9, CongMultiple
  <2>3. Cong(c, c, d)
    <3>1. c = c + 0 * d
      BY SMT
    <3> QED  BY <3>1 DEF Cong
  <2>4. Cong(x + c, 3 * n + c, d)
    BY <2>1, <2>2, <2>3, CongAdd
  <2> QED  BY <2>4, <1>11
<1>14. Cong(n * r, 1, d)
  <2>1. n \in Int /\ r \in Int /\ 3 * n + c \in Int /\ d \in Int /\ n * r \in Int
        /\ n * (3 * n + c) \in Int /\ 1 \in Int
    BY <1>1, <1>11, SMT
  <2>2. Cong(n * r, n * (3 * n + c), d)
    BY <2>1, <1>13, CongTimes
  <2> QED  BY <2>1, <2>2, <1>12, CongTrans
<1> QED  BY <1>11, <1>14, WordInt

\* ularith_invmod: three steps on half words and one on the full word give the
\* inverse of every odd word, for every word width the code can have.
THEOREM InvModRight ==
    ASSUME Width, NEW n \in Word, n % 2 = 1
    PROVE  ularith_invmod(n) \in Word /\ (n * ularith_invmod(n)) % W = 1
<1>1. /\ W \in Nat /\ W >= 16 /\ n \in Nat
      /\ HalfW \in Nat /\ HalfW >= 4 /\ W = HalfW * HalfW
  BY WordSize, WordInt
<1>2. PICK d0, d1, d2 \in Nat :
              /\ Multiple(32, d0) /\ Multiple(HalfW, d0)
              /\ Multiple(HalfW, d1) /\ Multiple(d0 * d0, d1)
              /\ Multiple(HalfW, d2) /\ Multiple(d1 * d1, d2)
              /\ Multiple(d2 * d2, HalfW)
  BY HalfChain
<1>3. Multiple(W, HalfW) /\ Multiple(HalfW, HalfW) /\ Multiple(W, W) /\ Multiple(HalfW * HalfW, W)
  <2>1. HalfW = 1 * HalfW /\ W = 1 * W
    BY <1>1, SMT
  <2> QED  BY <2>1, <1>1, SMT DEF Multiple
<1>3a. HalfW > 0 /\ W > 0
  BY <1>1, SMT
<1> PICK r0 : r0 = XorTwo((3 * n) % W)
  OBVIOUS
<1> PICK r1 : r1 = Newton(r0, n, HalfW)
  OBVIOUS
<1> PICK r2 : r2 = Newton(r1, n, HalfW)
  OBVIOUS
<1> PICK r3 : r3 = Newton(r2, n, HalfW)
  OBVIOUS
<1> PICK r4 : r4 = Newton(r3, n, W)
  OBVIOUS
<1>4. r0 \in Word /\ Cong(n * r0, 1, d0)
  BY <1>2, NewtonStart
<1>5. r1 \in Word /\ Cong(n * r1, 1, d1)
  <2>1. /\ HalfW \in Nat /\ HalfW > 0 /\ Multiple(W, HalfW) /\ Multiple(HalfW, d1)
        /\ Multiple(d0 * d0, d1) /\ r0 \in Word /\ Cong(n * r0, 1, d0)
    BY <1>1, <1>2, <1>3, <1>3a, <1>4
  <2> QED  BY <2>1, NewtonStep
<1>6. r2 \in Word /\ Cong(n * r2, 1, d2)
  BY <1>1, <1>2, <1>3, <1>3a, <1>5, NewtonStep
<1>7. r3 \in Word /\ Cong(n * r3, 1, HalfW)
  BY <1>1, <1>2, <1>3, <1>3a, <1>6, NewtonStep
<1>8. r4 \in Word /\ Cong(n * r4, 1, W)
  BY <1>1, <1>3, <1>3a, <1>7, NewtonStep
<1>9. ularith_invmod(n) = r4
  BY DEF ularith_invmod
<1>10. (n * r4) % W = 1
  <2>1. n * r4 \in Int /\ 1 \in 0 .. W - 1
    BY <1>1, <1>8, WordInt, SMT
  <2> QED  BY <2>1, <1>1, <1>8, ModIs
<1> QED  BY <1>8, <1>9, <1>10

-----------------------------------------------------------------------------
(* Residues of one word.                                                   *)

LEMMA ModulAdd ==
    ASSUME Width, NEW n \in Word, NEW a \in 0 .. n - 1, NEW b \in 0 .. n - 1,
           NEW r, r = modul_add(a, b, n)
    PROVE  r \in 0 .. n - 1 /\ (r = a + b \/ r = (a + b) - n)
<1>1. /\ W \in Nat /\ W >= 16 /\ n \in Nat /\ n < W /\ a \in Nat /\ b \in Nat
      /\ a < n /\ b < n
  <2>1. W \in Nat /\ W >= 16 /\ n \in Nat /\ n < W
    BY WordSize, WordInt
  <2> QED  BY <2>1, SMT
<1>2. (a - n) % W = a - n + W
  <2>1. a - n = (-1) * W + (a - n + W) /\ a - n + W \in 0 .. W - 1 /\ a - n \in Int /\ -1 \in Int
    BY <1>1, SMT
  <2> QED  BY <2>1, <1>1, DivIs
<1>3. PICK x \in Word : x = a - n + W /\ x = (a - n) % W
  <2>1. a - n + W \in Nat /\ a - n + W < W
    BY <1>1, SMT
  <2> QED  BY <2>1, <1>2, WordInt
<1>4. PICK t : t = AddC(x, b, 0)
  OBVIOUS
<1>5. t[1] \in Word /\ t[2] \in {0, 1} /\ x + b + 0 = t[1] + W * t[2]
  <2>1. b \in Word
    BY <1>1, SMT DEF Word
  <2> QED  BY <2>1, <1>4, AddCarry
<1>6. r = IF t[2] = 1 THEN t[1] ELSE (a + b) % W
  BY <1>3, <1>4 DEF modul_add
<1>7. t[1] \in Nat /\ t[1] < W
  BY <1>5, WordInt
<1>8. CASE t[2] = 1
  <2>1. r = t[1]
    BY <1>6, <1>8
  <2>2. t[1] = a + b - n
    BY <1>1, <1>3, <1>5, <1>7, <1>8, SMT
  <2> QED  BY <2>1, <2>2, <1>1, <1>7, SMT
<1>9. CASE t[2] = 0
  <2>1. r = (a + b) % W
    BY <1>6, <1>9
  <2>2. a + b < n /\ a + b \in Nat /\ a + b < W
    BY <1>1, <1>3, <1>5, <1>7, <1>9, SMT
  <2>3. (a + b) % W = a + b
    BY <2>2, WordInt
  <2> QED  BY <2>1, <2>2, <2>3, <1>1, SMT
<1> QED  BY <1>5, <1>8, <1>9

\* modul_sub adds the modulus back after a borrow.
LEMMA ModulSub ==
    ASSUME Width, NEW n \in Word, NEW a \in 0 .. n - 1, NEW b \in 0 .. n - 1,
           NEW r, r = modul_sub(a, b, n)
    PROVE  r \in 0 .. n - 1 /\ (r = a - b \/ r = a - b + n)
<1>1. /\ W \in Nat /\ W >= 16 /\ n \in Nat /\ n < W /\ a \in Nat /\ b \in Nat
      /\ a < n /\ b < n
  <2>1. W \in Nat /\ W >= 16 /\ n \in Nat /\ n < W
    BY WordSize, WordInt
  <2> QED  BY <2>1, SMT
<1>2. PICK t : t = SubB(a, b, 0)
  OBVIOUS
<1>3. t[1] \in Word /\ t[2] \in {0, 1} /\ a - b - 0 = t[1] - W * t[2]
  <2>1. a \in Word /\ b \in Word
    BY <1>1, SMT DEF Word
  <2> QED  BY <2>1, <1>2, SubBorrow
<1>4. r = IF t[2] = 0 THEN t[1] ELSE (t[1] + n) % W
  BY <1>2 DEF modul_sub
<1>5. t[1] \in Nat /\ t[1] < W
  BY <1>3, WordInt
<1>6. CASE t[2] = 0
  <2>1. r = t[1]
    BY <1>4, <1>6
  <2>2. t[1] = a - b
    BY <1>1, <1>3, <1>5, <1>6, SMT
  <2> QED  BY <2>1, <2>2, <1>1, <1>5, SMT
<1>7. CASE t[2] = 1
  <2>1. r = (t[1] + n) % W
    BY <1>4, <1>7
  <2>2. t[1] = a - b + W
    BY <1>1, <1>3, <1>5, <1>7, SMT
  <2>3. t[1] + n = 1 * W + (a - b + n) /\ a - b + n \in 0 .. W - 1 /\ t[1] + n \in Int /\ 1 \in Int
    BY <2>2, <1>1, <1>5, SMT
  <2>4. (t[1] + n) % W = a - b + n
    BY <2>3, <1>1, DivIs
  <2> QED  BY <2>1, <2>2, <2>4, <1>1, <1>5, SMT
<1> QED  BY <1>3, <1>6, <1>7

\* modul_neg: the opposite of 0 is 0, not the modulus.
LEMMA ModulNeg ==
    ASSUME Width, NEW n \in Word, NEW a \in 0 .. n - 1, NEW r, r = modul_neg(a, n)
    PROVE  r \in 0 .. n - 1 /\ (r + a = 0 \/ r + a = n)
<1>1. n \in Nat /\ a \in Nat /\ a < n
  BY WordInt, SMT
<1>2. CASE a = 0
  <2>1. r = a
    BY <1>2 DEF modul_neg
  <2>2. a \in 0 .. n - 1 /\ a + a = 0
    BY <1>1, <1>2, SMT
  <2> QED  BY <2>1, <2>2
<1>3. CASE a # 0
  <2>1. r = n - a
    BY <1>3 DEF modul_neg
  <2> QED  BY <2>1, <1>1, <1>3, SMT
<1> QED  BY <1>2, <1>3

\* modul_div2: the carry of a + m is shifted in.
LEMMA ModulDiv2 ==
    ASSUME Width, NEW n \in Word, n % 2 = 1, NEW a \in 0 .. n - 1, NEW r, r = modul_div2(a, n)
    PROVE  r \in 0 .. n - 1 /\ (2 * r = a \/ 2 * r = a + n)
<1>1. /\ W \in Nat /\ n \in Nat /\ n < W /\ a \in Nat /\ a < n
  BY WordSize, WordInt, SMT
<1>2. PICK s : s = AddC(n, a, 0)
  OBVIOUS
<1>3. n + a + 0 = s[1] + W * s[2]
  <2>1. a \in Word
    BY <1>1, SMT DEF Word
  <2> QED  BY <2>1, <1>2, AddCarry
<1>4. r = IF a % 2 = 0 THEN a \div 2 ELSE (n + a) \div 2
  <2>1. n + a + 0 = n + a
    BY <1>1, SMT
  <2> QED  BY <2>1, <1>2, <1>3 DEF modul_div2
<1>5. CASE a % 2 = 0
  <2>1. r = a \div 2
    BY <1>4, <1>5
  <2> QED  BY <2>1, <1>1, <1>5, SMT
<1>6. CASE a % 2 = 1
  <2>1. r = (n + a) \div 2
    BY <1>4, <1>6, SMT
  <2> QED  BY <2>1, <1>1, <1>6, SMT
<1> QED  BY <1>1, <1>5, <1>6, SMT

\* modul_mul: mulq, then divq, which does not fault for reduced operands.
LEMMA ModulMul ==
    ASSUME Width, NEW n \in Word, NEW a \in 0 .. n - 1, NEW b \in 0 .. n - 1,
           NEW r, r = modul_mul(a, b, n)
    PROVE  r \in 0 .. n - 1 /\ Cong(r, a * b, n)
<1>1. n \in Nat /\ n > 0 /\ a \in Word /\ b \in Word
  BY WordSize, SMT DEF Word
<1>2. PICK p : p = ularith_mul_ul_ul_2ul(a, b)
  OBVIOUS
<1>3. Val(p) = a * b /\ a * b \in Int
  BY <1>1, <1>2, MulWords
<1>4. r = (a * b) % n
  BY <1>2, <1>3 DEF modul_mul, ularith_div_2ul_ul_ul_r
<1>5. PICK c \in Int : c = a * b
  BY <1>3
<1>6. Cong(c % n, c, n) /\ c % n \in 0 .. n - 1
  BY <1>1, CongMod
<1> QED  BY <1>4, <1>5, <1>6

(* REDC.                                                                   *)

\* -1/n modulo the word size, as the moduli of Montgomery form hold it.
LEMMA InvmIs ==
    ASSUME Width, NEW n \in Word, n % 2 = 1, NEW i, i = (-ularith_invmod(n)) % W
    PROVE  i \in Word /\ Cong(n * i, -1, W)
<1>1. W \in Nat /\ W >= 16 /\ n \in Nat /\ W > 0
  BY WordSize, WordInt, SMT
<1>2. PICK v \in Word : v = ularith_invmod(n) /\ (n * v) % W = 1
  BY InvModRight
<1>3. v \in Int /\ -v \in Int /\ n * v \in Int /\ -(n * v) \in Int /\ n * (-v) = -(n * v)
  BY <1>1, <1>2, WordInt, SMT
<1>4. i \in 0 .. W - 1 /\ Cong(i, -v, W)
  BY <1>1, <1>2, <1>3, CongMod
<1>5. i \in Word /\ i \in Int /\ n * i \in Int
  <2>1. i \in Word
    BY <1>4 DEF Word
  <2>2. i \in Int
    BY <2>1, WordInt
  <2> QED  BY <2>1, <2>2, <1>1, SMT
<1>6. Cong(n * i, -(n * v), W)
  <2>1. n \in Int /\ W \in Int
    BY <1>1, SMT
  <2>2. Cong(n * i, n * (-v), W)
    BY <2>1, <1>3, <1>4, <1>5, CongTimes
  <2> QED  BY <2>2, <1>3
<1>7. Cong(1, n * v, W)
  BY <1>1, <1>2, <1>3, CongMod
<1>8. PICK k \in Int : 1 = n * v + k * W
  BY <1>7 DEF Cong
<1>9. -(n * v) = -1 + k * W
  BY <1>1, <1>3, <1>8, SMT
<1>10. Cong(-(n * v), -1, W)
  BY <1>9 DEF Cong
<1>11. -1 \in Int /\ W \in Int
  BY <1>1, SMT
<1> QED  BY <1>3, <1>5, <1>6, <1>10, <1>11, CongTrans

\* One REDC step clears a word: the multiple of n it adds has the low word W - l,
\* so that the sum carries exactly when that word, the multiplier or l is not 0.
LEMMA RedcWord ==
    ASSUME Width, NEW n \in Word, NEW i \in Word, Cong(n * i, -1, W), NEW l \in Word,
           NEW u, u = (l * i) % W, NEW q, q = ularith_mul_ul_ul_2ul(u, n)
    PROVE  /\ u \in Word /\ q \in Pair /\ Val(q) = u * n
           /\ B(q[1] # 0) \in {0, 1} /\ B(u # 0) = B(q[1] # 0) /\ B(l # 0) = B(q[1] # 0)
           /\ l + q[1] = W * B(q[1] # 0)
<1>1. W \in Nat /\ W >= 16 /\ W > 0 /\ n \in Nat /\ i \in Nat /\ l \in Nat /\ l < W
  BY WordSize, WordInt, SMT
<1>2. PICK li \in Int : li = l * i
  BY <1>1, SMT
<1>3. u \in 0 .. W - 1 /\ Cong(u, li, W)
  BY <1>1, <1>2, CongMod
<1>4. u \in Word /\ u \in Nat
  BY <1>3, WordInt DEF Word
<1>5. q \in Pair /\ Val(q) = u * n /\ u * n \in Int
  BY <1>4, MulWords
<1>6. q[1] \in Nat /\ q[2] \in Nat /\ q[1] < W /\ Val(q) = q[1] + W * q[2]
  BY <1>5, ValRange, WordInt
<1>7. Cong(q[1], u * n, W)
  <2>1. PICK q1, q2 \in Int : q1 = q[1] /\ q2 = q[2]
    BY <1>6
  <2>2. u * n = q1 + W * q2
    BY <2>1, <1>5, <1>6
  <2>3. q1 = u * n + (-q2) * W /\ -q2 \in Int
    BY <2>2, <1>1, <1>5, SMT
  <2> QED  BY <2>1, <2>3 DEF Cong
<1>8. Cong(u * n, -l, W)
  <2>1. Cong(u * n, li * n, W)
    <3>1. u \in Int /\ n \in Int /\ W \in Int
      BY <1>1, <1>4, SMT
    <3> QED  BY <3>1, <1>3, CongTimes
  <2>2. li * n = l * (n * i) /\ li * n \in Int /\ n * i \in Int /\ -1 \in Int /\ W \in Int
    BY <1>1, <1>2, SMT
  <2>3. Cong(l * (n * i), l * (-1), W)
    <3>1. l \in Int
      BY <1>1, SMT
    <3> QED  BY <3>1, <2>2, CongTimes
  <2>4. l * (-1) = -l /\ -l \in Int
    BY <1>1, SMT
  <2>5. Cong(li * n, -l, W)
    BY <2>2, <2>3, <2>4
  <2> QED  BY <2>1, <2>2, <2>4, <2>5, <1>5, CongTrans
<1>9. Cong(q[1], -l, W)
  <2>1. q[1] \in Int /\ -l \in Int /\ W \in Int
    BY <1>1, <1>6, SMT
  <2> QED  BY <2>1, <1>5, <1>7, <1>8, CongTrans
<1>10. PICK k \in Int : q[1] = -l + k * W
  BY <1>9 DEF Cong
<1>11. PICK q1 \in Nat : q1 = q[1] /\ q1 < W /\ q1 = -l + k * W
  BY <1>6, <1>10
<1>12. (k = 0 /\ q1 = 0 /\ l = 0) \/ (k = 1 /\ l + q1 = W /\ q1 # 0 /\ l # 0)
  <2>1. CASE k <= -1
    <3>1. k * W <= -W
      BY <2>1, <1>1, SMT
    <3> QED  BY <3>1, <1>1, <1>11, SMT
  <2>2. CASE k >= 2
    <3>1. k * W >= 2 * W
      BY <2>2, <1>1, SMT
    <3> QED  BY <3>1, <1>1, <1>11, SMT
  <2>3. CASE k = 0
    BY <2>3, <1>1, <1>11, SMT
  <2>4. CASE k = 1
    BY <2>4, <1>1, <1>11, SMT
  <2> QED  BY <2>1, <2>2, <2>3, <2>4, SMT
<1>13. u = 0 <=> l = 0
  <2>1. ASSUME l = 0 PROVE u = 0
    <3>1. li = 0 /\ 0 \in Nat /\ 0 < W
      BY <2>1, <1>1, <1>2, SMT
    <3>2. 0 % W = 0
      BY <3>1, WordInt
    <3> QED  BY <3>1, <3>2, <1>2
  <2>2. ASSUME u = 0 PROVE l = 0
    <3>1. u * n = 0
      BY <2>2, <1>1, SMT
    <3>2. q[1] + W * q[2] = 0 /\ W * q[2] \in Nat
      BY <3>1, <1>1, <1>5, <1>6, SMT
    <3>3. q1 = 0
      BY <3>2, <1>6, <1>11, SMT
    <3> QED  BY <3>3, <1>12
  <2> QED  BY <2>1, <2>2
<1>14. CASE l = 0
  <2>1. q[1] = 0 /\ u = 0
    BY <1>11, <1>12, <1>13, <1>14
  <2>2. B(q[1] # 0) = 0 /\ B(u # 0) = 0 /\ B(l # 0) = 0
    BY <2>1, <1>14 DEF B
  <2>3. l + q[1] = W * B(q[1] # 0)
    <3>1. W * 0 = 0 /\ 0 + 0 = 0
      BY <1>1, SMT
    <3> QED  BY <3>1, <2>1, <2>2, <1>14
  <2> QED  BY <2>2, <2>3, <1>4, <1>5
<1>15. CASE l # 0
  <2>1. q[1] # 0 /\ u # 0 /\ l + q[1] = W
    BY <1>11, <1>12, <1>13, <1>15
  <2>2. B(q[1] # 0) = 1 /\ B(u # 0) = 1 /\ B(l # 0) = 1
    BY <2>1, <1>15 DEF B
  <2>3. l + q[1] = W * B(q[1] # 0)
    <3>1. W * 1 = W
      BY <1>1, SMT
    <3> QED  BY <3>1, <2>1, <2>2
  <2> QED  BY <2>2, <2>3, <1>4, <1>5
<1> QED  BY <1>14, <1>15

\* A positive factor cancels from comparisons and equations.
LEMMA CancelFactor ==
    ASSUME NEW w \in Nat, w > 0, NEW a \in Int, NEW b \in Int
    PROVE  /\ w * a < w * b => a < b
           /\ w * a <= w * b => a <= b
           /\ w * a = w * b => a = b
<1>1. ASSUME a >= b PROVE w * a >= w * b
  BY <1>1, SMT
<1>2. ASSUME a <= b PROVE w * a <= w * b
  BY <1>2, SMT
<1>3. ASSUME a >= b + 1 PROVE w * a >= w * b + w
  <2>1. w * a >= w * (b + 1)
    BY <1>3, SMT
  <2>2. w * (b + 1) = w * b + w
    BY SMT
  <2> QED  BY <2>1, <2>2
<1>4. ASSUME b >= a + 1 PROVE w * b >= w * a + w
  <2>1. w * b >= w * (a + 1)
    BY <1>4, SMT
  <2>2. w * (a + 1) = w * a + w
    BY SMT
  <2> QED  BY <2>1, <2>2
<1>5. PICK x, y \in Int : x = w * a /\ y = w * b
  BY SMT
<1> QED  BY <1>1, <1>3, <1>4, <1>5, SMT

\* One step of n against one word and its high word: W (h + carry) is l + W h + u n.
LEMMA RedcStep ==
    ASSUME NEW w \in Nat, NEW l \in Int, NEW h \in Int, NEW q1 \in Int, NEW q2 \in Int,
           NEW c \in Int, NEW un \in Int, l + q1 = w * c, un = q1 + w * q2
    PROVE  w * (h + q2 + c) = (l + w * h) + un
<1>1. w * (h + q2 + c) = w * h + w * q2 + w * c
  BY Spread
<1>2. PICK a, b, d \in Int : a = w * h /\ b = w * q2 /\ d = w * c
  BY SMT
<1>3. l + q1 = d /\ un = q1 + b /\ w * (h + q2 + c) = a + b + d
  BY <1>1, <1>2
<1>4. a + b + d = (l + a) + un
  BY <1>3, SMT
<1> QED  BY <1>2, <1>3, <1>4

\* modredcul_mul and modredcul_sqr after the product.
LEMMA RedcAsmRight ==
    ASSUME Width, NEW n \in Word, n > 1, NEW i \in Word, Cong(n * i, -1, W),
           NEW m, m.m = n, m.invm = i, NEW p \in Pair, Val(p) < W * (n - 1),
           NEW r, r = RedcAsm(p, m)
    PROVE  r \in 0 .. n - 1 /\ Cong(r * W, Val(p), n)
<1>1. W \in Nat /\ W >= 16 /\ W > 0 /\ n \in Nat /\ n < W /\ n - 1 \in Nat
  <2>1. W \in Nat /\ W >= 16 /\ n \in Nat /\ n < W
    BY WordSize, WordInt
  <2> QED  BY <2>1, SMT
<1>2. /\ p[1] \in Word /\ p[2] \in Word /\ p[1] \in Nat /\ p[2] \in Nat
      /\ Val(p) \in Nat /\ Val(p) = p[1] + W * p[2]
  BY ValRange
<1> PICK u : u = (p[1] * i) % W
  OBVIOUS
<1> PICK q : q = ularith_mul_ul_ul_2ul(u, n)
  OBVIOUS
<1> PICK c : c = B(q[1] # 0)
  OBVIOUS
<1>3. /\ u \in Word /\ q \in Pair /\ Val(q) = u * n
      /\ c \in {0, 1} /\ B(u # 0) = c /\ B(p[1] # 0) = c
      /\ p[1] + q[1] = W * c
  BY <1>2, RedcWord
<1>4. /\ q[1] \in Nat /\ q[2] \in Nat /\ Val(q) = q[1] + W * q[2] /\ u \in Nat /\ u < W
      /\ c \in Int
  BY <1>3, ValRange, WordInt
<1>5. p[2] < n - 1
  <2>1. W * p[2] < W * (n - 1)
    <3>1. PICK x \in Int : x = W * p[2]
      BY <1>1, <1>2, SMT
    <3>2. PICK y \in Int : y = W * (n - 1)
      BY <1>1, SMT
    <3>3. p[1] + x < y
      BY <3>1, <3>2, <1>2
    <3>4. x < y
      BY <3>3, <1>2, SMT
    <3> QED  BY <3>1, <3>2, <3>4
  <2>2. p[2] \in Int /\ n - 1 \in Int
    BY <1>1, <1>2, SMT
  <2> QED  BY <2>1, <2>2, <1>1, CancelFactor
<1>6. q[2] < n
  <2>1. u * n <= (W - 1) * n /\ (W - 1) * n = W * n - n
    BY <1>1, <1>4, SMT
  <2>2. PICK x, y, z \in Int : x = u * n /\ y = W * n /\ z = W * q[2]
    BY <1>1, <1>4, SMT
  <2>3. x <= y - n /\ x = q[1] + z
    BY <2>1, <2>2, <1>3, <1>4
  <2>4. z < y
    BY <2>3, <1>1, <1>4, SMT
  <2>5. W * q[2] < W * n /\ q[2] \in Int /\ n \in Int
    BY <2>2, <2>4, <1>1, <1>4, SMT
  <2> QED  BY <2>5, <1>1, CancelFactor
<1>7. p[2] + c \in 0 .. n - 1 /\ q[2] \in 0 .. n - 1
  <2>1. PICK p2, q2 \in Nat : p2 = p[2] /\ q2 = q[2]
    BY <1>2, <1>4
  <2>2. p2 < n - 1 /\ q2 < n
    BY <2>1, <1>5, <1>6
  <2>3. p2 + c \in 0 .. n - 1 /\ q2 \in 0 .. n - 1
    <3>1. n \in Nat /\ (c = 0 \/ c = 1)
      BY <1>1, <1>3
    <3> QED  BY <3>1, <2>2, SMT
  <2> QED  BY <2>1, <2>3
<1>8. (p[2] + c) % W = p[2] + c
  <2>1. p[2] + c \in Nat /\ p[2] + c < W
    BY <1>1, <1>7, SMT
  <2> QED  BY <2>1, WordInt
<1>9. r = modul_add(p[2] + c, q[2], n)
  BY <1>3, <1>8 DEF RedcAsm, modul_add
<1>10. r \in 0 .. n - 1 /\ (r = p[2] + c + q[2] \/ r = (p[2] + c + q[2]) - n)
  BY <1>7, <1>9, ModulAdd
<1>11. W * (p[2] + q[2] + c) = Val(p) + u * n /\ u * n \in Int
  <2>1. u * n \in Int
    BY <1>1, <1>4, SMT
  <2>2. W * (p[2] + q[2] + c) = (p[1] + W * p[2]) + u * n
    <3>1. PICK p1, p2, q1, q2 \in Nat : p1 = p[1] /\ p2 = p[2] /\ q1 = q[1] /\ q2 = q[2]
      BY <1>2, <1>4
    <3>2. p1 + q1 = W * c /\ u * n = q1 + W * q2
      BY <3>1, <1>3, <1>4
    <3>3. p1 \in Int /\ p2 \in Int /\ q1 \in Int /\ q2 \in Int /\ c \in Int
      BY <1>4, SMT
    <3>4. W * (p2 + q2 + c) = (p1 + W * p2) + u * n
      BY <3>2, <3>3, <2>1, <1>1, RedcStep
    <3> QED  BY <3>1, <3>4
  <2> QED  BY <2>1, <2>2, <1>2
<1>12. PICK t \in Int : t = p[2] + q[2] + c
  BY <1>2, <1>4, SMT
<1>13. W * t = Val(p) + u * n
  BY <1>11, <1>12
<1>14. r = t \/ r = t - n
  <2>1. PICK p2, q2 \in Nat : p2 = p[2] /\ q2 = q[2]
    BY <1>2, <1>4
  <2>2. p2 + c + q2 = p2 + q2 + c
    BY <1>4, SMT
  <2>3. p[2] + c + q[2] = p[2] + q[2] + c
    BY <2>1, <2>2
  <2>4. p[2] + c + q[2] = t
    BY <2>3, <1>12
  <2> QED  BY <2>4, <1>10
<1>15. r \in Int
  BY <1>10, SMT
<1>16. CASE r = t
  <2>1. r * W = Val(p) + u * n
    <3>1. t * W = W * t
      BY <1>1, SMT
    <3> QED  BY <3>1, <1>13, <1>16
  <2>2. u \in Int
    BY <1>4, SMT
  <2> QED  BY <2>1, <2>2, <1>10 DEF Cong
<1>17. CASE r = t - n
  <2>1. (t - n) * W = W * t + (-W) * n
    BY <1>1, SMT
  <2>2. (t - n) * W = (Val(p) + u * n) + (-W) * n
    BY <2>1, <1>13
  <2>3. (Val(p) + u * n) + (-W) * n = Val(p) + (u - W) * n
    <3>1. (u - W) * n = u * n + (-W) * n
      BY <1>1, <1>4, SMT
    <3>2. PICK x, y, v \in Int : x = u * n /\ y = (-W) * n /\ v = Val(p)
      BY <1>1, <1>2, <1>4, SMT
    <3>3. (v + x) + y = v + (x + y)
      BY SMT
    <3> QED  BY <3>1, <3>2, <3>3
  <2>4. r * W = Val(p) + (u - W) * n
    BY <2>2, <2>3, <1>17
  <2>5. u - W \in Int
    BY <1>1, <1>4, SMT
  <2> QED  BY <2>4, <2>5, <1>10 DEF Cong
<1> QED  BY <1>14, <1>16, <1>17

(* Two words.                                                              *)

LEMMA AddCPair ==
    ASSUME Width, NEW x \in Word, NEW y \in Word, NEW c \in {0, 1}, NEW s, s = AddC(x, y, c)
    PROVE  s \in Pair /\ Val(s) = x + y + c
<1>1. /\ s[1] \in Word /\ s[2] \in {0, 1} /\ x + y + c = s[1] + W * s[2]
  BY AddCarry
<1>2. s[2] \in Word
  BY <1>1, WordInt
<1>3. s = <<s[1], s[2]>>
  BY DEF AddC
<1>4. s \in Pair /\ Val(s) = s[1] + W * s[2]
  BY <1>1, <1>2, <1>3, PairIs
<1> QED  BY <1>1, <1>4

\* The first REDC step of a multiplication, on the product of the low words.
LEMMA RedcLowRight ==
    ASSUME Width, NEW n \in Pair, Val(n) + W <= W * W, NEW i \in Word, Cong(n[1] * i, -1, W),
           NEW m, m.m = n, m.invm = i, NEW p \in Pair, NEW t, t = RedcLow(p, m)
    PROVE  /\ t \in Pair /\ Val(t) < W + Val(n)
           /\ \E u \in Word : W * Val(t) = Val(p) + u * Val(n)
<1>1. W \in Nat /\ W >= 16 /\ W > 0
  <2>1. W \in Nat /\ W >= 16
    BY WordSize
  <2> QED  BY <2>1, SMT
<1>2. /\ p[1] \in Word /\ p[2] \in Word /\ p[1] \in Nat /\ p[2] \in Nat
      /\ Val(p) \in Nat /\ Val(p) = p[1] + W * p[2] /\ Val(p) < W * W
      /\ n[1] \in Word /\ n[2] \in Word /\ n[1] \in Nat /\ n[2] \in Nat
      /\ Val(n) \in Nat /\ Val(n) = n[1] + W * n[2]
  BY ValRange
<1> PICK u : u = (p[1] * i) % W
  OBVIOUS
<1> PICK q : q = ularith_mul_ul_ul_2ul(u, n[1])
  OBVIOUS
<1> PICK c : c = B(q[1] # 0)
  OBVIOUS
<1>3. /\ u \in Word /\ q \in Pair /\ Val(q) = u * n[1]
      /\ c \in {0, 1} /\ p[1] + q[1] = W * c
  BY <1>2, RedcWord
<1>4. /\ q[1] \in Nat /\ q[2] \in Nat /\ Val(q) = q[1] + W * q[2] /\ u \in Nat /\ u < W
      /\ c \in Int /\ q[2] \in Word
  BY <1>3, ValRange, WordInt
<1> PICK s : s = AddC(p[2], q[2], c)
  OBVIOUS
<1>5. s \in Pair /\ Val(s) = p[2] + q[2] + c
  BY <1>2, <1>3, <1>4, AddCPair
<1> PICK z : z = ularith_mul_ul_ul_2ul(u, n[2])
  OBVIOUS
<1>6. z \in Pair /\ Val(z) = u * n[2] /\ u * n[2] \in Nat
  BY <1>2, <1>3, MulWords
<1>7. W * (Val(s) + Val(z)) = Val(p) + u * Val(n)
  <2>1. W * (p[2] + q[2] + c) = (p[1] + W * p[2]) + u * n[1]
    <3>1. PICK p1, p2, q1, q2 \in Nat : p1 = p[1] /\ p2 = p[2] /\ q1 = q[1] /\ q2 = q[2]
      BY <1>2, <1>4
    <3>2. PICK b \in Int : b = u * n[1]
      BY <1>2, <1>4, SMT
    <3>3. p1 + q1 = W * c /\ b = q1 + W * q2
      BY <3>1, <3>2, <1>3, <1>4
    <3>4. p1 \in Int /\ p2 \in Int /\ q1 \in Int /\ q2 \in Int /\ c \in Int
      BY <1>4, SMT
    <3>5. W * (p2 + q2 + c) = (p1 + W * p2) + b
      BY <3>3, <3>4, <1>1, RedcStep
    <3> QED  BY <3>1, <3>2, <3>5
  <2>2. PICK n1, n2 \in Int : n1 = n[1] /\ n2 = n[2]
    BY <1>2
  <2>3. u * (n1 + W * n2) = u * n1 + W * (u * n2)
    BY <1>1, <1>4, SMT
  <2>4. PICK x, y, b, v \in Int : x = Val(s) /\ y = u * n2 /\ b = u * n1 /\ v = Val(p)
    <3>1. Val(s) \in Int /\ u * n2 \in Int /\ u * n1 \in Int /\ Val(p) \in Int
      BY <1>2, <1>4, <1>5, SMT
    <3> QED  BY <3>1
  <2>5. W * x = v + b /\ u * Val(n) = b + W * y /\ Val(z) = y
    BY <2>1, <2>2, <2>3, <2>4, <1>2, <1>5, <1>6
  <2>6. W * (x + y) = W * x + W * y
    BY <1>1, SMT
  <2>7. W * (x + y) = v + (b + W * y)
    <3>1. PICK wy \in Int : wy = W * y
      BY <1>1, SMT
    <3>2. (v + b) + wy = v + (b + wy)
      BY SMT
    <3> QED  BY <3>1, <3>2, <2>5, <2>6
  <2> QED  BY <2>4, <2>5, <2>7
<1>8. PICK x \in Nat : x = Val(s) + Val(z)
  BY <1>5, <1>6, ValRange, SMT
<1>9. W * x = Val(p) + u * Val(n)
  BY <1>7, <1>8
<1>10. x < W + Val(n)
  <2>1. u * Val(n) <= W * Val(n)
    BY <1>1, <1>2, <1>4, SMT
  <2>2. W * (W + Val(n)) = W * W + W * Val(n)
    BY <1>1, <1>2, SMT
  <2>3. PICK d, e, f, v \in Int : d = u * Val(n) /\ e = W * Val(n) /\ f = W * W /\ v = Val(p)
    <3>1. u * Val(n) \in Int /\ W * Val(n) \in Int /\ W * W \in Int /\ Val(p) \in Int
      BY <1>1, <1>2, <1>4, SMT
    <3> QED  BY <3>1
  <2>4. d <= e /\ W * (W + Val(n)) = f + e /\ W * x = v + d /\ v < f
    BY <2>1, <2>2, <2>3, <1>2, <1>9
  <2>5. W * x < W * (W + Val(n))
    BY <2>4, SMT
  <2>6. W + Val(n) \in Int /\ x \in Int
    BY <1>1, <1>2, SMT
  <2> QED  BY <2>5, <2>6, <1>1, CancelFactor
<1>11. Val(s) + Val(z) < W * W
  <2>1. W * W \in Int
    BY <1>1, SMT
  <2> QED  BY <2>1, <1>1, <1>2, <1>8, <1>10, SMT
<1>12. t = ularith_add_2ul_2ul(s, z)
  BY DEF RedcLow
<1>13. t \in Pair /\ Val(t) = x
  BY SMTT(30), <1>5, <1>6, <1>8, <1>11, <1>12, AddPairsLow
<1> QED  BY <1>3, <1>9, <1>10, <1>13

\* The second REDC step, on three words, and the final subtraction.
LEMMA RedcHighRight ==
    ASSUME Width, NEW n \in Pair, 2 * Val(n) <= W * W, NEW i \in Word, Cong(n[1] * i, -1, W),
           NEW m, m.m = n, m.invm = i, NEW l \in Word, NEW h \in Pair,
           NEW y \in Nat, y = l + W * Val(h), y < W * Val(n) + Val(n),
           NEW r, r = RedcHigh(l, h, m)
    PROVE  r \in Pair /\ Val(r) \in 0 .. Val(n) - 1 /\ Cong(W * Val(r), y, Val(n))
<1>1. W \in Nat /\ W >= 16 /\ W > 0
  <2>1. W \in Nat /\ W >= 16
    BY WordSize
  <2> QED  BY <2>1, SMT
<1>2. /\ h[1] \in Word /\ h[2] \in Word /\ h[1] \in Nat /\ h[2] \in Nat
      /\ Val(h) \in Nat /\ Val(h) = h[1] + W * h[2]
      /\ n[1] \in Word /\ n[2] \in Word /\ n[1] \in Nat /\ n[2] \in Nat
      /\ Val(n) \in Nat /\ Val(n) = n[1] + W * n[2]
  BY ValRange
<1>3. l \in Nat /\ l < W
  BY WordInt
<1>u. PICK u : u = (l * i) % W
  OBVIOUS
<1>q. PICK q : q = ularith_mul_ul_ul_2ul(u, n[1])
  OBVIOUS
<1>c. PICK c : c = B(q[1] # 0)
  OBVIOUS
<1>4. /\ u \in Word /\ q \in Pair /\ Val(q) = u * n[1]
      /\ c \in {0, 1} /\ l + q[1] = W * c
  BY <1>2, <1>u, <1>q, <1>c, RedcWord
<1>5. /\ q[1] \in Nat /\ q[2] \in Nat /\ Val(q) = q[1] + W * q[2] /\ u \in Nat /\ u < W
      /\ c \in Int /\ q[2] \in Word
  BY <1>4, ValRange, WordInt
<1>s. PICK s : s = AddC(h[1], q[2], c)
  OBVIOUS
<1>6. s \in Pair /\ s[1] \in Word /\ s[2] \in Word /\ s[1] \in Nat /\ s[2] \in Nat
      /\ s[1] + W * s[2] = h[1] + q[2] + c
  <2>1. s \in Pair /\ Val(s) = h[1] + q[2] + c
    BY <1>2, <1>4, <1>5, <1>s, AddCPair
  <2> QED  BY <2>1, ValRange
<1>z. PICK z : z = ularith_mul_ul_ul_2ul(u, n[2])
  OBVIOUS
<1>7. z \in Pair /\ Val(z) = u * n[2] /\ u * n[2] \in Nat
  BY <1>2, <1>4, <1>z, MulWords
<1>8. PICK v \in Nat : v = Val(h) + q[2] + c
  <2>1. c \in Nat
    BY <1>4, WordInt
  <2>2. Val(h) + q[2] + c \in Nat
    BY <2>1, <1>2, <1>5, SMT
  <2> QED  BY <2>2
<1>9. v = s[1] + W * (h[2] + s[2])
  <2>1. PICK h1, h2, s1, s2, q2 \in Nat : /\ h1 = h[1] /\ h2 = h[2] /\ s1 = s[1] /\ s2 = s[2]
                                          /\ q2 = q[2]
    BY <1>2, <1>5, <1>6
  <2>2. s1 + W * s2 = h1 + q2 + c /\ v = (h1 + W * h2) + q2 + c
    BY <2>1, <1>2, <1>6, <1>8
  <2>3. PICK a, b \in Int : a = W * s2 /\ b = W * h2
    BY <1>1, SMT
  <2>4. W * (h2 + s2) = b + a
    <3>1. W * (h2 + s2) = W * h2 + W * s2
      BY <1>1, SMT
    <3> QED  BY <3>1, <2>3
  <2>5. s1 + a = h1 + q2 + c /\ v = (h1 + b) + q2 + c
    BY <2>2, <2>3
  <2>6. v = s1 + (b + a)
    BY <2>5, <1>5, SMT
  <2> QED  BY <2>1, <2>4, <2>6
<1>10. PICK x \in Nat : x = v + Val(z) /\ Val(z) \in Nat
  <2>1. Val(z) \in Nat
    BY <1>7, ValRange
  <2>2. v + Val(z) \in Nat
    BY <2>1, SMT
  <2> QED  BY <2>1, <2>2
<1>11. W * x = y + u * Val(n)
  <2>1. PICK q1, q2, hh \in Nat : q1 = q[1] /\ q2 = q[2] /\ hh = Val(h)
    BY <1>2, <1>5
  <2>2. PICK b \in Int : b = u * n[1]
    BY <1>2, <1>5, SMT
  <2>3. l + q1 = W * c /\ b = q1 + W * q2 /\ v = hh + q2 + c /\ y = l + W * hh
    BY <2>1, <2>2, <1>4, <1>5, <1>8
  <2>4. q1 \in Int /\ q2 \in Int /\ hh \in Int /\ c \in Int /\ l \in Int
    BY <1>3, <1>5, SMT
  <2>5. W * (hh + q2 + c) = (l + W * hh) + b
    <3>1. l + q1 = W * c /\ b = q1 + W * q2
      BY <2>3
    <3> QED  BY <3>1, <2>4, <1>1, RedcStep
  <2>6. W * v = y + b
    BY <2>3, <2>5
  <2>7. PICK n1, n2 \in Int : n1 = n[1] /\ n2 = n[2]
    BY <1>2
  <2>8. u * (n1 + W * n2) = u * n1 + W * (u * n2)
    BY <1>1, <1>5, SMT
  <2>9. PICK d \in Int : d = u * n2
    BY <1>5, SMT
  <2>10. u * Val(n) = b + W * d /\ x = v + d
    BY <2>2, <2>7, <2>8, <2>9, <1>2, <1>7, <1>10
  <2>11. W * (v + d) = W * v + W * d
    BY <1>1, SMT
  <2>12. PICK wd \in Int : wd = W * d
    BY <1>1, SMT
  <2>13. (y + b) + wd = y + (b + wd)
    BY SMT
  <2> QED  BY <2>6, <2>10, <2>11, <2>12, <2>13
<1>12. x < 2 * Val(n)
  <2>1. u * Val(n) <= (W - 1) * Val(n) /\ (W - 1) * Val(n) = W * Val(n) - Val(n)
    <3>1. PICK f \in Nat : f = Val(n)
      BY <1>2
    <3>2. u <= W - 1
      BY <1>1, <1>5, SMT
    <3>3. u * f <= (W - 1) * f /\ (W - 1) * f = W * f - f
      BY <3>2, <1>1, <1>5, SMT
    <3> QED  BY <3>1, <3>3
  <2>2. PICK d, e, f \in Int : d = u * Val(n) /\ e = W * Val(n) /\ f = Val(n)
    <3>1. u * Val(n) \in Int /\ W * Val(n) \in Int /\ Val(n) \in Int
      BY <1>1, <1>2, <1>5, SMT
    <3> QED  BY <3>1
  <2>3. d <= e - f /\ y < e + f /\ W * x = y + d
    BY <2>1, <2>2, <1>11
  <2>4. W * x < e + e
    BY <2>3, SMT
  <2>5. W * (2 * Val(n)) = W * Val(n) + W * Val(n)
    BY <1>1, <1>2, SMT
  <2>6. W * x < W * (2 * Val(n))
    BY <2>2, <2>4, <2>5
  <2>7. x \in Int /\ 2 * Val(n) \in Int
    BY <1>2, SMT
  <2> QED  BY <2>6, <2>7, <1>1, CancelFactor
<1>13. x < W * W /\ v < W * W
  <2>1. W * W \in Int /\ 2 * Val(n) \in Int
    BY <1>1, <1>2, SMT
  <2>2. x < W * W
    BY <2>1, <1>12, SMT
  <2> QED  BY <2>1, <2>2, <1>10, SMT
<1>14. h[2] + s[2] \in Nat /\ h[2] + s[2] < W
  <2>1. PICK g \in Nat : g = h[2] + s[2]
    <3>1. h[2] + s[2] \in Nat
      BY <1>2, <1>6, SMT
    <3> QED  BY <3>1
  <2>2. s[1] + W * g < W * W /\ s[1] \in Nat /\ g \in Int
    BY <2>1, <1>6, <1>9, <1>13, SMT
  <2>3. ~(g >= W)
    BY <2>2, <1>1, HighBelow
  <2>4. g < W
    BY <2>3, <1>1, SMT
  <2> QED  BY <2>1, <2>4
<1>15. (h[2] + s[2]) % W = h[2] + s[2] /\ h[2] + s[2] \in Word
  BY <1>14, WordInt
<1>k. PICK k : k = <<s[1], h[2] + s[2]>>
  OBVIOUS
<1>16. k \in Pair /\ Val(k) = v
  <2>1. k \in Pair /\ Val(k) = s[1] + W * (h[2] + s[2])
    BY <1>6, <1>15, <1>k, PairIs
  <2> QED  BY <2>1, <1>9
<1>t. PICK t : t = ularith_add_2ul_2ul(k, z)
  OBVIOUS
<1>17. t \in Pair /\ Val(t) = x
  BY <1>7, <1>10, <1>13, <1>16, <1>t, AddPairsLow
<1>18. r = ularith_sub_2ul_2ul_ge(t, n)
  BY <1>15, <1>u, <1>q, <1>c, <1>s, <1>z, <1>k, <1>t DEF RedcHigh
<1>19. /\ r \in Pair /\ Val(r) \in 0 .. Val(n) - 1
       /\ Val(r) = Val(t) \/ Val(r) = Val(t) - Val(n)
  <2>1. Val(t) < 2 * Val(n)
    BY <1>12, <1>17
  <2> QED  BY <2>1, <1>17, <1>18, SubGe
<1>20. PICK rr, nn \in Int : rr = Val(r) /\ nn = Val(n) /\ (rr = x \/ rr = x - nn)
  <2>1. Val(r) \in Int /\ Val(n) \in Int
    BY <1>2, <1>19, SMT
  <2> QED  BY <2>1, <1>17, <1>19
<1>21. W * x = y + u * nn
  BY <1>11, <1>20
<1>22. CASE rr = x
  <2>1. W * rr = y + u * nn /\ u \in Int
    BY <1>5, <1>21, <1>22, SMT
  <2> QED  BY <2>1, <1>19, <1>20 DEF Cong
<1>23. CASE rr = x - nn
  <2>1. W * (x - nn) = W * x - W * nn /\ (u - W) * nn = u * nn - W * nn /\ u - W \in Int
    BY <1>1, <1>5, SMT
  <2>2. PICK a, b \in Int : a = u * nn /\ b = W * nn
    BY <1>1, <1>5, SMT
  <2>3. (y + a) - b = y + (a - b)
    BY SMT
  <2>4. W * rr = y + (u - W) * nn
    BY <2>1, <2>2, <2>3, <1>21, <1>23
  <2> QED  BY <2>1, <2>4, <1>19, <1>20 DEF Cong
<1> QED  BY <1>20, <1>22, <1>23

(* Multiplications: with a = a1 + W a2 and b = b1 + W b2, after the first REDC  *)
(* step the four products of words add up to (a b + u n) / W.                *)

LEMMA HighWord ==
    ASSUME Width, NEW n \in Nat, NEW G \in Nat, n <= W * G, NEW a \in Pair, Val(a) < n
    PROVE  a[2] < G
<1>1. W \in Nat /\ W > 0
  BY WordSize, SMT
<1>2. a[1] \in Nat /\ a[2] \in Nat /\ Val(a) = a[1] + W * a[2]
  BY ValRange
<1>3. PICK x, y \in Int : x = W * a[2] /\ y = W * G
  BY <1>1, <1>2, SMT
<1>4. Val(a) = a[1] + x /\ n <= y
  BY <1>2, <1>3
<1>5. x < y
  BY <1>2, <1>4, SMT
<1>6. W * a[2] < W * G /\ a[2] \in Int /\ G \in Int
  BY <1>2, <1>3, <1>5, SMT
<1> QED  BY <1>1, <1>6, CancelFactor

\* The two cross products and what REDC left fit in two words.
LEMMA CrossBound ==
    ASSUME NEW w \in Nat, NEW G \in Nat, 1 + 3 * G <= w, NEW n \in Nat, n <= w * G,
           NEW T \in Nat, T < w + n,
           NEW a1 \in Nat, a1 < w, NEW a2 \in Nat, a2 < G,
           NEW b1 \in Nat, b1 < w, NEW b2 \in Nat, b2 < G
    PROVE  T + a1 * b2 + a2 * b1 < w * w /\ a1 * b2 \in Nat /\ a2 * b1 \in Nat
<1>1. a1 * b2 <= w * b2 /\ w * b2 <= w * G
  <2>1. a1 * b2 <= w * b2
    BY SMT
  <2>2. w * b2 <= w * G
    BY SMT
  <2> QED  BY <2>1, <2>2
<1>2. a2 * b1 <= a2 * w /\ a2 * w <= G * w /\ G * w = w * G
  <2>1. a2 * b1 <= a2 * w
    BY SMT
  <2>2. a2 * w <= G * w
    BY SMT
  <2>3. G * w = w * G
    BY SMT
  <2> QED  BY <2>1, <2>2, <2>3
<1>3. w * (1 + 3 * G) <= w * w /\ w * (1 + 3 * G) = w + 3 * (w * G)
  <2>1. w * (1 + 3 * G) <= w * w
    BY SMT
  <2>2. w * (1 + 3 * G) = w + 3 * (w * G)
    BY SMT
  <2> QED  BY <2>1, <2>2
<1>4. PICK x, y, z, s, p, q \in Int : /\ x = a1 * b2 /\ y = a2 * b1 /\ z = w * G /\ s = w * w
                                      /\ p = w * b2 /\ q = a2 * w
  BY SMT
<1>5. x <= p /\ p <= z /\ y <= q /\ q <= z /\ w + 3 * z <= s /\ n <= z
  BY <1>1, <1>2, <1>3, <1>4
<1>6. T + x + y < s
  BY <1>5, SMT
<1>7. a1 * b2 \in Nat /\ a2 * b1 \in Nat
  BY SMT
<1> QED  BY <1>4, <1>6, <1>7

\* The schoolbook product of two pairs plus the multiples REDC adds.
LEMMA MulSum ==
    ASSUME NEW w \in Nat, w > 0, NEW n \in Nat, NEW T \in Nat, NEW u \in Nat, u < w,
           NEW a1 \in Nat, NEW a2 \in Nat, NEW b1 \in Nat, NEW b2 \in Nat,
           w * T = a1 * b1 + u * n, a1 + w * a2 < n, b1 + w * b2 < w * w
    PROVE  /\ w * (T + a1 * b2 + a2 * b1 + w * (a2 * b2))
                = (a1 + w * a2) * (b1 + w * b2) + u * n
           /\ T + a1 * b2 + a2 * b1 + w * (a2 * b2) < w * n + n
<1>1. (a1 + w * a2) * (b1 + w * b2)
        = a1 * b1 + (w * (a1 * b2) + w * (a2 * b1) + w * (w * (a2 * b2)))
  BY SMT
<1>2. PICK c, d, e \in Nat : c = a1 * b2 /\ d = a2 * b1 /\ e = w * (a2 * b2)
  BY SMT
<1>3. w * (T + c + d + e) = w * T + (w * c + w * d + w * e)
  BY SMT
<1>4. PICK f, g, k \in Int : f = a1 * b1 /\ g = u * n /\ k = w * c + w * d + w * e
  BY SMT
<1>5. PICK a, b \in Nat : a = a1 + w * a2 /\ b = b1 + w * b2
  BY SMT
<1>6. (f + g) + k = (f + k) + g
  BY SMT
<1>7. w * (T + c + d + e) = a * b + u * n
  BY <1>1, <1>2, <1>3, <1>4, <1>5, <1>6
<1>8. PICK y \in Nat : y = T + c + d + e
  BY SMT
<1>9. y < w * n + n
  <2>1. a * b <= n * b /\ n * b <= n * (w * w)
    <3>1. a <= n /\ b <= w * w
      BY <1>5, SMT
    <3>2. a * b <= n * b
      BY <3>1, SMT
    <3>3. PICK s \in Int : s = w * w
      BY SMT
    <3>4. b <= s
      BY <3>1, <3>3
    <3>5. n * b <= n * s
      BY <3>4, SMT
    <3> QED  BY <3>2, <3>3, <3>5
  <2>2. u * n <= w * n - n
    <3>1. u <= w - 1
      BY SMT
    <3>2. u * n <= (w - 1) * n /\ (w - 1) * n = w * n - n
      BY <3>1, SMT
    <3> QED  BY <3>2
  <2>3. w * (w * n + n) = n * (w * w) + w * n
    BY SMT
  <2>4. n > 0
    BY <1>5, SMT
  <2>5. PICK ab, nb, nw, un, wn \in Int :
          ab = a * b /\ nb = n * b /\ nw = n * (w * w) /\ un = u * n /\ wn = w * n
    BY SMT
  <2>6. /\ ab <= nb /\ nb <= nw /\ un <= wn - n /\ w * y = ab + un
        /\ w * (w * n + n) = nw + wn
    BY <2>1, <2>2, <2>3, <2>5, <1>7, <1>8
  <2>7. w * y < w * (w * n + n)
    BY <2>4, <2>6, SMT
  <2>8. w * n + n \in Int /\ y \in Int
    BY SMT
  <2> QED  BY <2>7, <2>8, CancelFactor
<1> QED  BY <1>2, <1>5, <1>7, <1>8, <1>9

\* From the sum of the products on, for the four operations: x holds the first
\* three terms, h its high word and the product of the high words.
LEMMA MulEnd ==
    ASSUME Width, NEW n \in Pair, 2 * Val(n) <= W * W, NEW i \in Word, Cong(n[1] * i, -1, W),
           NEW m, m.m = n, m.invm = i,
           NEW a \in Pair, Val(a) < Val(n), NEW b \in Pair,
           NEW T \in Nat, NEW u \in Word, W * T = a[1] * b[1] + u * Val(n),
           NEW x \in Pair, Val(x) = T + a[1] * b[2] + a[2] * b[1],
           NEW h \in Pair, Val(h) = x[2] + a[2] * b[2],
           NEW r, r = RedcHigh(x[1], h, m)
    PROVE  /\ r \in Pair /\ Val(r) \in 0 .. Val(n) - 1
           /\ Cong(Val(r) * (W * W), Val(a) * Val(b), Val(n))
<1>1. W \in Nat /\ W > 0
  BY WordSize, SMT
<1>2. /\ x[1] \in Word /\ x[2] \in Nat /\ x[1] \in Nat /\ Val(x) = x[1] + W * x[2]
      /\ a[1] \in Nat /\ a[2] \in Nat /\ Val(a) = a[1] + W * a[2]
      /\ b[1] \in Nat /\ b[2] \in Nat /\ Val(b) = b[1] + W * b[2]
      /\ Val(b) < W * W /\ Val(n) \in Nat /\ Val(h) \in Nat
      /\ Val(a) \in Nat /\ Val(b) \in Nat
  BY ValRange
<1>3. u \in Nat /\ u < W
  BY WordInt
<1>4. PICK a1, a2, b1, b2, x1, x2, nn, hh \in Nat :
         /\ a1 = a[1] /\ a2 = a[2] /\ b1 = b[1] /\ b2 = b[2] /\ x1 = x[1] /\ x2 = x[2]
         /\ nn = Val(n) /\ hh = Val(h)
  BY <1>2
<1>5. /\ W * (T + a1 * b2 + a2 * b1 + W * (a2 * b2)) = (a1 + W * a2) * (b1 + W * b2) + u * nn
      /\ T + a1 * b2 + a2 * b1 + W * (a2 * b2) < W * nn + nn
  <2>1. W * T = a1 * b1 + u * nn /\ a1 + W * a2 < nn /\ b1 + W * b2 < W * W
    BY <1>2, <1>4
  <2> QED  BY <2>1, <1>1, <1>3, MulSum
<1>6. PICK y \in Nat : y = x1 + W * hh
  BY <1>1, SMT
<1>7. y = T + a1 * b2 + a2 * b1 + W * (a2 * b2)
  <2>1. x1 + W * x2 = T + a1 * b2 + a2 * b1 /\ hh = x2 + a2 * b2
    BY <1>2, <1>4
  <2>2. PICK c \in Nat : c = a2 * b2
    BY SMT
  <2>3. PICK e \in Int : e = T + a1 * b2 + a2 * b1
    BY SMT
  <2>4. W * (x2 + c) = W * x2 + W * c
    BY <1>1, SMT
  <2>5. PICK f, g \in Int : f = W * x2 /\ g = W * c
    BY <1>1, SMT
  <2>6. x1 + f = e /\ y = x1 + (f + g)
    BY <2>1, <2>2, <2>3, <2>4, <2>5, <1>6
  <2>7. y = e + g
    BY <2>6, SMT
  <2> QED  BY <2>2, <2>3, <2>5, <2>7
<1>8. y = x[1] + W * Val(h) /\ y < W * Val(n) + Val(n)
  BY <1>4, <1>5, <1>6, <1>7
<1>9. r \in Pair /\ Val(r) \in 0 .. Val(n) - 1 /\ Cong(W * Val(r), y, Val(n))
  BY <1>2, <1>8, RedcHighRight
<1>10. W * y = Val(a) * Val(b) + u * Val(n)
  BY <1>2, <1>4, <1>5, <1>7
<1>11. Val(r) \in Nat
  BY <1>9, ValRange
<1>12. PICK k \in Int : W * Val(r) = y + k * Val(n)
  BY <1>9 DEF Cong
<1>13. Val(r) * (W * W) = Val(a) * Val(b) + (u + W * k) * Val(n)
  <2>1. PICK rr, ab \in Int : rr = Val(r) /\ ab = Val(a) * Val(b)
    <3>1. Val(r) \in Int /\ Val(a) * Val(b) \in Int
      BY <1>2, <1>11, SMT
    <3> QED  BY <3>1
  <2>2. W * rr = y + k * nn /\ W * y = ab + u * nn
    BY <2>1, <1>4, <1>10, <1>12
  <2>3. rr * (W * W) = W * (W * rr)
    BY <1>1, SMT
  <2>4. W * (y + k * nn) = W * y + W * (k * nn)
    BY <1>1, SMT
  <2>5. (u + W * k) * nn = u * nn + W * (k * nn)
    BY <1>1, <1>3, SMT
  <2>6. PICK c, d \in Int : c = u * nn /\ d = W * (k * nn)
    BY <1>1, <1>3, SMT
  <2>7. (ab + c) + d = ab + (c + d)
    BY SMT
  <2> QED  BY <2>1, <2>2, <2>3, <2>4, <2>5, <2>6, <2>7, <1>4
<1>14. u + W * k \in Int
  BY <1>1, <1>3, SMT
<1> QED  BY <1>9, <1>13, <1>14 DEF Cong

\* The room a modulus of at most W * G leaves in two words.
LEMMA RoomTwo ==
    ASSUME NEW w \in Nat, NEW G \in Nat, 1 + 3 * G <= w, NEW n \in Nat, n <= w * G, w >= 16
    PROVE  2 * n <= w * w /\ n + w <= w * w
<1>1. w * (1 + 3 * G) <= w * w /\ w * (1 + 3 * G) = w + 3 * (w * G)
  <2>1. w * (1 + 3 * G) <= w * w
    BY SMT
  <2>2. w * (1 + 3 * G) = w + 3 * (w * G)
    BY SMT
  <2> QED  BY <2>1, <2>2
<1>2. PICK s, g \in Nat : s = w * w /\ g = w * G
  BY SMT
<1>3. w + 3 * g <= s /\ n <= g
  BY <1>1, <1>2
<1>4. 2 * n <= s /\ n + w <= s
  BY <1>3, SMT
<1> QED  BY <1>2, <1>4

\* After the first REDC step of a multiplication the cross products fit.
LEMMA MulStart ==
    ASSUME Width, NEW n \in Pair, NEW G \in Nat, Val(n) <= W * G, 1 + 3 * G <= W,
           NEW i \in Word, Cong(n[1] * i, -1, W), NEW m, m.m = n, m.invm = i,
           NEW a \in Pair, Val(a) < Val(n), NEW b \in Pair, Val(b) < Val(n),
           NEW t, t = RedcLow(ularith_mul_ul_ul_2ul(a[1], b[1]), m)
    PROVE  /\ t \in Pair /\ Val(t) \in Nat /\ 2 * Val(n) <= W * W
           /\ a[1] \in Word /\ a[2] \in Word /\ b[1] \in Word /\ b[2] \in Word
           /\ a[1] \in Nat /\ a[2] \in Nat /\ b[1] \in Nat /\ b[2] \in Nat
           /\ a[2] < G /\ b[2] < G /\ a[1] * b[2] \in Nat /\ a[2] * b[1] \in Nat
           /\ Val(t) + a[1] * b[2] + a[2] * b[1] < W * W
           /\ \E u \in Word : W * Val(t) = a[1] * b[1] + u * Val(n)
<1>1. W \in Nat /\ W >= 16
  BY WordSize
<1>2. /\ a[1] \in Word /\ a[2] \in Word /\ b[1] \in Word /\ b[2] \in Word
      /\ a[1] \in Nat /\ a[2] \in Nat /\ b[1] \in Nat /\ b[2] \in Nat
      /\ a[1] < W /\ b[1] < W /\ Val(n) \in Nat
  BY ValRange, WordInt
<1>3. 2 * Val(n) <= W * W /\ Val(n) + W <= W * W
  BY <1>1, <1>2, RoomTwo
<1>4. a[2] < G /\ b[2] < G
  BY <1>2, HighWord
<1>5. PICK p : p = ularith_mul_ul_ul_2ul(a[1], b[1])
  OBVIOUS
<1>6. p \in Pair /\ Val(p) = a[1] * b[1]
  BY <1>2, <1>5, MulWords
<1>7. t = RedcLow(p, m)
  BY <1>5
<1>8. /\ t \in Pair /\ Val(t) < W + Val(n)
      /\ \E u \in Word : W * Val(t) = Val(p) + u * Val(n)
  BY <1>2, <1>3, <1>6, <1>7, RedcLowRight
<1>9. Val(t) \in Nat
  BY <1>8, ValRange
<1>10. PICK a1, a2, b1, b2, tt, nn \in Nat :
         a1 = a[1] /\ a2 = a[2] /\ b1 = b[1] /\ b2 = b[2] /\ tt = Val(t) /\ nn = Val(n)
  BY <1>2, <1>9
<1>11. tt + a1 * b2 + a2 * b1 < W * W /\ a1 * b2 \in Nat /\ a2 * b1 \in Nat
  <2>1. nn <= W * G /\ tt < W + nn /\ a1 < W /\ a2 < G /\ b1 < W /\ b2 < G
    BY <1>2, <1>4, <1>8, <1>10
  <2> QED  BY <2>1, <1>1, CrossBound
<1> QED  BY <1>2, <1>3, <1>4, <1>6, <1>8, <1>9, <1>10, <1>11

\* A sum of three pairs that stays below W^2: no carry is lost.
LEMMA AddThree ==
    ASSUME Width, NEW t \in Pair, NEW p \in Pair, NEW q \in Pair,
           Val(t) + Val(p) + Val(q) < W * W,
           NEW s, s = ularith_add_2ul_2ul(t, p),
           NEW x, x = ularith_add_2ul_2ul(s, q), NEW z, z = ularith_add_2ul_2ul_cy(s, q)
    PROVE  x \in Pair /\ Val(x) = Val(t) + Val(p) + Val(q) /\ z.r = x /\ z.cy = 0
<1>1. Val(t) \in Nat /\ Val(p) \in Nat /\ Val(q) \in Nat
  BY ValRange
<1>2. W * W \in Nat
  BY WordSize, SMT
<1>3. Val(t) + Val(p) < W * W
  BY <1>1, <1>2, SMT
<1>4. s \in Pair /\ Val(s) = Val(t) + Val(p)
  BY <1>3, AddPairsLow
<1>5. Val(s) + Val(q) < W * W
  BY <1>4
<1>6. x \in Pair /\ Val(x) = Val(s) + Val(q) /\ z.r = x /\ z.cy = 0
  BY <1>4, <1>5, AddPairsLow
<1> QED  BY <1>4, <1>6

\* Half a word leaves the room RoomTwo asks for.
LEMMA HalfRoom == Width => 1 + 3 * HalfW <= W
<1> SUFFICES ASSUME Width PROVE 1 + 3 * HalfW <= W
  OBVIOUS
<1>1. HalfW \in Nat /\ HalfW >= 4 /\ W = HalfW * HalfW
  BY WordSize
<1>2. HalfW * HalfW >= 4 * HalfW
  BY <1>1, SMT
<1>3. PICK s \in Int : s = HalfW * HalfW
  BY <1>1, SMT
<1> QED  BY <1>1, <1>2, <1>3, SMT

\* The high words of residues of the 15ul arithmetic are half words.
LEMMA HalfProduct ==
    ASSUME Width, NEW a \in Nat, a < HalfW, NEW b \in Nat, b < HalfW
    PROVE  a * b \in Word /\ (a * b) % W = a * b
<1>1. HalfW \in Nat /\ HalfW >= 4 /\ W = HalfW * HalfW
  BY WordSize
<1>2. a * b <= a * HalfW
  BY <1>1, SMT
<1>3. a * HalfW < HalfW * HalfW
  BY <1>1, SMT
<1>4. a * b \in Nat /\ a * HalfW \in Int
  BY <1>1, SMT
<1>5. PICK x, y, z \in Int : x = a * b /\ y = a * HalfW /\ z = HalfW * HalfW
  BY <1>1, SMT
<1>6. x < z
  BY <1>2, <1>3, <1>5, SMT
<1>7. a * b < W
  BY <1>1, <1>5, <1>6
<1> QED  BY <1>4, <1>7, WordInt

\* From the two words of the cross sum on, for the 15ul arithmetic.
LEMMA MulEnd15 ==
    ASSUME Width, NEW n \in Pair, 2 * Val(n) <= W * W, NEW i \in Word, Cong(n[1] * i, -1, W),
           NEW m, m.m = n, m.invm = i,
           NEW a \in Pair, Val(a) < Val(n), NEW b \in Pair, a[2] < HalfW, b[2] < HalfW,
           NEW T \in Nat, NEW u \in Word, W * T = a[1] * b[1] + u * Val(n),
           NEW x \in Pair, Val(x) = T + a[1] * b[2] + a[2] * b[1],
           NEW r, r = RedcHigh(x[1], AddC(x[2], (a[2] * b[2]) % W, 0), m)
    PROVE  /\ r \in Pair /\ Val(r) \in 0 .. Val(n) - 1
           /\ Cong(Val(r) * (W * W), Val(a) * Val(b), Val(n))
<1>1. a[2] \in Nat /\ b[2] \in Nat /\ x[2] \in Word /\ x[2] \in Nat
  BY ValRange
<1>2. PICK c \in Word : c = a[2] * b[2] /\ (a[2] * b[2]) % W = c
  BY <1>1, HalfProduct
<1>3. PICK h : h = AddC(x[2], c, 0)
  OBVIOUS
<1>4. h \in Pair /\ Val(h) = x[2] + c + 0
  BY <1>1, <1>3, AddCPair
<1>5. x[2] + c + 0 = x[2] + c
  <2>1. c \in Nat
    BY <1>2, WordInt
  <2> QED  BY <2>1, <1>1, SMT
<1>6. Val(h) = x[2] + a[2] * b[2] /\ r = RedcHigh(x[1], h, m)
  BY <1>2, <1>3, <1>4, <1>5
<1> QED  BY <1>4, <1>6, MulEnd

\* modredc15ul_mul: no dropped carry, and a reduced Montgomery product.
LEMMA Mul15 ==
    ASSUME Width, NEW n \in Pair, Val(n) <= W * HalfW,
           NEW i \in Word, Cong(n[1] * i, -1, W), NEW m, m.m = n, m.invm = i,
           NEW a \in Pair, Val(a) < Val(n), NEW b \in Pair, Val(b) < Val(n),
           NEW r, r = modredc15ul_mul(a, b, m)
    PROVE  /\ r \in Pair /\ Val(r) \in 0 .. Val(n) - 1
           /\ Cong(Val(r) * (W * W), Val(a) * Val(b), Val(n))
<1>t. PICK t : t = RedcLow(ularith_mul_ul_ul_2ul(a[1], b[1]), m)
  OBVIOUS
<1>p. PICK p : p = ularith_mul_ul_ul_2ul(a[1], b[2])
  OBVIOUS
<1>q. PICK q : q = ularith_mul_ul_ul_2ul(a[2], b[1])
  OBVIOUS
<1>x. PICK x : x = ularith_add_2ul_2ul(ularith_add_2ul_2ul(t, p), q)
  OBVIOUS
<1>1. HalfW \in Nat /\ 1 + 3 * HalfW <= W
  BY WordSize, HalfRoom
<1>2. /\ t \in Pair /\ Val(t) \in Nat /\ 2 * Val(n) <= W * W
      /\ a[1] \in Word /\ a[2] \in Word /\ b[1] \in Word /\ b[2] \in Word
      /\ a[1] \in Nat /\ a[2] \in Nat /\ b[1] \in Nat /\ b[2] \in Nat
      /\ a[2] < HalfW /\ b[2] < HalfW
      /\ Val(t) + a[1] * b[2] + a[2] * b[1] < W * W
      /\ \E u \in Word : W * Val(t) = a[1] * b[1] + u * Val(n)
  BY <1>t, <1>1, MulStart
<1>3. p \in Pair /\ Val(p) = a[1] * b[2] /\ q \in Pair /\ Val(q) = a[2] * b[1]
  BY <1>p, <1>q, <1>2, MulWords
<1>4. x \in Pair /\ Val(x) = Val(t) + a[1] * b[2] + a[2] * b[1]
  <2>1. Val(t) + Val(p) + Val(q) < W * W
    BY <1>2, <1>3
  <2>2. x \in Pair /\ Val(x) = Val(t) + Val(p) + Val(q)
    BY <2>1, <1>x, <1>2, <1>3, AddThree
  <2> QED  BY <2>2, <1>3
<1>5. r = RedcHigh(x[1], AddC(x[2], (a[2] * b[2]) % W, 0), m)
  BY <1>t, <1>p, <1>q, <1>x DEF modredc15ul_mul
<1>6. PICK u \in Word : W * Val(t) = a[1] * b[1] + u * Val(n)
  BY <1>2
<1> QED  BY <1>2, <1>4, <1>5, <1>6, MulEnd15

\* Doubling a pair by a shift is adding it to itself.
LEMMA DoublePair ==
    ASSUME Width, NEW p \in Pair, 2 * Val(p) < W * W, NEW d, d = modredc15ul_intshl(p, 1)
    PROVE  d \in Pair /\ Val(d) = Val(p) + Val(p)
<1>1. W \in Nat /\ W >= 16 /\ W > 0
  <2>1. W \in Nat /\ W >= 16
    BY WordSize
  <2> QED  BY <2>1, SMT
<1>2. /\ p[1] \in Nat /\ p[2] \in Nat /\ p[1] < W /\ Val(p) \in Nat
      /\ Val(p) = p[1] + W * p[2]
  BY ValRange, WordInt
<1>3. PICK p1, p2, v \in Nat : p1 = p[1] /\ p2 = p[2] /\ v = Val(p)
  BY <1>2
<1>4. 2^1 = 2
  BY SMT
<1>5. d = <<(p1 * 2) % W, (((W * p2 + p1) * 2) \div W) % W>>
  BY <1>3, <1>4 DEF modredc15ul_intshl, ularith_shld
<1>6. (W * p2 + p1) * 2 = 2 * v /\ 2 * v = (p1 * 2) + W * (2 * p2) /\ W * p2 + p1 = v
  <2>1. v = p1 + W * p2
    BY <1>2, <1>3
  <2>2. W * (2 * p2) = 2 * (W * p2)
    BY <1>1, SMT
  <2>3. PICK x \in Int : x = W * p2
    BY <1>1, SMT
  <2>4. v = p1 + x /\ x + p1 = v
    BY <2>1, <2>3, SMT
  <2>5. 2 * v = (p1 * 2) + 2 * x /\ (x + p1) * 2 = 2 * v
    BY <2>4, SMT
  <2> QED  BY <2>2, <2>3, <2>4, <2>5
<1>7. PICK e \in Nat : e = 2 * v /\ e < W * W /\ e = v + v
  BY <1>3, SMT
<1>8. OfVal(e) \in Pair /\ Val(OfVal(e)) = e
  BY <1>7, OfValIs
<1>9. (p1 * 2) % W = e % W
  <2>1. PICK f \in Int : f = p1 * 2
    BY SMT
  <2>2. e = f + W * (2 * p2)
    BY <2>1, <1>6, <1>7
  <2>3. f = e + (-(2 * p2)) * W /\ -(2 * p2) \in Int
    BY <2>2, <1>1, SMT
  <2>4. Cong(f, e, W)
    BY <2>3 DEF Cong
  <2>5. Cong(e, e % W, W) /\ e % W \in 0 .. W - 1 /\ e \in Int /\ W \in Int
    <3>1. e \in Int /\ W \in Int
      BY <1>1, SMT
    <3> QED  BY <3>1, <1>1, CongMod
  <2>6. e % W \in Int
    BY <2>5, SMT
  <2>7. Cong(f, e % W, W)
    BY <2>4, <2>5, <2>6, CongTrans
  <2>8. f % W = e % W
    BY <2>5, <2>7, <1>1, ModIs
  <2> QED  BY <2>1, <2>8
<1>10. d = OfVal(e)
  BY <1>5, <1>6, <1>7, <1>9 DEF OfVal
<1> QED  BY <1>3, <1>7, <1>8, <1>10

\* modredc15ul_sqr: the doubled cross product fits as well.
LEMMA Sqr15 ==
    ASSUME Width, NEW n \in Pair, Val(n) <= W * HalfW,
           NEW i \in Word, Cong(n[1] * i, -1, W), NEW m, m.m = n, m.invm = i,
           NEW a \in Pair, Val(a) < Val(n), NEW r, r = modredc15ul_sqr(a, m)
    PROVE  /\ r \in Pair /\ Val(r) \in 0 .. Val(n) - 1
           /\ Cong(Val(r) * (W * W), Val(a) * Val(a), Val(n))
<1>t. PICK t : t = RedcLow(ularith_mul_ul_ul_2ul(a[1], a[1]), m)
  OBVIOUS
<1>p. PICK p : p = ularith_mul_ul_ul_2ul(a[1], a[2])
  OBVIOUS
<1>q. PICK q : q = modredc15ul_intshl(p, 1)
  OBVIOUS
<1>x. PICK x : x = ularith_add_2ul_2ul(t, q)
  OBVIOUS
<1>1. HalfW \in Nat /\ 1 + 3 * HalfW <= W
  BY WordSize, HalfRoom
<1>2. /\ t \in Pair /\ Val(t) \in Nat /\ 2 * Val(n) <= W * W
      /\ a[1] \in Word /\ a[2] \in Word /\ a[1] \in Nat /\ a[2] \in Nat
      /\ a[2] < HalfW
      /\ Val(t) + a[1] * a[2] + a[2] * a[1] < W * W
      /\ \E u \in Word : W * Val(t) = a[1] * a[1] + u * Val(n)
  BY <1>t, <1>1, MulStart
<1>3. p \in Pair /\ Val(p) = a[1] * a[2] /\ Val(p) = a[2] * a[1] /\ Val(p) \in Nat
  <2>1. p \in Pair /\ Val(p) = a[1] * a[2] /\ a[1] * a[2] \in Nat
    BY <1>p, <1>2, MulWords
  <2>2. a[1] * a[2] = a[2] * a[1]
    BY <1>2, SMT
  <2> QED  BY <2>1, <2>2
<1>4. Val(t) + Val(p) + Val(p) < W * W
  BY <1>2, <1>3
<1>5. W * W \in Nat
  BY WordSize, SMT
<1>6. 2 * Val(p) < W * W
  BY <1>2, <1>3, <1>4, <1>5, SMT
<1>7. q \in Pair /\ Val(q) = Val(p) + Val(p)
  BY <1>q, <1>3, <1>6, DoublePair
<1>8. Val(t) + Val(q) = Val(t) + Val(p) + Val(p)
  BY <1>2, <1>3, <1>7, SMT
<1>9. Val(t) + Val(q) < W * W
  BY <1>4, <1>8
<1>10. x \in Pair /\ Val(x) = Val(t) + Val(q)
  BY <1>x, <1>2, <1>7, <1>9, AddPairsLow
<1>11. Val(x) = Val(t) + a[1] * a[2] + a[2] * a[1]
  BY <1>3, <1>8, <1>10
<1>12. r = RedcHigh(x[1], AddC(x[2], (a[2] * a[2]) % W, 0), m)
  BY <1>t, <1>p, <1>q, <1>x DEF modredc15ul_sqr
<1>13. PICK u \in Word : W * Val(t) = a[1] * a[1] + u * Val(n)
  BY <1>2
<1> QED  BY <1>2, <1>10, <1>11, <1>12, <1>13, MulEnd15

\* A quarter of the word size bounds the high words of the 2ul2 arithmetic.
LEMMA Quarter ==
    ASSUME Width, NEW n \in Nat, 4 * n <= W * W
    PROVE  \E G \in Nat : n <= W * G /\ 1 + 3 * G <= W /\ G * G + W <= W * W /\ G < W
<1>1. W \in Nat /\ W >= 16
  BY WordSize
<1>2. PICK G \in Nat : W = 4 * G
  <2>1. PICK h \in Nat : HalfW = 4 * h /\ W = 4 * (h * HalfW)
    BY WordSize
  <2>2. h * HalfW \in Nat
    <3>1. HalfW \in Nat
      BY WordSize
    <3> QED  BY <3>1, SMT
  <2> QED  BY <2>1, <2>2
<1>3. G >= 4 /\ 1 + 3 * G <= W /\ G < W
  BY <1>1, <1>2, SMT
<1>4. W * W = 4 * (W * G)
  BY <1>2, SMT
<1>5. PICK g \in Nat : g = W * G
  BY <1>1, SMT
<1>6. n <= g
  BY <1>4, <1>5, SMT
<1>7. W * G = 4 * (G * G)
  BY <1>2, SMT
<1>8. W * G >= 4 * W
  BY <1>1, <1>3, SMT
<1>9. PICK s, t \in Nat : s = G * G /\ t = W * W
  BY <1>1, SMT
<1>10. s + W <= t
  BY <1>1, <1>4, <1>5, <1>7, <1>8, <1>9, SMT
<1> QED  BY <1>3, <1>5, <1>6, <1>9, <1>10

\* The second half of modredc2ul2_mul keeps the whole high product.
LEMMA MulEnd2 ==
    ASSUME Width, NEW n \in Pair, 2 * Val(n) <= W * W, NEW i \in Word, Cong(n[1] * i, -1, W),
           NEW m, m.m = n, m.invm = i, NEW G \in Nat, G * G + W <= W * W,
           NEW a \in Pair, Val(a) < Val(n), NEW b \in Pair, a[2] < G, b[2] < G,
           NEW T \in Nat, NEW u \in Word, W * T = a[1] * b[1] + u * Val(n),
           NEW x \in Pair, Val(x) = T + a[1] * b[2] + a[2] * b[1],
           NEW r, r = RedcHigh(x[1], ularith_add_2ul_2ul(<<x[2], 0>>,
                                         ularith_mul_ul_ul_2ul(a[2], b[2])), m)
    PROVE  /\ r \in Pair /\ Val(r) \in 0 .. Val(n) - 1
           /\ Cong(Val(r) * (W * W), Val(a) * Val(b), Val(n))
<1>1. W \in Nat /\ W >= 16 /\ W * W \in Nat /\ 0 \in Word
  <2>1. W \in Nat /\ W >= 16
    BY WordSize
  <2> QED  BY <2>1, SMT DEF Word
<1>2. /\ a[2] \in Nat /\ b[2] \in Nat /\ a[2] \in Word /\ b[2] \in Word
      /\ x[2] \in Word /\ x[2] \in Nat /\ x[2] < W
  BY ValRange, WordInt
<1>3. PICK p : p = ularith_mul_ul_ul_2ul(a[2], b[2])
  OBVIOUS
<1>4. p \in Pair /\ Val(p) = a[2] * b[2] /\ a[2] * b[2] \in Nat
  BY <1>2, <1>3, MulWords
<1>5. PICK q : q = <<x[2], 0>>
  OBVIOUS
<1>6. q \in Pair /\ Val(q) = x[2] + W * 0
  BY <1>1, <1>2, <1>5, PairIs
<1>7. PICK x2, a2, b2 \in Nat : x2 = x[2] /\ a2 = a[2] /\ b2 = b[2]
  BY <1>2
<1>8. Val(q) = x2
  <2>1. x2 + W * 0 = x2
    BY <1>1, SMT
  <2> QED  BY <2>1, <1>6, <1>7
<1>9. x2 + a2 * b2 < W * W /\ a2 * b2 \in Nat
  <2>1. a2 < G /\ b2 < G /\ x2 < W
    BY <1>2, <1>7
  <2>2. a2 * b2 <= a2 * G
    BY <2>1, SMT
  <2>3. a2 * G <= G * G
    BY <2>1, SMT
  <2>4. PICK c, d, e, f \in Nat : c = a2 * b2 /\ d = a2 * G /\ e = G * G /\ f = W * W
    BY <1>1, SMT
  <2>5. c <= d /\ d <= e /\ e + W <= f
    BY <2>2, <2>3, <2>4
  <2>6. x2 + c < f
    BY <2>1, <2>5, <1>1, SMT
  <2> QED  BY <2>4, <2>6
<1>10. Val(q) + Val(p) < W * W
  BY <1>4, <1>7, <1>8, <1>9
<1>11. PICK h : h = ularith_add_2ul_2ul(q, p)
  OBVIOUS
<1>12. h \in Pair /\ Val(h) = Val(q) + Val(p)
  BY <1>4, <1>6, <1>10, <1>11, AddPairsLow
<1>13. Val(h) = x[2] + a[2] * b[2]
  BY <1>4, <1>7, <1>8, <1>12
<1>14. r = RedcHigh(x[1], h, m)
  BY <1>3, <1>5, <1>11
<1> QED  BY <1>12, <1>13, <1>14, MulEnd

\* modredc2ul2_mul: a reduced Montgomery product, whatever the carries.
LEMMA Mul2ul2 ==
    ASSUME Width, NEW n \in Pair, 4 * Val(n) <= W * W,
           NEW i \in Word, Cong(n[1] * i, -1, W), NEW m, m.m = n, m.invm = i,
           NEW a \in Pair, Val(a) < Val(n), NEW b \in Pair, Val(b) < Val(n),
           NEW r, r = modredc2ul2_mul(a, b, m)
    PROVE  /\ r \in Pair /\ Val(r) \in 0 .. Val(n) - 1
           /\ Cong(Val(r) * (W * W), Val(a) * Val(b), Val(n))
<1>t. PICK t : t = RedcLow(ularith_mul_ul_ul_2ul(a[1], b[1]), m)
  OBVIOUS
<1>p. PICK p : p = ularith_mul_ul_ul_2ul(a[1], b[2])
  OBVIOUS
<1>q. PICK q : q = ularith_mul_ul_ul_2ul(a[2], b[1])
  OBVIOUS
<1>x. PICK x : x = ularith_add_2ul_2ul_cy(ularith_add_2ul_2ul(t, p), q)
  OBVIOUS
<1>1. PICK G \in Nat : Val(n) <= W * G /\ 1 + 3 * G <= W /\ G * G + W <= W * W /\ G < W
  <2>1. Val(n) \in Nat
    BY ValRange
  <2> QED  BY <2>1, Quarter
<1>2. /\ t \in Pair /\ Val(t) \in Nat /\ 2 * Val(n) <= W * W
      /\ a[1] \in Word /\ a[2] \in Word /\ b[1] \in Word /\ b[2] \in Word
      /\ a[2] < G /\ b[2] < G
      /\ Val(t) + a[1] * b[2] + a[2] * b[1] < W * W
      /\ \E u \in Word : W * Val(t) = a[1] * b[1] + u * Val(n)
  BY <1>t, <1>1, MulStart
<1>3. p \in Pair /\ Val(p) = a[1] * b[2] /\ q \in Pair /\ Val(q) = a[2] * b[1]
  BY <1>p, <1>q, <1>2, MulWords
<1>4. x.r \in Pair /\ x.cy = 0 /\ Val(x.r) = Val(t) + a[1] * b[2] + a[2] * b[1]
  <2>1. Val(t) + Val(p) + Val(q) < W * W
    BY <1>2, <1>3
  <2>2. x.r \in Pair /\ x.cy = 0 /\ Val(x.r) = Val(t) + Val(p) + Val(q)
    BY <2>1, <1>x, <1>2, <1>3, AddThree
  <2> QED  BY <2>2, <1>3
<1>5. r = RedcHigh(x.r[1], ularith_add_2ul_2ul(<<x.r[2], x.cy>>,
                             ularith_mul_ul_ul_2ul(a[2], b[2])), m)
  BY <1>t, <1>p, <1>q, <1>x DEF modredc2ul2_mul
<1>6. PICK u \in Word : W * Val(t) = a[1] * b[1] + u * Val(n)
  BY <1>2
<1>7. PICK y \in Pair : y = x.r
  BY <1>4
<1>8. /\ Val(y) = Val(t) + a[1] * b[2] + a[2] * b[1]
      /\ r = RedcHigh(y[1], ularith_add_2ul_2ul(<<y[2], 0>>,
                              ularith_mul_ul_ul_2ul(a[2], b[2])), m)
  BY <1>4, <1>5, <1>7
<1> QED  BY <1>1, <1>2, <1>6, <1>8, MulEnd2

\* modredc2ul2_sqr: the cross product is added twice.
LEMMA Sqr2ul2 ==
    ASSUME Width, NEW n \in Pair, 4 * Val(n) <= W * W,
           NEW i \in Word, Cong(n[1] * i, -1, W), NEW m, m.m = n, m.invm = i,
           NEW a \in Pair, Val(a) < Val(n), NEW r, r = modredc2ul2_sqr(a, m)
    PROVE  /\ r \in Pair /\ Val(r) \in 0 .. Val(n) - 1
           /\ Cong(Val(r) * (W * W), Val(a) * Val(a), Val(n))
<1>t. PICK t : t = RedcLow(ularith_mul_ul_ul_2ul(a[1], a[1]), m)
  OBVIOUS
<1>p. PICK p : p = ularith_mul_ul_ul_2ul(a[1], a[2])
  OBVIOUS
<1>x. PICK x : x = ularith_add_2ul_2ul_cy(ularith_add_2ul_2ul(t, p), p)
  OBVIOUS
<1>1. PICK G \in Nat : Val(n) <= W * G /\ 1 + 3 * G <= W /\ G * G + W <= W * W /\ G < W
  <2>1. Val(n) \in Nat
    BY ValRange
  <2> QED  BY <2>1, Quarter
<1>2. /\ t \in Pair /\ Val(t) \in Nat /\ 2 * Val(n) <= W * W
      /\ a[1] \in Word /\ a[2] \in Word /\ a[1] \in Nat /\ a[2] \in Nat
      /\ a[2] < G
      /\ Val(t) + a[1] * a[2] + a[2] * a[1] < W * W
      /\ \E u \in Word : W * Val(t) = a[1] * a[1] + u * Val(n)
  BY <1>t, <1>1, MulStart
<1>3. p \in Pair /\ Val(p) = a[1] * a[2] /\ Val(p) = a[2] * a[1]
  <2>1. p \in Pair /\ Val(p) = a[1] * a[2]
    BY <1>p, <1>2, MulWords
  <2>2. a[1] * a[2] = a[2] * a[1]
    BY <1>2, SMT
  <2> QED  BY <2>1, <2>2
<1>4. x.r \in Pair /\ x.cy = 0 /\ Val(x.r) = Val(t) + a[1] * a[2] + a[2] * a[1]
  <2>1. Val(t) + Val(p) + Val(p) < W * W
    BY <1>2, <1>3
  <2>2. x.r \in Pair /\ x.cy = 0 /\ Val(x.r) = Val(t) + Val(p) + Val(p)
    BY <2>1, <1>x, <1>2, <1>3, AddThree
  <2> QED  BY <2>2, <1>3
<1>5. r = RedcHigh(x.r[1], ularith_add_2ul_2ul(<<x.r[2], x.cy>>,
                             ularith_mul_ul_ul_2ul(a[2], a[2])), m)
  BY <1>t, <1>p, <1>x DEF modredc2ul2_sqr
<1>6. PICK u \in Word : W * Val(t) = a[1] * a[1] + u * Val(n)
  BY <1>2
<1>7. PICK y \in Pair : y = x.r
  BY <1>4
<1>8. /\ Val(y) = Val(t) + a[1] * a[2] + a[2] * a[1]
      /\ r = RedcHigh(y[1], ularith_add_2ul_2ul(<<y[2], 0>>,
                              ularith_mul_ul_ul_2ul(a[2], a[2])), m)
  BY <1>4, <1>5, <1>7
<1> QED  BY <1>1, <1>2, <1>6, <1>8, MulEnd2

(* The linear operations on two words.                                     *)

LEMMA Add15 ==
    ASSUME Width, NEW n \in Pair, 2 * Val(n) <= W * W, NEW m, m.m = n,
           NEW a \in Pair, Val(a) < Val(n), NEW b \in Pair, Val(b) < Val(n),
           NEW r, r = modredc15ul_add(a, b, m)
    PROVE  /\ r \in Pair /\ Val(r) \in 0 .. Val(n) - 1
           /\ Val(r) = Val(a) + Val(b) \/ Val(r) = (Val(a) + Val(b)) - Val(n)
<1>1. Val(a) \in Nat /\ Val(b) \in Nat /\ Val(n) \in Nat
  BY ValRange
<1>2. W * W \in Nat
  BY WordSize, SMT
<1>3. Val(a) + Val(b) < W * W /\ Val(a) + Val(b) < 2 * Val(n)
  BY <1>1, <1>2, SMT
<1>4. PICK s : s = ularith_add_2ul_2ul(a, b)
  OBVIOUS
<1>5. s \in Pair /\ Val(s) = Val(a) + Val(b)
  BY <1>3, <1>4, AddPairsLow
<1>6. r = ularith_sub_2ul_2ul_ge(s, n) /\ Val(s) < 2 * Val(n)
  BY <1>3, <1>4, <1>5 DEF modredc15ul_add
<1>7. /\ r \in Pair /\ Val(r) \in 0 .. Val(n) - 1
      /\ Val(r) = Val(s) \/ Val(r) = Val(s) - Val(n)
  BY <1>5, <1>6, SubGe
<1> QED  BY <1>5, <1>7

\* The pair of zero words.
LEMMA ZeroPair ==
    ASSUME Width
    PROVE  <<0, 0>> \in Pair /\ Val(<<0, 0>>) = 0
<1>1. W \in Nat /\ 0 \in Word
  <2>1. W \in Nat /\ W >= 16
    BY WordSize
  <2> QED  BY <2>1, SMT DEF Word
<1>2. PICK z : z = <<0, 0>>
  OBVIOUS
<1>3. z \in Pair /\ Val(z) = 0 + W * 0
  BY <1>1, <1>2, PairIs
<1>4. 0 + W * 0 = 0
  BY <1>1, SMT
<1> QED  BY <1>2, <1>3, <1>4

\* modredc15ul_sub adds the modulus or two zero words.
LEMMA Sub15 ==
    ASSUME Width, NEW n \in Pair, 2 * Val(n) <= W * W, NEW m, m.m = n,
           NEW a \in Pair, Val(a) < Val(n), NEW b \in Pair, Val(b) < Val(n),
           NEW r, r = modredc15ul_sub(a, b, m)
    PROVE  /\ r \in Pair /\ Val(r) \in 0 .. Val(n) - 1
           /\ Val(r) = Val(a) - Val(b) \/ Val(r) = (Val(a) - Val(b)) + Val(n)
<1>1. Val(a) \in Nat /\ Val(b) \in Nat /\ Val(n) \in Nat
  BY ValRange
<1>2. PICK S \in Nat : S = W * W
  BY WordSize, SMT
<1>3. PICK d : d = ularith_sub_2ul_2ul_cy(a, b)
  OBVIOUS
<1>4. /\ d.r \in Pair /\ d.cy \in {0, 1}
      /\ Val(a) - Val(b) = Val(d.r) - d.cy * (W * W)
      /\ d.cy = 1 <=> Val(a) < Val(b)
  BY <1>3, SubPairs
<1>5. Val(d.r) \in Nat
  BY <1>4, ValRange
<1>6. PICK A, V, N, D \in Nat : A = Val(a) /\ V = Val(b) /\ N = Val(n) /\ D = Val(d.r)
  BY <1>1, <1>5
<1>7. A < N /\ V < N /\ 2 * N <= S /\ A - V = D - d.cy * S
  BY <1>2, <1>4, <1>6
<1>8. CASE d.cy = 0
  <2>1. A - V = D /\ D < S /\ D < N /\ D + 0 = D
    <3>1. A >= V
      BY <1>4, <1>6, <1>8, SMT
    <3>2. A - V = D
      BY <1>7, <1>8, SMT
    <3> QED  BY <3>1, <3>2, <1>7, SMT
  <2>2. PICK z : z = <<0, 0>>
    OBVIOUS
  <2>3. z \in Pair /\ Val(z) = 0
    BY <2>2, ZeroPair
  <2>4. r = ularith_add_2ul_2ul(d.r, z)
    BY <2>2, <1>3, <1>8 DEF modredc15ul_sub
  <2>5. Val(d.r) + Val(z) < W * W
    BY <2>1, <2>3, <1>2, <1>6
  <2>6. r \in Pair /\ Val(r) = Val(d.r) + Val(z)
    BY <2>3, <2>4, <2>5, <1>4, AddPairsLow
  <2>7. Val(r) = D
    BY <2>1, <2>3, <2>6, <1>6
  <2>8. D \in 0 .. N - 1
    BY <2>1, <1>7, SMT
  <2> QED  BY <2>1, <2>6, <2>7, <2>8, <1>6
<1>9. CASE d.cy = 1
  <2>1. A < V /\ A - V = D - S
    <3>1. A < V
      BY <1>4, <1>6, <1>9
    <3>2. A - V = D - S
      BY <1>7, <1>9, SMT
    <3> QED  BY <3>1, <3>2
  <2>2. r = ularith_add_2ul_2ul(d.r, n)
    BY <1>3, <1>9 DEF modredc15ul_sub
  <2>3. PICK e : e = ularith_add_2ul_2ul_cy(d.r, n)
    OBVIOUS
  <2>4. /\ e.r \in Pair /\ e.cy \in {0, 1}
        /\ Val(d.r) + Val(n) = Val(e.r) + e.cy * (W * W)
    BY <2>3, <1>4, AddPairs
  <2>5. e.r = r
    BY <2>2, <2>3 DEF ularith_add_2ul_2ul_cy, ularith_add_2ul_2ul
  <2>6. Val(r) \in Nat /\ Val(r) < W * W
    BY <2>4, <2>5, ValRange
  <2>7. PICK R \in Nat : R = Val(r)
    BY <2>6
  <2>8. R < S /\ D + N = R + e.cy * S
    BY <2>4, <2>5, <2>6, <2>7, <1>2, <1>6
  <2>9. e.cy = 1
    <3>1. CASE e.cy = 0
      <4>1. D + N = R
        BY <3>1, <2>8, SMT
      <4> QED  BY <4>1, <2>1, <2>8, <1>7, SMT
    <3> QED  BY <3>1, <2>4
  <2>10. D + N = R + S
    BY <2>8, <2>9, SMT
  <2>11. R = (A - V) + N /\ R \in 0 .. N - 1
    BY <2>1, <2>10, <1>7, SMT
  <2> QED  BY <2>4, <2>5, <2>7, <2>11, <1>6
<1> QED  BY <1>4, <1>8, <1>9

\* modredc15ul_neg: the opposite of 0 is 0.
LEMMA Neg15 ==
    ASSUME Width, NEW n \in Pair, NEW m, m.m = n, NEW a \in Pair, Val(a) < Val(n),
           NEW r, r = modredc15ul_neg(a, m)
    PROVE  /\ r \in Pair /\ Val(r) \in 0 .. Val(n) - 1
           /\ Val(r) + Val(a) = 0 \/ Val(r) + Val(a) = Val(n)
<1>1. Val(a) \in Nat /\ Val(n) \in Nat
  BY ValRange
<1>2. CASE a = <<0, 0>>
  <2>1. r = a /\ Val(a) = 0
    BY <1>2, ZeroPair DEF modredc15ul_neg
  <2>2. Val(a) + Val(a) = 0 /\ Val(a) \in 0 .. Val(n) - 1
    BY <2>1, <1>1, SMT
  <2> QED  BY <2>1, <2>2
<1>3. CASE a # <<0, 0>>
  <2>1. Val(a) # 0
    BY <1>3, ZeroPair, ValOne
  <2>2. r = ularith_sub_2ul_2ul(n, a)
    BY <1>3 DEF modredc15ul_neg
  <2>3. Val(n) >= Val(a)
    BY <1>1, SMT
  <2>4. r \in Pair /\ Val(r) = Val(n) - Val(a)
    BY <2>2, <2>3, SubPairsHigh
  <2>5. PICK x, y, z \in Int : x = Val(r) /\ y = Val(a) /\ z = Val(n)
    <3>1. Val(r) \in Nat
      BY <2>4, ValRange
    <3> QED  BY <3>1, <1>1, SMT
  <2>6. x = z - y /\ y < z /\ y >= 0 /\ y # 0
    BY <2>1, <2>4, <2>5, <1>1, SMT
  <2>7. x + y = z /\ x \in 0 .. z - 1
    BY <2>6, SMT
  <2> QED  BY <2>4, <2>5, <2>7
<1> QED  BY <1>2, <1>3

\* A shift by one bit across the two words.
LEMMA HalvePair ==
    ASSUME Width, NEW s \in Pair, NEW d, d = modredc15ul_intshr(s, 1)
    PROVE  d \in Pair /\ Val(d) = Val(s) \div 2
<1>1. W \in Nat /\ W >= 16 /\ W > 0
  <2>1. W \in Nat /\ W >= 16
    BY WordSize
  <2> QED  BY <2>1, SMT
<1>2. PICK g \in Nat : W = 2 * g
  <2>1. PICK h \in Nat : HalfW = 4 * h /\ W = 4 * (h * HalfW)
    BY WordSize
  <2>2. HalfW \in Nat
    BY WordSize
  <2>3. 4 * (h * HalfW) = 2 * (2 * (h * HalfW)) /\ 2 * (h * HalfW) \in Nat
    BY <2>2, SMT
  <2> QED  BY <2>1, <2>3
<1>3. /\ s[1] \in Nat /\ s[2] \in Nat /\ s[1] < W /\ s[2] < W /\ Val(s) \in Nat
      /\ Val(s) = s[1] + W * s[2]
  BY ValRange, WordInt
<1>4. PICK s1, s2, v \in Nat : s1 = s[1] /\ s2 = s[2] /\ v = Val(s)
  BY <1>3
<1>5. s1 < W /\ s2 < W /\ v = s1 + W * s2
  BY <1>3, <1>4
<1>6. PICK k \in Nat : k = s2 \div 2
  BY SMT
<1>7. PICK e \in {0, 1} : s2 = 2 * k + e
  BY <1>6, SMT
<1>8. PICK f \in Nat : f = (s1 + e * W) \div 2
  BY <1>1, SMT
<1>9. f < W
  <2>1. CASE e = 0
    BY <2>1, <1>1, <1>5, <1>8, SMT
  <2>2. CASE e = 1
    <3>1. f = (s1 + W) \div 2
      BY <2>2, <1>1, <1>8, SMT
    <3> QED  BY <3>1, <1>1, <1>5, SMT
  <2> QED  BY <2>1, <2>2
<1>10. v \div 2 = f + W * k
  <2>1. PICK x \in Int : x = W * k
    BY <1>1, SMT
  <2>2. W * (2 * k + e) = 2 * (W * k) + e * W
    BY <1>1, SMT
  <2>3. v = (s1 + e * W) + 2 * x
    <3>1. PICK y \in Int : y = e * W
      BY <1>1, SMT
    <3>2. s1 + (2 * x + y) = (s1 + y) + 2 * x
      BY SMT
    <3> QED  BY <2>1, <2>2, <3>1, <3>2, <1>5, <1>7
  <2>4. PICK z \in Int : z = s1 + e * W
    BY <1>1, SMT
  <2>5. v = z + 2 * x /\ f = z \div 2
    BY <2>3, <2>4, <1>8
  <2>6. v \div 2 = f + x
    BY <2>5, SMT
  <2> QED  BY <2>1, <2>6
<1>11. (v \div 2) % W = f
  <2>1. f \in 0 .. W - 1
    BY <1>1, <1>9, SMT
  <2>2. f + W * k = f + k * W
    BY <1>1, SMT
  <2>3. PICK x \in Int : x = f + W * k
    BY <1>1, SMT
  <2>4. Cong(x, f, W)
    BY <2>2, <2>3, SMT DEF Cong
  <2>5. x % W = f
    BY <2>1, <2>4, <1>1, ModIs
  <2> QED  BY <2>3, <2>5, <1>10
<1>12. 2^1 = 2
  BY SMT
<1>13. d = <<f, k>>
  <2>1. d = <<((s1 + W * s2) \div 2^1) % W, s2 \div 2^1>>
    BY <1>4 DEF modredc15ul_intshr, ularith_shrd
  <2>2. d = <<(v \div 2) % W, s2 \div 2>>
    BY <2>1, <1>5, <1>12
  <2> QED  BY <2>2, <1>6, <1>11
<1>14. k < W
  BY <1>1, <1>5, <1>6, SMT
<1>15. f \in Word /\ k \in Word
  BY <1>9, <1>14, WordInt
<1>16. d \in Pair /\ Val(d) = f + W * k
  BY <1>13, <1>15, PairIs
<1> QED  BY <1>4, <1>10, <1>16

\* The parity of a pair is that of its low word.
LEMMA ParityPair ==
    ASSUME Width, NEW s \in Pair
    PROVE  s[1] % 2 = Val(s) % 2
<1>1. W \in Nat /\ HalfW \in Nat
  BY WordSize
<1>2. PICK h \in Nat : W = 4 * (h * HalfW)
  BY WordSize
<1>3. PICK g \in Nat : g = h * HalfW
  BY <1>1, SMT
<1>4. /\ s[1] \in Nat /\ s[2] \in Nat /\ Val(s) \in Nat /\ Val(s) = s[1] + W * s[2]
  BY ValRange
<1>5. PICK s1, s2, v \in Nat : s1 = s[1] /\ s2 = s[2] /\ v = Val(s)
  BY <1>4
<1>6. W = 4 * g /\ v = s1 + W * s2
  BY <1>2, <1>3, <1>4, <1>5
<1>7. W * s2 = 2 * (2 * (g * s2))
  BY <1>6, SMT
<1>8. PICK x \in Int : x = 2 * (g * s2)
  BY SMT
<1>9. v = s1 + 2 * x
  BY <1>6, <1>7, <1>8
<1>10. s1 % 2 = v % 2
  BY <1>9, SMT
<1> QED  BY <1>5, <1>10

\* modredc15ul_div2: a + m has no carry out, its half is reduced.
LEMMA Div15 ==
    ASSUME Width, NEW n \in Pair, 2 * Val(n) <= W * W, Val(n) % 2 = 1, NEW m, m.m = n,
           NEW a \in Pair, Val(a) < Val(n), NEW r, r = modredc15ul_div2(a, m)
    PROVE  /\ r \in Pair /\ Val(r) \in 0 .. Val(n) - 1
           /\ 2 * Val(r) = Val(a) \/ 2 * Val(r) = Val(a) + Val(n)
<1>1. Val(a) \in Nat /\ Val(n) \in Nat
  BY ValRange
<1>2. PICK A, N, S \in Nat : A = Val(a) /\ N = Val(n) /\ S = W * W
  <2>1. W * W \in Nat
    BY WordSize, SMT
  <2> QED  BY <2>1, <1>1
<1>3. A < N /\ N % 2 = 1 /\ 2 * N <= S
  BY <1>2
<1>4. a[1] % 2 = A % 2
  BY <1>2, ParityPair
<1>5. CASE A % 2 = 1
  <2>1. PICK s : s = ularith_add_2ul_2ul(a, n)
    OBVIOUS
  <2>2. A + N < S
    BY <1>3, SMT
  <2>3. Val(a) + Val(n) < W * W
    BY <2>2, <1>2
  <2>4. s \in Pair /\ Val(s) = A + N
    BY <2>1, <2>3, <1>2, AddPairsLow
  <2>5. r = modredc15ul_intshr(s, 1)
    BY <2>1, <1>4, <1>5 DEF modredc15ul_div2
  <2>6. r \in Pair /\ Val(r) = (A + N) \div 2
    BY <2>4, <2>5, HalvePair
  <2>7. PICK R \in Int : R = (A + N) \div 2
    BY SMT
  <2>8. R \in 0 .. N - 1 /\ 2 * R = A + N
    BY <2>7, <1>3, <1>5, SMT
  <2> QED  BY <2>6, <2>7, <2>8, <1>2
<1>6. CASE A % 2 = 0
  <2>1. r = modredc15ul_intshr(a, 1)
    <3>1. a[1] % 2 # 1
      BY <1>4, <1>6, SMT
    <3> QED  BY <3>1 DEF modredc15ul_div2
  <2>2. r \in Pair /\ Val(r) = A \div 2
    BY <2>1, <1>2, HalvePair
  <2>3. PICK R \in Int : R = A \div 2
    BY SMT
  <2>4. R \in 0 .. N - 1 /\ 2 * R = A
    BY <2>3, <1>3, <1>6, SMT
  <2> QED  BY <2>2, <2>3, <2>4, <1>2
<1>7. A % 2 = 0 \/ A % 2 = 1
  BY SMT
<1> QED  BY <1>5, <1>6, <1>7

-----------------------------------------------------------------------------
(* The four arithmetics.  a stands for the integer x modulo n when its      *)
(* stored value is reduced and congruent to x times the radix.              *)

IsFormat(k, a) == IF k \in TwoWords THEN a \in Pair ELSE a \in Int

Stands(k, a, x, n) ==
    /\ IsFormat(k, a)
    /\ Stored(k, a) \in 0 .. n - 1
    /\ Cong(Stored(k, a), x * Radix(k), n)

\* The four kinds, their word count and their radix.
LEMMA KindIs ==
    ASSUME NEW k \in Kinds
    PROVE  /\ k = "ul" \/ k = "redcul" \/ k = "redc15ul" \/ k = "redc2ul2"
           /\ k = "ul" => k \notin TwoWords /\ Radix(k) = 1
           /\ k = "redcul" => k \notin TwoWords /\ Radix(k) = W
           /\ k \in TwoWords => Radix(k) = W * W
           /\ k \notin TwoWords => k = "ul" \/ k = "redcul"
           /\ k \in TwoWords <=> k = "redc15ul" \/ k = "redc2ul2"
<1>1. k = "ul" \/ k = "redcul" \/ k = "redc15ul" \/ k = "redc2ul2"
  BY DEF Kinds
<1>2. CASE k = "ul"
  BY <1>2 DEF TwoWords, Radix
<1>3. CASE k = "redcul"
  BY <1>3 DEF TwoWords, Radix
<1>4. CASE k = "redc15ul"
  BY <1>4 DEF TwoWords, Radix
<1>5. CASE k = "redc2ul2"
  BY <1>5 DEF TwoWords, Radix
<1> QED  BY <1>1, <1>2, <1>3, <1>4, <1>5

\* The radix is a natural number.
LEMMA RadixInt ==
    ASSUME Width, NEW k \in Kinds
    PROVE  Radix(k) \in Nat
<1>1. 1 \in Nat /\ W \in Nat /\ W * W \in Nat
  <2>1. W \in Nat
    BY WordSize
  <2> QED  BY <2>1, SMT
<1> QED  BY <1>1, KindIs

\* The stored value by word count.
LEMMA StoredIs ==
    ASSUME NEW k, NEW a
    PROVE  /\ k \in TwoWords => Stored(k, a) = Val(a)
           /\ k \notin TwoWords => Stored(k, a) = a
  BY DEF Stored

\* The bounds on the moduli of the four kinds.
LEMMA ModulusIs ==
    ASSUME Width, NEW k \in Kinds, NEW n \in ModuliOf(k)
    PROVE  /\ n \in Nat /\ n > 1 /\ n < W * W
           /\ k \notin TwoWords => n \in Word
           /\ k # "ul" => n % 2 = 1
           /\ k \in TwoWords => 2 * n <= W * W
           /\ k = "redc15ul" => n <= W * HalfW
           /\ k = "redc2ul2" => 4 * n <= W * W
<1>1. W \in Nat /\ W >= 16 /\ HalfW \in Nat /\ HalfW >= 4 /\ W = HalfW * HalfW
  BY WordSize
<1>2. W * W \in Nat /\ W * W >= 16 * W
  BY <1>1, SMT
<1>3. CASE k = "ul"
  <2>1. n \in 2 .. W - 1
    BY <1>3 DEF ModuliOf
  <2>2. n \in Nat /\ n > 1 /\ n < W * W
    BY <2>1, <1>1, <1>2, SMT
  <2>3. n \in Word
    BY <2>1, <1>1, SMT DEF Word
  <2> QED  BY <2>2, <2>3, <1>3, KindIs
<1>4. CASE k = "redcul"
  <2>1. n \in 3 .. W - 1 /\ n % 2 = 1
    BY <1>4 DEF ModuliOf
  <2>2. n \in Nat /\ n > 1 /\ n < W * W
    BY <2>1, <1>1, <1>2, SMT
  <2>3. n \in Word
    BY <2>1, <1>1, SMT DEF Word
  <2> QED  BY <2>1, <2>2, <2>3, <1>4, KindIs
<1>5. CASE k = "redc15ul"
  <2>1. n \in W + 1 .. 2^((3 * LONG_BIT) \div 2) - 1 /\ n % 2 = 1
    BY <1>5 DEF ModuliOf
  <2>2. n \in W + 1 .. W * HalfW - 1
    BY <2>1 DEF Width
  <2>3. PICK g, s \in Nat : g = W * HalfW /\ s = W * W
    BY <1>1, SMT
  <2>4. 4 * (W * HalfW) <= W * W
    <3>1. W * (4 * HalfW) <= W * W
      <4>1. 4 * HalfW <= W
        <5>1. 4 * HalfW <= HalfW * HalfW
          BY <1>1, SMT
        <5> QED  BY <5>1, <1>1
      <4> QED  BY <4>1, <1>1, SMT
    <3>2. W * (4 * HalfW) = 4 * (W * HalfW)
      BY <1>1, SMT
    <3> QED  BY <3>1, <3>2
  <2>5. n \in W + 1 .. g - 1 /\ 4 * g <= s
    BY <2>2, <2>3, <2>4
  <2>6. n \in Nat /\ n > 1 /\ n < s /\ 2 * n <= s /\ n <= g
    BY <2>5, <1>1, SMT
  <2> QED  BY <2>1, <2>3, <2>6, <1>5, KindIs
<1>6. CASE k = "redc2ul2"
  <2>1. n \in W + 1 .. 2^(2 * LONG_BIT - 2) - 1 /\ n % 2 = 1
    BY <1>6 DEF ModuliOf
  <2>2. PICK s, e \in Int : s = W * W /\ e = 2^(2 * LONG_BIT - 2) /\ s = 4 * e
    <3>1. W * W = 4 * 2^(2 * LONG_BIT - 2)
      BY DEF Width
    <3>2. 2^(2 * LONG_BIT - 2) \in Int
      <4>1. LONG_BIT \in Nat /\ LONG_BIT >= 4
        BY SMT DEF Width
      <4>2. 2 * LONG_BIT - 2 \in Nat
        BY <4>1, SMT
      <4> QED  BY <4>2, SMT
    <3> QED  BY <3>1, <3>2, <1>2
  <2>3. n \in W + 1 .. e - 1
    BY <2>1, <2>2
  <2>4. n \in Nat /\ n > 1 /\ n < s /\ 2 * n <= s /\ 4 * n <= s
    BY <2>2, <2>3, <1>1, SMT
  <2> QED  BY <2>1, <2>2, <2>4, <1>6, KindIs
<1> QED  BY <1>3, <1>4, <1>5, <1>6, KindIs

\* The fields initmod_uls sets: the modulus and -1/m modulo W.
LEMMA TwoWordModulus ==
    ASSUME Width, NEW k \in Kinds, k \in TwoWords, NEW n \in ModuliOf(k),
           NEW m, m = initmod(k, n)
    PROVE  /\ m.m \in Pair /\ Val(m.m) = n /\ m.invm \in Word
           /\ Cong(m.m[1] * m.invm, -1, W)
<1>1. n \in Nat /\ n < W * W /\ n % 2 = 1
  BY ModulusIs, KindIs
<1>2. PICK p : p = OfVal(n)
  OBVIOUS
<1>3. p \in Pair /\ Val(p) = n
  BY <1>1, <1>2, OfValIs
<1>4. p[1] \in Word /\ p[1] % 2 = 1
  BY <1>1, <1>3, ValRange, ParityPair
<1>5. m = modredc15ul_initmod_uls(p)
  <2>1. CASE k = "redc15ul"
    BY <2>1, <1>2 DEF initmod
  <2>2. CASE k = "redc2ul2"
    BY <2>2, <1>2 DEF initmod, modredc2ul2_initmod_uls
  <2> QED  BY <2>1, <2>2, KindIs
<1>6. m.m = p /\ m.invm = (-ularith_invmod(p[1])) % W
  BY <1>5 DEF modredc15ul_initmod_uls
<1>7. m.invm \in Word /\ Cong(p[1] * m.invm, -1, W)
  BY <1>4, <1>6, InvmIs
<1> QED  BY <1>3, <1>6, <1>7

\* The fields modredcul_initmod_ul sets.
LEMMA OneWordModulus ==
    ASSUME Width, NEW n \in ModuliOf("redcul"), NEW m, m = initmod("redcul", n)
    PROVE  m.m = n /\ m.invm \in Word /\ Cong(n * m.invm, -1, W)
<1>1. "redcul" \in Kinds
  BY DEF Kinds
<1>2. n \in Word /\ n % 2 = 1
  BY <1>1, ModulusIs, KindIs
<1>3. m = modredcul_initmod_ul(n)
  BY DEF initmod
<1>4. m.m = n /\ m.invm = (-ularith_invmod(n)) % W
  BY <1>3 DEF modredcul_initmod_ul
<1> QED  BY <1>2, <1>4, InvmIs

\* A factor with an inverse cancels.
LEMMA CongCancel ==
    ASSUME NEW a \in Int, NEW b \in Int, NEW c \in Int, NEW j \in Int, NEW n \in Int,
           Cong(a * c, b * c, n), Cong(c * j, 1, n)
    PROVE  Cong(a, b, n)
<1>1. a * c \in Int /\ b * c \in Int /\ c * j \in Int /\ 1 \in Int
  BY SMT
<1>2. Cong((a * c) * j, (b * c) * j, n)
  BY <1>1, CongTimes
<1>3. Cong(a * (c * j), a * 1, n) /\ Cong(b * (c * j), b * 1, n)
  BY <1>1, CongTimes
<1>4. /\ (a * c) * j = a * (c * j) /\ (b * c) * j = b * (c * j) /\ a * 1 = a /\ b * 1 = b
      /\ a * (c * j) \in Int /\ b * (c * j) \in Int
  BY SMT
<1>5. Cong(a, a * (c * j), n) /\ Cong(a * (c * j), b * (c * j), n) /\ Cong(b * (c * j), b, n)
  BY <1>2, <1>3, <1>4, CongSym
<1>6. Cong(a, b * (c * j), n)
  BY <1>4, <1>5, CongTrans
<1> QED  BY <1>4, <1>5, <1>6, CongTrans

\* The radix is invertible modulo n, since n times invm is -1 modulo W.
LEMMA RadixUnit ==
    ASSUME Width, NEW k \in Kinds, NEW n \in ModuliOf(k)
    PROVE  \E j \in Int : Cong(Radix(k) * j, 1, n)
<1>1. W \in Nat /\ n \in Nat
  BY WordSize, ModulusIs
<1>2. CASE k = "ul"
  <2>1. Radix(k) = 1
    BY <1>2, KindIs
  <2>2. 1 * 1 = 1 + 0 * n /\ 1 \in Int /\ 0 \in Int
    BY <1>1, SMT
  <2>3. Cong(1 * 1, 1, n)
    BY <2>2 DEF Cong
  <2> QED  BY <2>1, <2>2, <2>3
<1>3. CASE k = "redcul"
  <2>1. PICK m : m = initmod(k, n)
    OBVIOUS
  <2>2. m.invm \in Word /\ Cong(n * m.invm, -1, W)
    BY <2>1, <1>3, OneWordModulus
  <2>3. PICK i \in Int : i = m.invm
    BY <2>2, WordInt
  <2>4. PICK l \in Int : n * i = -1 + l * W
    BY <2>2, <2>3 DEF Cong
  <2>5. W * l = 1 + i * n
    <3>1. PICK x, y \in Int : x = n * i /\ y = l * W
      BY <1>1, SMT
    <3>2. x = -1 + y
      BY <2>4, <3>1
    <3>3. y = 1 + x
      BY <3>2, SMT
    <3>4. W * l = l * W /\ i * n = n * i
      BY <1>1, SMT
    <3> QED  BY <3>1, <3>3, <3>4
  <2>6. Cong(W * l, 1, n)
    BY <2>5 DEF Cong
  <2> QED  BY <2>6, <1>3, KindIs
<1>4. CASE k \in TwoWords
  <2>1. PICK m : m = initmod(k, n)
    OBVIOUS
  <2>2. m.m \in Pair /\ Val(m.m) = n /\ m.invm \in Word /\ Cong(m.m[1] * m.invm, -1, W)
    BY <2>1, <1>4, TwoWordModulus
  <2>3. PICK i \in Int : i = m.invm
    BY <2>2, WordInt
  <2>4. PICK n1, n2 \in Nat : n1 = m.m[1] /\ n2 = m.m[2]
    BY <2>2, ValRange
  <2>5. n = n1 + W * n2
    BY <2>2, <2>4, ValRange
  <2>6. Cong(n1 * i, -1, W)
    BY <2>2, <2>3, <2>4
  <2>7. PICK l \in Int : n1 * i = -1 + l * W
    BY <2>6 DEF Cong
  <2>8. PICK j \in Int : j = l + n2 * i
    BY SMT
  <2>9. W * j = 1 + i * n
    <3>1. W * (l + n2 * i) = l * W + W * (n2 * i)
      BY <1>1, SMT
    <3>2. i * (n1 + W * n2) = n1 * i + W * (n2 * i)
      BY <1>1, SMT
    <3>3. PICK x, y, z \in Int : x = n1 * i /\ y = l * W /\ z = W * (n2 * i)
      BY <1>1, SMT
    <3>4. x = -1 + y /\ i * n = x + z /\ W * j = y + z
      BY <2>5, <2>7, <2>8, <3>1, <3>2, <3>3
    <3>5. y + z = 1 + (x + z)
      BY <3>4, SMT
    <3> QED  BY <3>4, <3>5
  <2>10. Cong(W * j, 1, n)
    BY <2>9 DEF Cong
  <2>11. W * j \in Int /\ 1 \in Int /\ n \in Int
    BY <1>1, SMT
  <2>12. Cong((W * j) * (W * j), 1 * 1, n)
    BY <2>10, <2>11, CongMul
  <2>13. (W * j) * (W * j) = (W * W) * (j * j) /\ 1 * 1 = 1 /\ j * j \in Int
    BY <1>1, SMT
  <2>14. Cong((W * W) * (j * j), 1, n)
    BY <2>12, <2>13
  <2> QED  BY <2>13, <2>14, <1>4, KindIs
<1> QED  BY <1>2, <1>3, <1>4, KindIs

\* The numbers in Stands are integers.
LEMMA StandsInt ==
    ASSUME Width, NEW k \in Kinds, NEW n \in ModuliOf(k), NEW a, NEW x \in Int, Stands(k, a, x, n)
    PROVE  /\ n \in Nat /\ n \in Int /\ n > 0 /\ n > 1 /\ Radix(k) \in Int
           /\ Stored(k, a) \in Int /\ x * Radix(k) \in Int
           /\ Stored(k, a) \in 0 .. n - 1 /\ Cong(Stored(k, a), x * Radix(k), n)
<1>1. n \in Nat /\ n > 1 /\ Radix(k) \in Nat
  BY ModulusIs, RadixInt
<1>2. Stored(k, a) \in 0 .. n - 1 /\ Cong(Stored(k, a), x * Radix(k), n)
  BY DEF Stands
<1>3. n \in Int /\ n > 0 /\ Radix(k) \in Int /\ x * Radix(k) \in Int
  BY <1>1, SMT
<1>4. Stored(k, a) \in Int
  BY <1>1, <1>2, SMT
<1> QED  BY <1>1, <1>2, <1>3, <1>4

\* The representation of x, the reference of RingOk.
LEMMA ReprIs ==
    ASSUME Width, NEW k \in Kinds, NEW n \in ModuliOf(k), NEW x \in Int
    PROVE  \E r \in 0 .. n - 1 :
              /\ r = ((x % n) * (Radix(k) % n)) % n /\ Cong(r, x * Radix(k), n)
              /\ k \in TwoWords => Repr(k, x, n) = OfVal(r)
              /\ k \notin TwoWords => Repr(k, x, n) = r
<1>1. n \in Nat /\ n > 0 /\ n \in Int /\ Radix(k) \in Int
  <2>1. n \in Nat /\ n > 1 /\ Radix(k) \in Nat
    BY ModulusIs, RadixInt
  <2> QED  BY <2>1, SMT
<1>2. PICK R \in Int : R = Radix(k)
  BY <1>1
<1>3. Cong(x % n, x, n) /\ x % n \in 0 .. n - 1 /\ Cong(R % n, R, n) /\ R % n \in 0 .. n - 1
  BY <1>1, CongMod
<1>4. PICK xm, rm \in Int : xm = x % n /\ rm = R % n
  BY <1>1, <1>3, SMT
<1>5. Cong(xm * rm, x * R, n)
  <2>1. Cong(xm, x, n) /\ Cong(rm, R, n)
    BY <1>3, <1>4
  <2> QED  BY <2>1, <1>1, CongMul
<1>6. PICK p \in Int : p = xm * rm
  BY SMT
<1>7. Cong(p % n, p, n) /\ p % n \in 0 .. n - 1
  BY <1>1, CongMod
<1>8. PICK r \in 0 .. n - 1 : r = p % n
  BY <1>7
<1>9. Cong(r, x * R, n)
  <2>1. r \in Int /\ x * R \in Int
    BY <1>1, SMT
  <2> QED  BY <2>1, <1>1, <1>5, <1>6, <1>7, <1>8, CongTrans
<1>10. r = ((x % n) * (Radix(k) % n)) % n
  BY <1>2, <1>4, <1>6, <1>8
<1>11. /\ k \in TwoWords => Repr(k, x, n) = OfVal(r)
       /\ k \notin TwoWords => Repr(k, x, n) = r
  BY <1>10 DEF Repr
<1> QED  BY <1>2, <1>9, <1>10, <1>11

\* The reference residue of x stands for x.
LEMMA ReprStands ==
    ASSUME Width, NEW k \in Kinds, NEW n \in ModuliOf(k), NEW x \in Int
    PROVE  Stands(k, Repr(k, x, n), x, n)
<1>1. PICK r \in 0 .. n - 1 :
         /\ Cong(r, x * Radix(k), n)
         /\ k \in TwoWords => Repr(k, x, n) = OfVal(r)
         /\ k \notin TwoWords => Repr(k, x, n) = r
  BY ReprIs
<1>2. n \in Nat /\ n < W * W /\ W * W \in Nat
  <2>1. W \in Nat
    BY WordSize
  <2>2. n \in Nat /\ n < W * W
    BY ModulusIs
  <2> QED  BY <2>1, <2>2, SMT
<1>3. r \in Nat /\ r < W * W /\ r \in Int
  BY <1>2, SMT
<1>4. CASE k \in TwoWords
  <2>1. OfVal(r) \in Pair /\ Val(OfVal(r)) = r
    BY <1>3, OfValIs
  <2>2. Stored(k, Repr(k, x, n)) = r /\ IsFormat(k, Repr(k, x, n))
    BY <2>1, <1>1, <1>4 DEF Stored, IsFormat
  <2> QED  BY <2>2, <1>1 DEF Stands
<1>5. CASE k \notin TwoWords
  <2>1. Stored(k, Repr(k, x, n)) = r /\ IsFormat(k, Repr(k, x, n))
    BY <1>1, <1>3, <1>5 DEF Stored, IsFormat
  <2> QED  BY <2>1, <1>1 DEF Stands
<1> QED  BY <1>4, <1>5

\* Only one residue stands for an integer.
LEMMA StandsOne ==
    ASSUME Width, NEW k \in Kinds, NEW n \in ModuliOf(k), NEW x \in Int,
           NEW a, Stands(k, a, x, n), NEW b, Stands(k, b, x, n)
    PROVE  a = b
<1>1. /\ n \in Nat /\ n \in Int /\ x * Radix(k) \in Int
      /\ Stored(k, a) \in Int /\ Stored(k, b) \in Int
      /\ Stored(k, a) \in 0 .. n - 1 /\ Cong(Stored(k, a), x * Radix(k), n)
      /\ Stored(k, b) \in 0 .. n - 1 /\ Cong(Stored(k, b), x * Radix(k), n)
  BY StandsInt
<1>2. Cong(x * Radix(k), Stored(k, b), n)
  BY <1>1, CongSym
<1>3. Cong(Stored(k, a), Stored(k, b), n)
  BY <1>1, <1>2, CongTrans
<1>4. Stored(k, a) = Stored(k, b)
  BY <1>1, <1>3, CongEqual
<1>5. CASE k \in TwoWords
  <2>1. a \in Pair /\ b \in Pair /\ Val(a) = Val(b)
    BY <1>4, <1>5 DEF Stands, IsFormat, Stored
  <2> QED  BY <2>1, ValOne
<1>6. CASE k \notin TwoWords
  BY <1>4, <1>6 DEF Stored
<1> QED  BY <1>5, <1>6

\* The integer a reduced residue stands for exists, and is Plain.
LEMMA PlainStands ==
    ASSUME Width, NEW k \in Kinds, NEW n \in ModuliOf(k),
           NEW a, IsFormat(k, a), Stored(k, a) \in 0 .. n - 1
    PROVE  Plain(k, a, n) \in 0 .. n - 1 /\ Stands(k, a, Plain(k, a, n), n)
<1>1. n \in Nat /\ n > 0 /\ n \in Int /\ Radix(k) \in Int
  <2>1. n \in Nat /\ n > 1 /\ Radix(k) \in Nat
    BY ModulusIs, RadixInt
  <2> QED  BY <2>1, SMT
<1>2. PICK R, S \in Int : R = Radix(k) /\ S = Stored(k, a)
  <2>1. Stored(k, a) \in Int
    BY <1>1, SMT
  <2> QED  BY <2>1, <1>1
<1>3. PICK j \in Int : Cong(R * j, 1, n)
  BY <1>2, RadixUnit
<1>4. PICK rm \in Int : rm = R % n /\ Cong(rm, R, n)
  <2>1. Cong(R % n, R, n) /\ R % n \in 0 .. n - 1
    BY <1>1, CongMod
  <2>2. R % n \in Int
    BY <2>1, <1>1, SMT
  <2> QED  BY <2>1, <2>2
<1>5. \A x \in Int : (x * rm) % n = S <=> Cong(S, x * R, n)
  <2> SUFFICES ASSUME NEW x \in Int PROVE (x * rm) % n = S <=> Cong(S, x * R, n)
    OBVIOUS
  <2>1. PICK p, q \in Int : p = x * rm /\ q = x * R
    BY SMT
  <2>2. Cong(p, q, n) /\ Cong(q, p, n)
    BY <2>1, <1>1, <1>4, CongTimes, CongSym
  <2>3. Cong(p % n, p, n) /\ Cong(p, p % n, n)
    BY <1>1, CongMod
  <2>4. ASSUME p % n = S PROVE Cong(S, q, n)
    BY <2>2, <2>3, <2>4, <1>1, CongTrans
  <2>5. ASSUME Cong(S, q, n) PROVE p % n = S
    <3>1. Cong(q, S, n)
      BY <2>5, <1>1, CongSym
    <3>2. Cong(p, S, n)
      BY <3>1, <2>2, <1>1, CongTrans
    <3>3. S \in 0 .. n - 1
      BY <1>2
    <3> QED  BY <3>2, <3>3, <1>1, ModIs
  <2> QED  BY <2>1, <2>4, <2>5
<1>6. \E x \in 0 .. n - 1 : (x * rm) % n = S
  <2>1. PICK y \in Int : y = S * j
    BY SMT
  <2>2. PICK x \in 0 .. n - 1 : Cong(x, y, n)
    BY <1>1, CongMod
  <2>3. x \in Int /\ x * R \in Int /\ y * R \in Int
    BY <1>1, SMT
  <2>4. Cong(x * R, y * R, n)
    BY <2>2, <2>3, <1>1, CongTimes
  <2>5. y * R = S * (R * j) /\ R * j \in Int /\ S * 1 = S /\ S * (R * j) \in Int /\ 1 \in Int
    BY <2>1, SMT
  <2>6. Cong(S * (R * j), S * 1, n)
    BY <2>5, <1>1, <1>3, CongTimes
  <2>7. Cong(x * R, S, n)
    BY <2>3, <2>4, <2>5, <2>6, <1>1, CongTrans
  <2>8. Cong(S, x * R, n)
    BY <2>3, <2>7, <1>1, CongSym
  <2> QED  BY <2>3, <2>8, <1>5
<1>7. Plain(k, a, n) = CHOOSE x \in 0 .. n - 1 : (x * rm) % n = S
  BY <1>2, <1>4 DEF Plain
<1>8. PICK x \in 0 .. n - 1 : x = Plain(k, a, n) /\ (x * rm) % n = S
  BY <1>6, <1>7
<1>9. x \in Int
  BY <1>1, SMT
<1>10. Cong(S, x * R, n)
  BY <1>5, <1>8, <1>9
<1> QED  BY <1>2, <1>8, <1>10 DEF Stands

(* What the values of results show of what they stand for.                 *)

LEMMA SameStands ==
    ASSUME Width, NEW k \in Kinds, NEW n \in ModuliOf(k), NEW x \in Int, NEW y \in Int,
           Cong(x, y, n), NEW a, Stands(k, a, x, n)
    PROVE  Stands(k, a, y, n)
<1>1. /\ n \in Nat /\ n \in Int /\ Radix(k) \in Int /\ x * Radix(k) \in Int
      /\ Stored(k, a) \in Int
      /\ Stored(k, a) \in 0 .. n - 1 /\ Cong(Stored(k, a), x * Radix(k), n)
  BY StandsInt
<1>2. Cong(x * Radix(k), y * Radix(k), n) /\ y * Radix(k) \in Int
  <2>1. y * Radix(k) \in Int
    BY <1>1, SMT
  <2> QED  BY <2>1, <1>1, CongTimes
<1>3. Cong(Stored(k, a), y * Radix(k), n)
  BY <1>1, <1>2, CongTrans
<1> QED  BY <1>1, <1>3 DEF Stands

\* Adding or subtracting the modulus keeps the class.
LEMMA Shifted ==
    ASSUME NEW v \in Int, NEW s \in Int, NEW n \in Int, v = s \/ v = s - n \/ v = s + n
    PROVE  Cong(v, s, n)
<1>1. CASE v = s
  <2>1. v = s + 0 * n /\ 0 \in Int
    BY <1>1, SMT
  <2> QED  BY <2>1 DEF Cong
<1>2. CASE v = s - n
  <2>1. v = s + (-1) * n /\ -1 \in Int
    BY <1>2, SMT
  <2> QED  BY <2>1 DEF Cong
<1>3. CASE v = s + n
  <2>1. v = s + 1 * n /\ 1 \in Int
    BY <1>3, SMT
  <2> QED  BY <2>1 DEF Cong
<1> QED  BY <1>1, <1>2, <1>3

\* Residues of sums and differences stand for them.
LEMMA SumStands ==
    ASSUME Width, NEW k \in Kinds, NEW n \in ModuliOf(k), NEW x \in Int, NEW y \in Int,
           NEW a, Stands(k, a, x, n), NEW b, Stands(k, b, y, n),
           NEW r, IsFormat(k, r), Stored(k, r) \in 0 .. n - 1
    PROVE  /\ Cong(Stored(k, r), Stored(k, a) + Stored(k, b), n) => Stands(k, r, x + y, n)
           /\ Cong(Stored(k, r), Stored(k, a) - Stored(k, b), n) => Stands(k, r, x - y, n)
<1>1. /\ n \in Nat /\ n \in Int /\ Radix(k) \in Int
      /\ x * Radix(k) \in Int /\ y * Radix(k) \in Int
      /\ Stored(k, a) \in Int /\ Stored(k, b) \in Int
      /\ Cong(Stored(k, a), x * Radix(k), n) /\ Cong(Stored(k, b), y * Radix(k), n)
  BY StandsInt
<1>2. PICK R, A, V, S \in Int :
         R = Radix(k) /\ A = Stored(k, a) /\ V = Stored(k, b) /\ S = Stored(k, r)
  <2>1. Stored(k, r) \in Int
    BY <1>1, SMT
  <2> QED  BY <2>1, <1>1
<1>3. /\ x * R + y * R = (x + y) * R /\ x * R - y * R = (x - y) * R
      /\ x * R \in Int /\ y * R \in Int /\ A + V \in Int /\ A - V \in Int
      /\ (x + y) * R \in Int /\ (x - y) * R \in Int
  BY SMT
<1>4. Cong(A, x * R, n) /\ Cong(V, y * R, n)
  BY <1>1, <1>2
<1>5. Cong(A + V, x * R + y * R, n) /\ Cong(A - V, x * R - y * R, n)
  BY <1>1, <1>3, <1>4, CongAdd
<1>6. Cong(A + V, (x + y) * R, n) /\ Cong(A - V, (x - y) * R, n)
  BY <1>3, <1>5
<1>7. Cong(S, A + V, n) => Cong(S, (x + y) * R, n)
  BY <1>1, <1>3, <1>6, CongTrans
<1>8. Cong(S, A - V, n) => Cong(S, (x - y) * R, n)
  BY <1>1, <1>3, <1>6, CongTrans
<1> QED  BY <1>2, <1>7, <1>8 DEF Stands

\* A Montgomery product stands for the product.
LEMMA ProductStands ==
    ASSUME Width, NEW k \in Kinds, NEW n \in ModuliOf(k), NEW x \in Int, NEW y \in Int,
           NEW a, Stands(k, a, x, n), NEW b, Stands(k, b, y, n),
           NEW r, IsFormat(k, r), Stored(k, r) \in 0 .. n - 1,
           Cong(Stored(k, r) * Radix(k), Stored(k, a) * Stored(k, b), n)
    PROVE  Stands(k, r, x * y, n)
<1>1. /\ n \in Nat /\ n \in Int /\ Radix(k) \in Int
      /\ x * Radix(k) \in Int /\ y * Radix(k) \in Int
      /\ Stored(k, a) \in Int /\ Stored(k, b) \in Int
      /\ Cong(Stored(k, a), x * Radix(k), n) /\ Cong(Stored(k, b), y * Radix(k), n)
  BY StandsInt
<1>2. PICK R, A, V, S \in Int :
         R = Radix(k) /\ A = Stored(k, a) /\ V = Stored(k, b) /\ S = Stored(k, r)
  <2>1. Stored(k, r) \in Int
    BY <1>1, SMT
  <2> QED  BY <2>1, <1>1
<1>3. /\ (x * R) * (y * R) = ((x * y) * R) * R
      /\ x * R \in Int /\ y * R \in Int /\ A * V \in Int /\ S * R \in Int
      /\ (x * R) * (y * R) \in Int /\ (x * y) * R \in Int
  BY SMT
<1>4. Cong(A, x * R, n) /\ Cong(V, y * R, n) /\ Cong(S * R, A * V, n)
  BY <1>1, <1>2
<1>5. Cong(A * V, (x * R) * (y * R), n)
  BY <1>1, <1>3, <1>4, CongMul
<1>6. Cong(S * R, (x * R) * (y * R), n)
  BY <1>1, <1>3, <1>4, <1>5, CongTrans
<1>7. Cong(S * R, ((x * y) * R) * R, n)
  BY <1>3, <1>6
<1>8. PICK j \in Int : Cong(R * j, 1, n)
  BY <1>2, RadixUnit
<1>9. Cong(S, (x * y) * R, n)
  BY <1>1, <1>3, <1>7, <1>8, CongCancel
<1> QED  BY <1>2, <1>9 DEF Stands

\* Half of a, or of a + n.
LEMMA HalfStands ==
    ASSUME Width, NEW k \in Kinds, NEW n \in ModuliOf(k), n % 2 = 1, NEW x \in Int, NEW h \in Int,
           Cong(2 * h, x, n), NEW a, Stands(k, a, x, n),
           NEW r, IsFormat(k, r), Stored(k, r) \in 0 .. n - 1,
           2 * Stored(k, r) = Stored(k, a) \/ 2 * Stored(k, r) = Stored(k, a) + n
    PROVE  Stands(k, r, h, n)
<1>1. /\ n \in Nat /\ n \in Int /\ Radix(k) \in Int
      /\ x * Radix(k) \in Int /\ Stored(k, a) \in Int
      /\ Cong(Stored(k, a), x * Radix(k), n)
  BY StandsInt
<1>2. PICK R, A, S \in Int : R = Radix(k) /\ A = Stored(k, a) /\ S = Stored(k, r)
  <2>1. Stored(k, r) \in Int
    BY <1>1, SMT
  <2> QED  BY <2>1, <1>1
<1>3. /\ S * 2 = 2 * S /\ (2 * h) * R = (h * R) * 2 /\ 2 * S \in Int /\ 2 * h \in Int
      /\ x * R \in Int /\ (2 * h) * R \in Int /\ h * R \in Int /\ S * 2 \in Int
      /\ (h * R) * 2 \in Int /\ 2 \in Int
  BY SMT
<1>4. Cong(2 * S, A, n)
  <2>1. 2 * S = A \/ 2 * S = A - n \/ 2 * S = A + n
    BY <1>2
  <2> QED  BY <2>1, <1>1, <1>3, Shifted
<1>5. Cong(A, x * R, n)
  BY <1>1, <1>2
<1>6. Cong(x * R, (2 * h) * R, n)
  <2>1. Cong(x, 2 * h, n)
    BY <1>1, <1>3, CongSym
  <2> QED  BY <2>1, <1>1, <1>3, CongTimes
<1>7. Cong(2 * S, (2 * h) * R, n)
  <2>1. Cong(2 * S, x * R, n)
    BY <1>1, <1>3, <1>4, <1>5, CongTrans
  <2> QED  BY <2>1, <1>1, <1>3, <1>6, CongTrans
<1>8. Cong(S * 2, (h * R) * 2, n)
  BY <1>3, <1>7
<1>9. PICK j \in Int : 2 * j = 1 + 1 * n
  <2>1. 2 * ((n + 1) \div 2) = 1 + 1 * n /\ (n + 1) \div 2 \in Int
    BY <1>1, SMT
  <2> QED  BY <2>1
<1>10. Cong(2 * j, 1, n)
  <2>1. 1 \in Int
    BY SMT
  <2> QED  BY <2>1, <1>9 DEF Cong
<1>11. Cong(S, h * R, n)
  BY <1>1, <1>3, <1>8, <1>10, CongCancel
<1> QED  BY <1>2, <1>11 DEF Stands

(* The operations of the four kinds, on what they stand for.                *)

\* modredc_ul.h repeats the operations of mod_ul.h with m.m for the modulus.
LEMMA OneWordOps ==
    ASSUME Width, NEW k \in Kinds, k \notin TwoWords, NEW n \in ModuliOf(k),
           NEW m, m = initmod(k, n), NEW a, NEW b
    PROVE  /\ add(k, a, b, m) = modul_add(a, b, n)
           /\ sub(k, a, b, m) = modul_sub(a, b, n)
           /\ neg(k, a, m) = modul_neg(a, n)
           /\ div2(k, a, m) = modul_div2(a, n)
<1>1. CASE k = "ul"
  <2>1. m = n
    BY <1>1 DEF initmod
  <2> QED  BY <1>1, <2>1 DEF add, sub, neg, div2
<1>2. CASE k = "redcul"
  <2>1. m.m = n
    BY <1>2, OneWordModulus
  <2>2. add(k, a, b, m) = modredcul_add(a, b, m) /\ sub(k, a, b, m) = modredcul_sub(a, b, m)
    BY <1>2 DEF add, sub
  <2>3. neg(k, a, m) = modredcul_neg(a, m) /\ div2(k, a, m) = modredcul_div2(a, m)
    BY <1>2 DEF neg, div2
  <2>4. modredcul_add(a, b, m) = modul_add(a, b, n)
    BY <2>1, Zenon DEF modredcul_add, modul_add
  <2>5. modredcul_sub(a, b, m) = modul_sub(a, b, n)
    BY <2>1, Zenon DEF modredcul_sub, modul_sub
  <2>6. modredcul_neg(a, m) = modul_neg(a, n)
    BY <2>1, Zenon DEF modredcul_neg, modul_neg
  <2>7. modredcul_div2(a, m) = modul_div2(a, n)
    BY <2>1, Zenon DEF modredcul_div2, modul_div2
  <2> QED  BY <2>2, <2>3, <2>4, <2>5, <2>6, <2>7
<1> QED  BY <1>1, <1>2, KindIs

\* modredc_2ul2.h repeats the text of modredc_15ul.h for these operations.
LEMMA TwoWordOps ==
    ASSUME NEW k \in Kinds, k \in TwoWords, NEW m, NEW a, NEW b
    PROVE  /\ add(k, a, b, m) = modredc15ul_add(a, b, m)
           /\ sub(k, a, b, m) = modredc15ul_sub(a, b, m)
           /\ neg(k, a, m) = modredc15ul_neg(a, m)
           /\ div2(k, a, m) = modredc15ul_div2(a, m)
<1>1. CASE k = "redc15ul"
  BY <1>1 DEF add, sub, neg, div2
<1>2. CASE k = "redc2ul2"
  BY <1>2 DEF add, sub, neg, div2, modredc2ul2_add, modredc2ul2_sub, modredc2ul2_neg,
              modredc2ul2_div2
<1> QED  BY <1>1, <1>2, KindIs

Reduced(k, a, n) == IsFormat(k, a) /\ Stored(k, a) \in 0 .. n - 1

\* A reduced residue of one word.
LEMMA OneReduced ==
    ASSUME Width, NEW k \in Kinds, k \notin TwoWords, NEW n \in ModuliOf(k), NEW a
    PROVE  Reduced(k, a, n) <=> a \in 0 .. n - 1
<1>1. n \in Nat /\ Stored(k, a) = a
  BY ModulusIs, StoredIs
<1>2. a \in 0 .. n - 1 => a \in Int
  BY <1>1, SMT
<1> QED  BY <1>1, <1>2 DEF Reduced, IsFormat

\* A reduced residue of two words.
LEMMA TwoReduced ==
    ASSUME Width, NEW k \in Kinds, k \in TwoWords, NEW n \in ModuliOf(k), NEW a
    PROVE  /\ Reduced(k, a, n) => a \in Pair /\ Val(a) < n
           /\ a \in Pair /\ Val(a) \in 0 .. n - 1 => Reduced(k, a, n)
<1>1. n \in Nat /\ Stored(k, a) = Val(a)
  BY ModulusIs, StoredIs
<1>2. Val(a) \in 0 .. n - 1 => Val(a) < n
  BY <1>1, SMT
<1> QED  BY <1>1, <1>2 DEF Reduced, IsFormat

\* A sum is reduced by one subtraction of the modulus, a difference by one addition.
LEMMA SumValue ==
    ASSUME Width, NEW k \in Kinds, NEW n \in ModuliOf(k), NEW m, m = initmod(k, n),
           NEW a, Reduced(k, a, n), NEW b, Reduced(k, b, n)
    PROVE  /\ Reduced(k, add(k, a, b, m), n)
           /\ \/ Stored(k, add(k, a, b, m)) = Stored(k, a) + Stored(k, b)
              \/ Stored(k, add(k, a, b, m)) = (Stored(k, a) + Stored(k, b)) - n
           /\ Reduced(k, sub(k, a, b, m), n)
           /\ \/ Stored(k, sub(k, a, b, m)) = Stored(k, a) - Stored(k, b)
              \/ Stored(k, sub(k, a, b, m)) = (Stored(k, a) - Stored(k, b)) + n
<1>1. PICK s, d : s = add(k, a, b, m) /\ d = sub(k, a, b, m)
  OBVIOUS
<1>2. CASE k \notin TwoWords
  <2>1. n \in Word /\ a \in 0 .. n - 1 /\ b \in 0 .. n - 1
    BY <1>2, ModulusIs, OneReduced
  <2>2. s = modul_add(a, b, n) /\ d = modul_sub(a, b, n)
    BY <1>1, <1>2, OneWordOps
  <2>3. s \in 0 .. n - 1 /\ (s = a + b \/ s = (a + b) - n)
    BY <2>1, <2>2, ModulAdd
  <2>4. d \in 0 .. n - 1 /\ (d = a - b \/ d = (a - b) + n)
    <3>1. d \in 0 .. n - 1 /\ (d = a - b \/ d = a - b + n)
      BY <2>1, <2>2, ModulSub
    <3> QED  BY <3>1
  <2>5. Stored(k, a) = a /\ Stored(k, b) = b /\ Stored(k, s) = s /\ Stored(k, d) = d
    BY <1>2, StoredIs
  <2>6. Reduced(k, s, n) /\ Reduced(k, d, n)
    BY <1>2, <2>3, <2>4, OneReduced
  <2> QED  BY <1>1, <2>3, <2>4, <2>5, <2>6
<1>3. CASE k \in TwoWords
  <2>1. PICK p \in Pair : p = m.m /\ Val(p) = n /\ 2 * Val(p) <= W * W
    BY <1>3, ModulusIs, TwoWordModulus
  <2>2. a \in Pair /\ Val(a) < Val(p) /\ b \in Pair /\ Val(b) < Val(p)
    BY <1>3, <2>1, TwoReduced
  <2>3. s = modredc15ul_add(a, b, m) /\ d = modredc15ul_sub(a, b, m)
    BY <1>1, <1>3, TwoWordOps
  <2>4. /\ s \in Pair /\ Val(s) \in 0 .. Val(p) - 1
        /\ Val(s) = Val(a) + Val(b) \/ Val(s) = (Val(a) + Val(b)) - Val(p)
    BY <2>1, <2>2, <2>3, Add15
  <2>5. /\ d \in Pair /\ Val(d) \in 0 .. Val(p) - 1
        /\ Val(d) = Val(a) - Val(b) \/ Val(d) = (Val(a) - Val(b)) + Val(p)
    BY <2>1, <2>2, <2>3, Sub15
  <2>6. /\ Stored(k, a) = Val(a) /\ Stored(k, b) = Val(b)
        /\ Stored(k, s) = Val(s) /\ Stored(k, d) = Val(d)
    BY <1>3, StoredIs
  <2>7. Reduced(k, s, n) /\ Reduced(k, d, n)
    BY <1>3, <2>1, <2>4, <2>5, TwoReduced
  <2> QED  BY <1>1, <2>1, <2>4, <2>5, <2>6, <2>7
<1> QED  BY <1>2, <1>3

\* The value of an opposite.
LEMMA NegValue ==
    ASSUME Width, NEW k \in Kinds, NEW n \in ModuliOf(k), NEW m, m = initmod(k, n),
           NEW a, Reduced(k, a, n)
    PROVE  /\ Reduced(k, neg(k, a, m), n)
           /\ \/ Stored(k, neg(k, a, m)) + Stored(k, a) = 0
              \/ Stored(k, neg(k, a, m)) + Stored(k, a) = n
<1>1. PICK r : r = neg(k, a, m)
  OBVIOUS
<1>2. CASE k \notin TwoWords
  <2>1. n \in Word /\ a \in 0 .. n - 1
    BY <1>2, ModulusIs, OneReduced
  <2>2. r = modul_neg(a, n)
    BY <1>1, <1>2, OneWordOps
  <2>3. r \in 0 .. n - 1 /\ (r + a = 0 \/ r + a = n)
    BY <2>1, <2>2, ModulNeg
  <2>4. Stored(k, a) = a /\ Stored(k, r) = r /\ Reduced(k, r, n)
    BY <1>2, <2>3, StoredIs, OneReduced
  <2> QED  BY <1>1, <2>3, <2>4
<1>3. CASE k \in TwoWords
  <2>1. PICK p \in Pair : p = m.m /\ Val(p) = n
    BY <1>3, TwoWordModulus
  <2>2. a \in Pair /\ Val(a) < Val(p)
    BY <1>3, <2>1, TwoReduced
  <2>3. r = modredc15ul_neg(a, m)
    BY <1>1, <1>3, TwoWordOps
  <2>4. /\ r \in Pair /\ Val(r) \in 0 .. Val(p) - 1
        /\ Val(r) + Val(a) = 0 \/ Val(r) + Val(a) = Val(p)
    BY <2>1, <2>2, <2>3, Neg15
  <2>5. Stored(k, a) = Val(a) /\ Stored(k, r) = Val(r) /\ Reduced(k, r, n)
    BY <1>3, <2>1, <2>4, StoredIs, TwoReduced
  <2> QED  BY <1>1, <2>1, <2>4, <2>5
<1> QED  BY <1>2, <1>3

\* The value of a half.
LEMMA HalfValue ==
    ASSUME Width, NEW k \in Kinds, NEW n \in ModuliOf(k), n % 2 = 1, NEW m, m = initmod(k, n),
           NEW a, Reduced(k, a, n)
    PROVE  /\ Reduced(k, div2(k, a, m), n)
           /\ \/ 2 * Stored(k, div2(k, a, m)) = Stored(k, a)
              \/ 2 * Stored(k, div2(k, a, m)) = Stored(k, a) + n
<1>1. PICK r : r = div2(k, a, m)
  OBVIOUS
<1>2. CASE k \notin TwoWords
  <2>1. n \in Word /\ a \in 0 .. n - 1
    BY <1>2, ModulusIs, OneReduced
  <2>2. r = modul_div2(a, n)
    BY <1>1, <1>2, OneWordOps
  <2>3. r \in 0 .. n - 1 /\ (2 * r = a \/ 2 * r = a + n)
    BY <2>1, <2>2, ModulDiv2
  <2>4. Stored(k, a) = a /\ Stored(k, r) = r /\ Reduced(k, r, n)
    BY <1>2, <2>3, StoredIs, OneReduced
  <2> QED  BY <1>1, <2>3, <2>4
<1>3. CASE k \in TwoWords
  <2>1. PICK p \in Pair : p = m.m /\ Val(p) = n /\ 2 * Val(p) <= W * W
    BY <1>3, ModulusIs, TwoWordModulus
  <2>2. a \in Pair /\ Val(a) < Val(p) /\ Val(p) % 2 = 1
    BY <1>3, <2>1, TwoReduced
  <2>3. r = modredc15ul_div2(a, m)
    BY <1>1, <1>3, TwoWordOps
  <2>4. /\ r \in Pair /\ Val(r) \in 0 .. Val(p) - 1
        /\ 2 * Val(r) = Val(a) \/ 2 * Val(r) = Val(a) + Val(p)
    BY <2>1, <2>2, <2>3, Div15
  <2>5. Stored(k, a) = Val(a) /\ Stored(k, r) = Val(r) /\ Reduced(k, r, n)
    BY <1>3, <2>1, <2>4, StoredIs, TwoReduced
  <2> QED  BY <1>1, <2>1, <2>4, <2>5
<1> QED  BY <1>2, <1>3

\* The product of two residues fits what one REDC of two words takes.
LEMMA ProductFits ==
    ASSUME Width, NEW n \in Word, n > 1, NEW a \in 0 .. n - 1, NEW b \in 0 .. n - 1
    PROVE  a \in Word /\ b \in Word /\ a * b < W * (n - 1)
<1>1. W \in Nat /\ n \in Nat /\ n < W
  <2>1. W \in Nat
    BY WordSize
  <2> QED  BY <2>1, SMT DEF Word
<1>2. a \in Nat /\ b \in Nat /\ a <= n - 1 /\ b <= n - 1 /\ n - 1 \in Nat /\ n - 1 > 0 /\ n - 1 < W
  BY <1>1, SMT
<1>3. a \in Word /\ b \in Word
  BY <1>1, <1>2, SMT DEF Word
<1>4. PICK e \in Nat : e = n - 1
  BY <1>2
<1>5. a * b <= e * b /\ e * b <= e * e /\ e * e < W * e
  <2>1. a * b <= e * b
    BY <1>2, <1>4, SMT
  <2>2. e * b <= e * e
    BY <1>2, <1>4, SMT
  <2>3. e * e < W * e
    BY <1>1, <1>2, <1>4, SMT
  <2> QED  BY <2>1, <2>2, <2>3
<1>6. a * b < W * e
  <2>1. PICK x, y, z, t \in Int : x = a * b /\ y = e * b /\ z = e * e /\ t = W * e
    BY <1>1, <1>2, SMT
  <2>2. x <= y /\ y <= z /\ z < t
    BY <1>5, <2>1
  <2>3. x < t
    BY <2>2, SMT
  <2> QED  BY <2>1, <2>3
<1> QED  BY <1>3, <1>4, <1>6

\* The product and the square, multiplied by the radix.
LEMMA ProductValue ==
    ASSUME Width, NEW k \in Kinds, NEW n \in ModuliOf(k), NEW m, m = initmod(k, n),
           NEW a, Reduced(k, a, n), NEW b, Reduced(k, b, n)
    PROVE  /\ Reduced(k, mul(k, a, b, m), n)
           /\ Cong(Stored(k, mul(k, a, b, m)) * Radix(k), Stored(k, a) * Stored(k, b), n)
           /\ Reduced(k, sqr(k, a, m), n)
           /\ Cong(Stored(k, sqr(k, a, m)) * Radix(k), Stored(k, a) * Stored(k, a), n)
<1>1. PICK r, s : r = mul(k, a, b, m) /\ s = sqr(k, a, m)
  OBVIOUS
<1>2. CASE k = "ul"
  <2>1. n \in Word /\ n \in Nat /\ a \in 0 .. n - 1 /\ b \in 0 .. n - 1 /\ Radix(k) = 1
    BY <1>2, ModulusIs, OneReduced, KindIs
  <2>2. m = n
    BY <1>2 DEF initmod
  <2>3. r = modul_mul(a, b, n) /\ s = modul_mul(a, a, n)
    BY <1>1, <1>2, <2>2 DEF mul, sqr, modul_sqr, modul_mul
  <2>4. r \in 0 .. n - 1 /\ Cong(r, a * b, n) /\ s \in 0 .. n - 1 /\ Cong(s, a * a, n)
    BY <2>1, <2>3, ModulMul
  <2>5. r * 1 = r /\ s * 1 = s
    BY <2>1, <2>4, SMT
  <2>6. Stored(k, a) = a /\ Stored(k, b) = b /\ Stored(k, r) = r /\ Stored(k, s) = s
    BY <1>2, StoredIs, KindIs
  <2>7. Reduced(k, r, n) /\ Reduced(k, s, n)
    BY <1>2, <2>4, OneReduced, KindIs
  <2> QED  BY <1>1, <2>1, <2>4, <2>5, <2>6, <2>7
<1>3. CASE k = "redcul"
  <2>1. n \in Word /\ n > 1 /\ a \in 0 .. n - 1 /\ b \in 0 .. n - 1 /\ Radix(k) = W
    BY <1>3, ModulusIs, OneReduced, KindIs
  <2>2. m.m = n /\ m.invm \in Word /\ Cong(n * m.invm, -1, W)
    BY <1>3, OneWordModulus
  <2>3. PICK p, q : p = ularith_mul_ul_ul_2ul(a, b) /\ q = ularith_mul_ul_ul_2ul(a, a)
    OBVIOUS
  <2>4. r = RedcAsm(p, m) /\ s = RedcAsm(q, m)
    BY <1>1, <1>3, <2>3 DEF mul, sqr, modredcul_mul, modredcul_sqr, ularith_sqr_ul_2ul,
                           ularith_mul_ul_ul_2ul
  <2>5. a \in Word /\ b \in Word /\ a * b < W * (n - 1) /\ a * a < W * (n - 1)
    BY <2>1, ProductFits
  <2>6. p \in Pair /\ Val(p) = a * b /\ q \in Pair /\ Val(q) = a * a
    BY <2>3, <2>5, MulWords
  <2>7. r \in 0 .. n - 1 /\ Cong(r * W, a * b, n)
    BY <2>1, <2>2, <2>4, <2>5, <2>6, RedcAsmRight
  <2>8. s \in 0 .. n - 1 /\ Cong(s * W, a * a, n)
    BY <2>1, <2>2, <2>4, <2>5, <2>6, RedcAsmRight
  <2>9. Stored(k, a) = a /\ Stored(k, b) = b /\ Stored(k, r) = r /\ Stored(k, s) = s
    BY <1>3, StoredIs, KindIs
  <2>10. Reduced(k, r, n) /\ Reduced(k, s, n)
    BY <1>3, <2>7, <2>8, OneReduced, KindIs
  <2> QED  BY <1>1, <2>1, <2>7, <2>8, <2>9, <2>10
<1>4. CASE k \in TwoWords
  <2>1. PICK p \in Pair : p = m.m /\ Val(p) = n
    BY <1>4, TwoWordModulus
  <2>2. PICK i \in Word : i = m.invm /\ Cong(p[1] * i, -1, W)
    BY <1>4, <2>1, TwoWordModulus
  <2>3. a \in Pair /\ Val(a) < Val(p) /\ b \in Pair /\ Val(b) < Val(p)
    BY <1>4, <2>1, TwoReduced
  <2>4. /\ r \in Pair /\ Val(r) \in 0 .. Val(p) - 1
        /\ Cong(Val(r) * (W * W), Val(a) * Val(b), Val(p))
        /\ s \in Pair /\ Val(s) \in 0 .. Val(p) - 1
        /\ Cong(Val(s) * (W * W), Val(a) * Val(a), Val(p))
    <3>1. CASE k = "redc15ul"
      <4>1. Val(p) <= W * HalfW
        BY <3>1, <2>1, ModulusIs
      <4>2. r = modredc15ul_mul(a, b, m) /\ s = modredc15ul_sqr(a, m)
        BY <1>1, <3>1 DEF mul, sqr
      <4>3. /\ r \in Pair /\ Val(r) \in 0 .. Val(p) - 1
            /\ Cong(Val(r) * (W * W), Val(a) * Val(b), Val(p))
        BY <4>1, <4>2, <2>1, <2>2, <2>3, Mul15
      <4>4. /\ s \in Pair /\ Val(s) \in 0 .. Val(p) - 1
            /\ Cong(Val(s) * (W * W), Val(a) * Val(a), Val(p))
        BY <4>1, <4>2, <2>1, <2>2, <2>3, Sqr15
      <4> QED  BY <4>3, <4>4
    <3>2. CASE k = "redc2ul2"
      <4>1. 4 * Val(p) <= W * W
        BY <3>2, <2>1, ModulusIs
      <4>2. r = modredc2ul2_mul(a, b, m) /\ s = modredc2ul2_sqr(a, m)
        BY <1>1, <3>2 DEF mul, sqr
      <4>3. /\ r \in Pair /\ Val(r) \in 0 .. Val(p) - 1
            /\ Cong(Val(r) * (W * W), Val(a) * Val(b), Val(p))
        BY <4>1, <4>2, <2>1, <2>2, <2>3, Mul2ul2
      <4>4. /\ s \in Pair /\ Val(s) \in 0 .. Val(p) - 1
            /\ Cong(Val(s) * (W * W), Val(a) * Val(a), Val(p))
        BY <4>1, <4>2, <2>1, <2>2, <2>3, Sqr2ul2
      <4> QED  BY <4>3, <4>4
    <3> QED  BY <1>4, <3>1, <3>2, KindIs
  <2>5. /\ Stored(k, a) = Val(a) /\ Stored(k, b) = Val(b)
        /\ Stored(k, r) = Val(r) /\ Stored(k, s) = Val(s) /\ Radix(k) = W * W
    BY <1>4, StoredIs, KindIs
  <2>6. Reduced(k, r, n) /\ Reduced(k, s, n)
    BY <1>4, <2>1, <2>4, TwoReduced
  <2> QED  BY <1>1, <2>1, <2>4, <2>5, <2>6
<1> QED  BY <1>2, <1>3, <1>4, KindIs

\* What a result of one of the operations stands for is the reference of RingOk.
LEMMA ReprOf ==
    ASSUME Width, NEW k \in Kinds, NEW n \in ModuliOf(k), NEW x \in Int, NEW y \in Int,
           Cong(x, y, n), NEW r, Stands(k, r, x, n)
    PROVE  r = Repr(k, y, n)
<1>1. Stands(k, r, y, n)
  BY SameStands
<1>2. Stands(k, Repr(k, y, n), y, n)
  BY ReprStands
<1> QED  BY <1>1, <1>2, StandsOne

\* Only reduced residues stand for an integer.
LEMMA StandsReduced ==
    ASSUME NEW k, NEW n, NEW a, NEW x, Stands(k, a, x, n)
    PROVE  Reduced(k, a, n)
  BY DEF Stands, Reduced

\* Modulo an odd n, x has one half.
LEMMA HalfIs ==
    ASSUME NEW n \in Nat, n % 2 = 1, NEW x \in 0 .. n - 1
    PROVE  /\ (CHOOSE h \in 0 .. n - 1 : (2 * h) % n = x) \in Int
           /\ Cong(2 * (CHOOSE h \in 0 .. n - 1 : (2 * h) % n = x), x, n)
<1>1. \E h \in 0 .. n - 1 : (2 * h) % n = x
  <2>1. CASE x % 2 = 0
    <3>1. PICK h \in Int : x = 2 * h
      <4>1. x = 2 * (x \div 2) /\ x \div 2 \in Int
        BY <2>1, SMT
      <4> QED  BY <4>1
    <3>2. h \in 0 .. n - 1 /\ 2 * h \in Int
      BY <3>1, SMT
    <3>3. 2 * h = 0 * n + x /\ 0 \in Int
      BY <3>1, SMT
    <3>4. (2 * h) % n = x
      BY <3>2, <3>3, DivIs
    <3> QED  BY <3>2, <3>4
  <2>2. CASE x % 2 = 1
    <3>1. PICK h \in Int : x + n = 2 * h
      <4>1. x + n = 2 * ((x + n) \div 2) /\ (x + n) \div 2 \in Int
        BY <2>2, SMT
      <4> QED  BY <4>1
    <3>2. h \in 0 .. n - 1 /\ 2 * h \in Int
      BY <3>1, SMT
    <3>3. 2 * h = 1 * n + x /\ 1 \in Int
      BY <3>1, SMT
    <3>4. (2 * h) % n = x
      BY <3>2, <3>3, DivIs
    <3> QED  BY <3>2, <3>4
  <2>3. x % 2 = 0 \/ x % 2 = 1
    BY SMT
  <2> QED  BY <2>1, <2>2, <2>3
<1>2. PICK h \in 0 .. n - 1 : h = (CHOOSE g \in 0 .. n - 1 : (2 * g) % n = x) /\ (2 * h) % n = x
  BY <1>1
<1>3. h \in Int /\ 2 * h \in Int /\ n > 0
  BY SMT
<1>4. Cong(2 * h, (2 * h) % n, n)
  BY <1>3, CongMod
<1>5. Cong(2 * h, x, n)
  BY <1>2, <1>4
<1> QED  BY <1>2, <1>3, <1>5

\* The ring operations of the four modular arithmetics of ularith.h, mod_ul.h,
\* modredc_ul.h, modredc_15ul.h and modredc_2ul2.h are right for every even word
\* size up to 64 bits (Width), every modulus their header accepts and all reduced
\* residues: add, sub, neg, mul, sqr and, for an odd modulus, div2 return the one
\* reduced residue that stands for the sum, difference, opposite, product, square
\* or half of the integers their operands stand for.
THEOREM RingRight ==
    ASSUME Width, NEW k \in Kinds, NEW n \in ModuliOf(k),
           NEW a, IsFormat(k, a), Stored(k, a) \in 0 .. n - 1,
           NEW Bs \in SUBSET Int
    PROVE  RingOk(k, n, a, Bs)
<1>1. PICK m : m = initmod(k, n)
  OBVIOUS
<1>2. PICK x \in 0 .. n - 1 : x = Plain(k, a, n)
  BY PlainStands
<1>3. n \in Nat /\ n \in Int /\ n > 1 /\ x \in Int
  <2>1. n \in Nat /\ n > 1
    BY ModulusIs
  <2> QED  BY <2>1, SMT
<1>4. Stands(k, a, x, n) /\ Reduced(k, a, n)
  BY <1>2, PlainStands DEF Reduced
<1>5. sqr(k, a, m) = Repr(k, x * x, n)
  <2>1. PICK r : r = sqr(k, a, m)
    OBVIOUS
  <2>2. Reduced(k, r, n) /\ Cong(Stored(k, r) * Radix(k), Stored(k, a) * Stored(k, a), n)
    BY <1>1, <1>4, <2>1, ProductValue
  <2>3. Stands(k, r, x * x, n)
    BY <1>3, <1>4, <2>2, ProductStands DEF Reduced
  <2>4. x * x \in Int /\ x * x = x * x + 0 * n /\ 0 \in Int
    BY <1>3, SMT
  <2>5. Cong(x * x, x * x, n)
    BY <2>4 DEF Cong
  <2> QED  BY <2>1, <2>3, <2>4, <2>5, ReprOf
<1>6. neg(k, a, m) = Repr(k, (n - x) % n, n)
  <2>1. PICK r : r = neg(k, a, m)
    OBVIOUS
  <2>2. Reduced(k, r, n) /\ (Stored(k, r) + Stored(k, a) = 0 \/ Stored(k, r) + Stored(k, a) = n)
    BY <1>1, <1>4, <2>1, NegValue
  <2>3. PICK z : z = Repr(k, 0, n)
    OBVIOUS
  <2>4. 0 \in Int
    BY SMT
  <2>5. Stands(k, z, 0, n)
    BY <2>3, <2>4, ReprStands
  <2>6. Cong(Stored(k, r), Stored(k, z) - Stored(k, a), n)
    <3>1. /\ Stored(k, z) \in Int /\ Cong(Stored(k, z), 0 * Radix(k), n) /\ Radix(k) \in Int
          /\ Stored(k, a) \in Int
      BY <1>3, <1>4, <2>4, <2>5, StandsInt
    <3>2. Stored(k, r) \in Int
      BY <1>3, <2>2, SMT DEF Reduced
    <3>3. PICK A, S, Z, R \in Int : A = Stored(k, a) /\ S = Stored(k, r) /\ Z = Stored(k, z)
                                  /\ R = Radix(k)
      BY <3>1, <3>2
    <3>4. PICK c \in Int : Z = c * n
      <4>1. PICK c \in Int : Z = 0 * R + c * n
        BY <3>1, <3>3 DEF Cong
      <4>2. 0 * R + c * n = c * n
        BY <1>3, SMT
      <4> QED  BY <4>1, <4>2
    <3>5. PICK t \in Int : t = c * n
      BY <1>3, SMT
    <3>6. (0 - c) * n = 0 - t /\ (1 - c) * n = n - t /\ 0 - c \in Int /\ 1 - c \in Int
      <4>1. (0 - c) * n = 0 - c * n /\ (1 - c) * n = n - c * n /\ 0 - c \in Int /\ 1 - c \in Int
        BY <1>3, SMT
      <4> QED  BY <4>1, <3>5
    <3>7. S + A = 0 \/ S + A = n
      BY <2>2, <3>3
    <3>8. S = (t - A) + (0 - t) \/ S = (t - A) + (n - t)
      BY <3>7, <1>3, SMT
    <3>9. Z - A = t - A
      BY <3>4, <3>5
    <3>10. S = (Z - A) + (0 - c) * n \/ S = (Z - A) + (1 - c) * n
      BY <3>6, <3>8, <3>9
    <3>11. Cong(S, Z - A, n)
      BY <3>6, <3>10 DEF Cong
    <3> QED  BY <3>3, <3>11
  <2>7. Stands(k, r, 0 - x, n)
    BY <1>3, <1>4, <2>2, <2>4, <2>5, <2>6, SumStands DEF Reduced
  <2>8. 0 - x \in Int /\ n - x \in Int /\ n - x = (0 - x) + n /\ n > 0
    BY <1>3, SMT
  <2>9. Cong(n - x, 0 - x, n)
    BY <1>3, <2>8, Shifted
  <2>10. Cong((n - x) % n, n - x, n) /\ (n - x) % n \in 0 .. n - 1
    BY <1>3, <2>8, CongMod
  <2>11. (n - x) % n \in Int
    BY <1>3, <2>10, SMT
  <2>12. Cong((n - x) % n, 0 - x, n)
    BY <1>3, <2>8, <2>9, <2>10, <2>11, CongTrans
  <2>13. Cong(0 - x, (n - x) % n, n)
    BY <1>3, <2>8, <2>11, <2>12, CongSym
  <2> QED  BY <2>1, <2>7, <2>8, <2>11, <2>13, ReprOf
<1>7. ASSUME n % 2 = 1
      PROVE  div2(k, a, m) = Repr(k, CHOOSE h \in 0 .. n - 1 : (2 * h) % n = x, n)
  <2>1. PICK r : r = div2(k, a, m)
    OBVIOUS
  <2>2. PICK h \in Int : h = (CHOOSE g \in 0 .. n - 1 : (2 * g) % n = x) /\ Cong(2 * h, x, n)
    BY <1>3, <1>7, HalfIs
  <2>3. Reduced(k, r, n) /\ (2 * Stored(k, r) = Stored(k, a) \/ 2 * Stored(k, r) = Stored(k, a) + n)
    BY <1>1, <1>4, <1>7, <2>1, HalfValue
  <2>4. Stands(k, r, h, n)
    BY <1>3, <1>4, <1>7, <2>2, <2>3, HalfStands DEF Reduced
  <2>5. h = h + 0 * n /\ 0 \in Int
    BY <1>3, SMT
  <2>6. Cong(h, h, n)
    BY <2>5 DEF Cong
  <2>7. r = Repr(k, h, n)
    BY <2>4, <2>6, ReprOf
  <2> QED  BY <2>1, <2>2, <2>7
<1>8. ASSUME NEW y \in Bs, NEW b, b = Repr(k, y, n)
      PROVE  /\ add(k, a, b, m) = Repr(k, x + y, n)
             /\ sub(k, a, b, m) = Repr(k, x - y + n, n)
             /\ mul(k, a, b, m) = Repr(k, (x * y) % n, n)
  <2>1. y \in Int /\ Stands(k, b, y, n) /\ Reduced(k, b, n)
    <3>1. y \in Int
      OBVIOUS
    <3>2. Stands(k, b, y, n)
      BY <1>8, <3>1, ReprStands
    <3> QED  BY <3>1, <3>2, StandsReduced
  <2>2. PICK s, d, p : s = add(k, a, b, m) /\ d = sub(k, a, b, m) /\ p = mul(k, a, b, m)
    OBVIOUS
  <2>3. /\ Reduced(k, s, n) /\ Reduced(k, d, n)
        /\ Stored(k, s) = Stored(k, a) + Stored(k, b) \/ Stored(k, s) = (Stored(k, a) + Stored(k, b)) - n
        /\ Stored(k, d) = Stored(k, a) - Stored(k, b) \/ Stored(k, d) = (Stored(k, a) - Stored(k, b)) + n
    BY <1>1, <1>4, <2>1, <2>2, SumValue
  <2>4. Reduced(k, p, n) /\ Cong(Stored(k, p) * Radix(k), Stored(k, a) * Stored(k, b), n)
    BY <1>1, <1>4, <2>1, <2>2, ProductValue
  <2>5. /\ Cong(Stored(k, s), Stored(k, a) + Stored(k, b), n)
        /\ Cong(Stored(k, d), Stored(k, a) - Stored(k, b), n)
    <3>1. /\ Stored(k, a) \in Int /\ Stored(k, b) \in Int
      BY <1>3, <1>4, <2>1, StandsInt
    <3>2. Stored(k, s) \in Int /\ Stored(k, d) \in Int
      BY <1>3, <2>3, SMT DEF Reduced
    <3>3. Stored(k, a) + Stored(k, b) \in Int /\ Stored(k, a) - Stored(k, b) \in Int
      BY <3>1, SMT
    <3> QED  BY <1>3, <2>3, <3>2, <3>3, Shifted
  <2>6. Stands(k, s, x + y, n) /\ Stands(k, d, x - y, n)
    BY <1>3, <1>4, <2>1, <2>3, <2>5, SumStands DEF Reduced
  <2>7. Stands(k, p, x * y, n)
    BY <1>3, <1>4, <2>1, <2>4, ProductStands DEF Reduced
  <2>8. /\ x + y \in Int /\ x - y \in Int /\ x * y \in Int /\ x - y + n \in Int
        /\ x + y = x + y + 0 * n /\ 0 \in Int /\ x - y + n = (x - y) + n /\ n > 0
    BY <1>3, <2>1, SMT
  <2>9. Cong(x + y, x + y, n)
    BY <2>8 DEF Cong
  <2>10. Cong(x - y + n, x - y, n)
    BY <1>3, <2>8, Shifted
  <2>11. Cong(x - y, x - y + n, n)
    BY <1>3, <2>8, <2>10, CongSym
  <2>12. Cong(x * y, (x * y) % n, n) /\ (x * y) % n \in 0 .. n - 1
    BY <1>3, <2>8, CongMod
  <2>13. (x * y) % n \in Int
    BY <1>3, <2>12, SMT
  <2>14. s = Repr(k, x + y, n)
    BY <2>6, <2>8, <2>9, ReprOf
  <2>15. d = Repr(k, x - y + n, n)
    BY <2>6, <2>8, <2>11, ReprOf
  <2>16. p = Repr(k, (x * y) % n, n)
    BY <2>7, <2>8, <2>12, <2>13, ReprOf
  <2> QED  BY <2>2, <2>14, <2>15, <2>16
<1> QED  BY <1>1, <1>2, <1>5, <1>6, <1>7, <1>8 DEF RingOk

==============================================================================
