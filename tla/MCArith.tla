---- MODULE MCArith ----
(* Runs of the modular arithmetics with words of 4, 8 and 12 bits, the         *)
(* instances N4, N8 and N12.  A behaviour takes one modulus of one arithmetic  *)
(* and walks through all its residues by adding 1 with the code's own          *)
(* addition (the "wide" ones, with 8-bit words, take every WideStep-th);       *)
(* the "int" behaviours walk through the two-word integers as second operand,  *)
(* the "prime" ones through the moduli themselves.                             *)
EXTENDS Integers

CONSTANTS WideModuli,   \* moduli of the 15ul arithmetic with 8-bit words
          WideModuli2,  \* moduli of the 2ul2 arithmetic with 8-bit words
          WideStep,     \* distance between the residues taken for them
          Firsts,       \* values of the words of the first integer
          Exponents,    \* low word of the exponents, the second word being 1
          PrimeModuli2  \* moduli of the 2ul2 arithmetic at which the primality walks start

N4 == INSTANCE Arith WITH LONG_BIT <- 4
N8 == INSTANCE Arith WITH LONG_BIT <- 8
N12 == INSTANCE Arith WITH LONG_BIT <- 12

VARIABLES walk,  \* what is enumerated: "residues", "wide", "int" or "prime"
          kind,  \* the arithmetic
          n,     \* the modulus; the first integer for "int"
          a      \* the residue; the second integer for "int"

vars == <<walk, kind, n, a>>

Init ==
    \/ /\ walk = "residues" /\ kind \in N4!Kinds /\ n \in N4!ModuliOf(kind)
       /\ a = N4!Repr(kind, 0, n)
    \/ /\ walk = "wide" /\ a = <<0, 0>>
       /\ \/ kind = "redc15ul" /\ n \in WideModuli
          \/ kind = "redc2ul2" /\ n \in WideModuli2
    \/ walk = "int" /\ kind = "redc15ul" /\ n \in Firsts \X Firsts /\ a = <<0, 0>>
    \/ /\ walk = "prime" /\ a = 0
       /\ \/ kind = "ul" /\ n \in {1 + 256 * i : i \in 0 .. 15}
          \/ kind = "redcul" /\ n \in {3 + 256 * i : i \in 0 .. 15}
          \/ kind = "redc15ul" /\ n \in {257 + 256 * i : i \in 0 .. 14}
          \/ kind = "redc2ul2" /\ n \in PrimeModuli2

\* a + 1 in the arithmetic itself, until it is back at 0.
NextResidue ==
    /\ walk = "residues"
    /\ LET m == N4!initmod(kind, n) IN a' = N4!add(kind, a, N4!set1(kind, m), m)
    /\ a' # N4!Repr(kind, 0, n)
    /\ UNCHANGED <<walk, kind, n>>

\* a + WideStep, until the sum would reach the modulus.
NextWideResidue ==
    /\ walk = "wide"
    /\ LET m == N8!initmod(kind, n)
       IN  /\ a' = N8!add(kind, a, N8!set_ul(kind, WideStep, m), m)
           /\ N8!get(kind, a, m) + WideStep < n
    /\ UNCHANGED <<walk, kind, n>>

NextInteger ==
    /\ walk = "int"
    /\ a' = N4!modredc15ul_intadd(a, <<1, 0>>)
    /\ a' # <<0, 0>>
    /\ UNCHANGED <<walk, kind, n>>

NextModulus ==
    /\ walk = "prime"
    /\ n' = IF kind = "ul" THEN n + 1 ELSE n + 2
    /\ CASE kind \in {"ul", "redc15ul"} -> n' % 256 # 1
         [] kind = "redcul" -> n' % 256 # 3 /\ n' < N12!W
         [] kind = "redc2ul2" -> n' < 2^14 /\ n' \notin PrimeModuli2
    /\ UNCHANGED <<walk, kind, a>>

Next == NextResidue \/ NextWideResidue \/ NextInteger \/ NextModulus

Spec == Init /\ [][Next]_vars

\* The widths are among those Arith is meant for, and residues stay reduced and in
\* the format of their arithmetic all along a walk.
TypeOK ==
    /\ N4!Width /\ N8!Width /\ N12!Width
    /\ N4!PowersOfTwo /\ N8!PowersOfTwo /\ N12!PowersOfTwo
    /\ CASE walk = "residues" -> N4!Stored(kind, a) \in 0 .. n - 1
         [] walk = "wide" -> a \in N8!Pair /\ N8!Val(a) < n
         [] walk = "int" -> n \in N4!Pair /\ a \in N4!Pair
         [] walk = "prime" -> n \in 1 .. N12!W * N12!W - 1

\* For every modulus and every two residues, addition, subtraction, negation,
\* halving, multiplication and squaring return the reduced representation of the
\* result: no carry is lost between words, no result is left unreduced.
RingHomomorphism ==
    /\ walk = "residues" => N4!RingOk(kind, n, a, 0 .. n - 1)
    /\ walk = "wide" => N8!RingOk(kind, n, a, {0, 1, n \div 2, n - 1})

\* Entering and leaving Montgomery form, from any word (also one above the
\* modulus) and any two-word integer, keeps the value modulo the modulus.
Conversions == walk = "residues" => N4!ConversionsOk(kind, n, a)

\* The REDC variants of the sieve, which may return the modulus instead of 0,
\* are right for every word as second operand, and stay within their bound.
SemiReduced == walk = "residues" /\ kind = "redcul" => N4!SemiOk(n, a)

\* mod_inv finds an inverse exactly for the residues prime to the modulus, and
\* the assertions of the code on the number t of halvings hold.
Inverses == walk = "residues" => N4!InverseOk(kind, n, a)

\* mod_gcd and mod_jacobi return the greatest common divisor and the Jacobi
\* symbol; the signed two-word gcd never overflows on the way.
GcdAndJacobi == walk = "residues" => N4!GcdJacobiOk(kind, n, a)

\* Powers and Chebyshev values by binary chains, with exponents of one and of
\* several words, agree with repeated multiplication.
Powers == walk = "residues" => N4!PowersOk(kind, n, a, Exponents)

\* mod_div3 .. mod_div13 return 0 exactly when the divisor divides the modulus,
\* and otherwise the reduced quotient, although the dividend may wrap.
SmallDivisions ==
    /\ walk = "residues" /\ kind \notin N4!TwoWords => N4!DivisionOk(kind, n, a, {3, 5, 7, 11, 13})
    /\ walk = "residues" /\ kind \in N4!TwoWords => N4!DivisionOk(kind, n, a, {3})
    /\ walk = "wide" => N8!DivisionOk(kind, n, a, {3, 5, 7, 11, 13})

\* The one-word strong pseudoprime tests accept exactly the strong pseudoprimes,
\* one squaring saved in base 2; mod_isprime is a primality test.
PrimeTests ==
    /\ walk = "residues" /\ kind \notin N4!TwoWords => N4!SprpOk(kind, n, a)
    /\ walk = "prime" =>
         CASE kind = "ul" -> N12!UL!mod_isprime(n) = N4!PrimeRef(n)
           [] kind = "redcul" -> N12!RedcUL!mod_isprime(N12!initmod(kind, n)) = N4!PrimeRef(n)
           [] kind = "redc15ul" -> N8!Redc15UL!mod_isprime(N8!initmod(kind, n)) = N4!PrimeRef(n)
           [] kind = "redc2ul2" -> N8!Redc2UL2!mod_isprime(N8!initmod(kind, n)) = N4!PrimeRef(n)

\* Two-word integers: bit count, shifts, sums, exact division and remainder,
\* whose estimated quotient may be one too large, agree with the integers.
TwoWordIntegers == walk = "int" => N4!IntegersOk(n, a)

\* The ring operations of the four arithmetics, with carries between the words.
RingOperations ==
    /\ TypeOK /\ RingHomomorphism /\ Conversions /\ SemiReduced
    /\ SmallDivisions /\ TwoWordIntegers

\* The loops on top of them: inverse, gcd, Jacobi symbol, powers, primality.
NumberTheory == Inverses /\ GcdAndJacobi /\ Powers /\ PrimeTests

====
