---- MODULE Chain ----
(* Sequential composition of operators on a state: statements one after the    *)
(* other, counted loops and while loops; and the elementary number theory the  *)
(* algorithms lean on.                                                         *)
EXTENDS Integers

\* One operation after the other: the value x is handed on to op.
Then(x, op(_)) == CHOOSE r \in {op(y) : y \in {x}} : TRUE

\* Long loops go by halves or in rounds, so that the evaluation stays shallow.

\* for (i = lo; i <= hi; i++) x = op(i, x)
For(lo, hi, x, op(_, _)) ==
    LET RECURSIVE run(_, _, _)
        run(a, b, y) == IF a > b THEN y
                        ELSE IF b - a < 16 THEN Then(op(a, y), LAMBDA z : run(a + 1, b, z))
                        ELSE Then(run(a, (a + b) \div 2, y), LAMBDA z : run(((a + b) \div 2) + 1, b, z))
    IN  run(lo, hi, x)

\* for (i = hi; i >= lo; i--) x = op(i, x)
Down(hi, lo, x, op(_, _)) ==
    LET RECURSIVE run(_, _, _)
        run(a, b, y) == IF a < b THEN y
                        ELSE IF a - b < 16 THEN Then(op(a, y), LAMBDA z : run(a - 1, b, z))
                        ELSE Then(run(a, ((a + b) \div 2) + 1, y), LAMBDA z : run((a + b) \div 2, b, z))
    IN  run(hi, lo, x)

\* while (test(x)) x = op(x)
While(x, test(_), op(_)) ==
    LET RECURSIVE run(_, _)
        run(n, y) == IF test(y) THEN IF n = 0 THEN op(y) ELSE Then(op(y), LAMBDA z : run(n - 1, z)) ELSE y
        RECURSIVE rounds(_)
        rounds(y) == IF test(y) THEN Then(run(32, y), LAMBDA z : rounds(z)) ELSE y
    IN  rounds(x)

Divisor(a, b) == While(<<a, b>>, LAMBDA s : s[2] /= 0, LAMBDA s : <<s[2], s[1] % s[2]>>)[1]

\* The inverse of a modulo m, by Euclid's algorithm; a and m are coprime.
Reciprocal(a, m) ==
    While(<<m, a % m, 0, 1>>, LAMBDA s : s[2] /= 0,
          LAMBDA s : <<s[2], s[1] % s[2], s[4], s[3] - (s[1] \div s[2]) * s[4]>>)[3] % m

\* b^e modulo m, for m below 2^15.5
PowerMod(b, e, m) ==
    While(<<b % m, e, 1 % m>>, LAMBDA s : s[2] > 0,
          LAMBDA s : <<(s[1] * s[1]) % m, s[2] \div 2, IF s[2] % 2 = 1 THEN (s[3] * s[1]) % m ELSE s[3]>>)[3]

PrimeNumber(n) == n >= 2 /\ Then(While(2, LAMBDA q : q * q <= n /\ n % q /= 0, LAMBDA q : q + 1), LAMBDA q : q * q > n)
====
