---- MODULE MCAlgorithms ----
(* The algorithms of the programs that compute a result from their input      *)
(* without meeting anybody: the 64-bit matrix kernels and the characters, the *)
(* polynomials, the cofactorization.  A behavior picks a topic, prepares what  *)
(* the program prepares once, and then picks one input of the topic.          *)
EXTENDS Ranges, Chain, FiniteSetsExt, TLC

Chars == INSTANCE Characters WITH B <- 4, NIB <- 2
Two == INSTANCE BitMatrices WITH B <- 2, NIB <- 1
Pols == INSTANCE Poly WITH LIMB <- 4, Junk <- -99, COEFF_MAX <- 400,
                           ROOTS_MOD_THRESHOLD <- 3, ROOTS_MOD_THRESHOLD2 <- 5
Cof == INSTANCE Ecm WITH LONG_BIT <- 8
Mat == INSTANCE MatmulKernels WITH STRIP <- 4, I_MAX <- 4, DJ_MAX <- 2, NB <- 2, RB <- 2, BYTE <- 3,
                                   HUGE_MIN <- 2, HUGE_MAX <- 2, ROW_BATCH <- 2, MERGE_ROWS <- 2

VARIABLES topic, phase, setting, x
vars == <<topic, phase, setting, x>>

Given(t) == topic = t /\ phase = "given"

Init ==
    /\ topic \in {"product", "gauss", "pluq", "polymat", "blocks", "characters",
                  "integers", "quotient", "barrett", "lift", "roots", "real", "primes",
                  "ranges", "kernels", "copies", "plan", "chain", "progressions", "commonz", "pm1", "order", "facul"}
    /\ phase = "start" /\ setting = <<>> /\ x = <<>>

(* The plans and the strategy are made once, before the first number. *)
Prepare ==
    /\ phase = "start" /\ phase' = "ready"
    /\ setting' = CASE topic = "facul" ->
                         Cof!facul_make_strategy(2, 10, 250, <<<<7, 60>>, <<7, 60>>, <<5, 40>>, <<7, 60>>>>)
                    [] topic = "pm1" -> Cof!pm1_make_plan(7, 60)
                    [] OTHER -> <<topic>>
    /\ UNCHANGED <<topic, x>>

Ready(t) == topic = t /\ phase = "ready" /\ phase' = "given"
Keep == UNCHANGED <<topic, setting>>

Rows2 == [0 .. 1 -> SUBSET (0 .. 1)]
GaussRows == {{}, {0}, {1, 3}, {0, 2, 3}}

PickProduct == Ready("product") /\ Keep /\ x' \in (SUBSET (0 .. 3)) \X {{}, {0}, {1, 2}, {0, 1, 3}}
PickGauss ==
    /\ Ready("gauss") /\ Keep
    /\ \E a, b \in SUBSET (0 .. 3), c, d \in GaussRows :
           x' = [i \in 0 .. 3 |-> CASE i = 0 -> a [] i = 1 -> c [] i = 2 -> b [] i = 3 -> d]
PickPluq ==
    /\ Ready("pluq") /\ Keep
    /\ \E a, b \in Rows2, c \in {r \in Rows2 : 0 \in r[0]} :
           x' = <<a, b, c, [i \in 0 .. 1 |-> IF a[1] = b[0] THEN {1} ELSE {i}]>>
PickPolymat == Ready("polymat") /\ Keep /\ x' \in Rows2 \X Rows2
PickBlocks == Ready("blocks") /\ Keep /\ x' \in [0 .. 5 -> {{}, {0, 3}, {1}}] \X {{}, {1, 2}}
PickCharacters ==
    /\ Ready("characters") /\ Keep
    /\ \E w1, w2, w3 \in {{0}, {1, 3}, {0, 1, 2}, {}}, junk \in {{}, 0 .. 3},
          g0 \in {5, -5}, nh \in {0, 6}, nc \in {3, 6} :
           x' = [nchars |-> nc, roots |-> <<<<7, 3>>, <<7, 5>>, <<11, 2>>>>,
                 rels |-> <<<<-3, 2>>, <<5, 1>>, <<7, 0>>, <<-1, 4>>, <<2, 3>>, <<4, 1>>>>,
                 pol |-> [g0 |-> g0, g1 |-> 3], batch |-> 3, nt |-> 2, junk |-> junk,
                 index |-> <<<<0, 1>>, <<2>>, <<3, 4, 5>>, <<0, 3, 3>>, <<1, 4>>>>,
                 heavy |-> IF nh = 0 THEN <<<<>>, <<>>, <<>>, <<>>, <<>>>>
                                     ELSE <<<<0>>, <<5, 1>>, <<>>, <<5>>, <<0, 2>>>>,
                 nheavy |-> nh, ncols |-> 4,
                 file |-> 0 :> w1 @@ 1 :> w2 @@ 2 :> {0, 3} @@ 3 :> w3 @@ 4 :> {2}, max_rows |-> 8]

PickIntegers == Ready("integers") /\ Keep /\ x' \in [0 .. 2 -> -1 .. 2] \X [0 .. 1 -> -2 .. 1]
PickQuotient ==
    /\ Ready("quotient") /\ Keep
    /\ \E v \in [0 .. 1 -> -1 .. 2], w \in [0 .. 1 -> 0 .. 3] :
           x' \in {<<v, w, <<-3, 1, 2>>, 25, 5>>, <<v, w, <<3, 2, 1>>, 35, 6>>}
PickBarrett == Ready("barrett") /\ Keep /\ x' \in [0 .. 3 -> 0 .. 3]
PickLift == Ready("lift") /\ Keep /\ x' \in [0 .. 3 -> 0 .. 3]
PickRoots == Ready("roots") /\ Keep /\ x' \in [0 .. 3 -> -1 .. 3] \X {<<7, 2>>, <<11, 5>>, <<3, 1>>}
PickReal == Ready("real") /\ Keep /\ x' \in [0 .. 3 -> -2 .. 3] \cup [0 .. 2 -> -2 .. 3]
PickPrimes == Ready("primes") /\ Keep /\ x' \in {50, 400}

Spans == {r \in {0, 1, 4, 10, 11, 14} \X {0, 1, 4, 10, 11, 14} : Lo(r) < Hi(r)}
PickRanges ==
    /\ Ready("ranges") /\ Keep
    /\ \E min \in {1, 3}, max \in {0, 12}, len \in {2, 11} :
          x' \in {[min |-> min, max |-> max, len |-> len, given |-> g] : g \in UNION {kSubset(k, Spans) : k \in 0 .. 3}}

(* Matrices that get sparser towards the bottom, but for c = 0: then a block of   *)
(* a large slice can end anywhere without meeting padding.                     *)
KernelColumns(S) == SelectSeq([k \in 1 .. 10 |-> (7 * k) % 10], LAMBDA j : j \in S)
KernelMatrix(a, b, c) ==
    [i \in 0 .. 13 |-> KernelColumns(
        IF i < 3 THEN (0 .. 9) \ {(a * i) % 10}
        ELSE IF i < 7 \/ c = 0 THEN {j \in 0 .. 9 : ((j * b) + i) % 3 < 2}
        ELSE {((c * i) + 1) % 10} \cup (IF i % 3 = 0 THEN {9} ELSE {}))]
KernelMethods == {{"small1", "small2", "large", "vsc"}, {"small1", "large", "huge"}, {"small1", "small2", "vsc"},
                  {"large", "vsc"}, {"huge"}}
PickKernels ==
    /\ Ready("kernels") /\ Keep
    /\ \E b \in 1 .. 2, c \in 0 .. 2, direction \in {0, 1}, methods \in KernelMethods, npack \in {2, 3} :
          x' = [A |-> KernelMatrix(1, b, c),
                fresh |-> Mat!Fresh(14, 10, direction, [npack |-> npack, methods |-> methods, scratch2size |-> 24 + npack,
                                                        scratch1size |-> IF c = 0 THEN 14 ELSE 50])]
PickCopies ==
    /\ Ready("copies") /\ Keep
    /\ x' \in [1 .. 4 -> [op : {"save"}, room : BOOLEAN, killed : {"", "normal", "local"}] \cup
                        [op : {"reload"}, room : {TRUE}, killed : {""}]]

PickPlan == Ready("plan") /\ Keep /\ x' \in {<<315, 2205>>, <<525, 3255>>, <<105, 3255>>, <<315, 5355>>}
PickChain == Ready("chain") /\ Keep /\ x' \in {5, 12, 30, 105} \X {6, 10}
PickProgressions == Ready("progressions") /\ Keep /\ x' \in {2, 3, 5} \X (2 .. 6)
PickCommonz == Ready("commonz") /\ Keep /\ x' \in [1 .. 4 -> 1 .. 4]
PickPm1 ==
    /\ Ready("pm1") /\ Keep
    /\ \E p \in {n \in 11 .. 180 : Cof!PrimeNumber(n)}, q \in {227, 167} : p # q /\ x' = <<p, q>>
PickOrder ==
    /\ Ready("order") /\ Keep
    /\ x' \in {"BRENT12", "MONTY12"} \X (2 .. 7) \X {n \in 15 .. 90 : Cof!PrimeNumber(n)}
PickFacul ==
    /\ Ready("facul") /\ Keep
    /\ x' \in {n \in 121 .. 16000 : n % 7 = 3 /\ \A d \in 2 .. 10 : n % d # 0}

Next ==
    \/ Prepare
    \/ PickProduct \/ PickGauss \/ PickPluq \/ PickPolymat \/ PickBlocks \/ PickCharacters
    \/ PickIntegers \/ PickQuotient \/ PickBarrett \/ PickLift \/ PickRoots \/ PickReal \/ PickPrimes
    \/ PickRanges \/ PickKernels \/ PickCopies
    \/ PickPlan \/ PickChain \/ PickProgressions \/ PickCommonz \/ PickPm1 \/ PickOrder \/ PickFacul

Spec == Init /\ [][Next]_vars

(* Every kernel gives the product, the transpose, the elimination it is named  *)
(* for, however it cuts its operands into words, nibbles and blocks; the files *)
(* of a block vector come back from their flat form; and the dependencies that *)
(* characters.c keeps are dependencies of the matrix with a square value of    *)
(* every character, and all of those the input held (matops.c, blockmatrix.c,  *)
(* characters.c).                                                              *)
LinearAlgebraRight ==
    /\ Given("product") =>
           \E A \in {[i \in 0 .. 3 |-> CASE i = 0 -> x[1] [] i = 3 -> x[2] [] OTHER -> {i, 0}]},
              M \in {[i \in 0 .. 3 |-> CASE i = 1 -> x[1] [] i = 2 -> x[2] [] OTHER -> {0, 1, i}]} :
               Chars!ProductsOk(A, M, M) /\ Chars!TransposedProductsOk(A, M, Chars!transp_6464(A))
    /\ Given("gauss") =>
           Chars!KernelOk(x, 4) /\ Chars!BasisOk(x, 4) /\ Chars!EchelonOk(x) /\ Chars!LupOk(x) /\ Chars!Pluq64Ok(x)
    /\ Given("pluq") =>
           \A sse \in BOOLEAN : Two!Pluq128Ok([i \in 0 .. 3 |-> x[i + 1]], [i \in 0 .. 1 |-> x[4]], sse)
    /\ Given("polymat") =>
           Two!PolynomialsOk([i \in 0 .. 3 |-> x[1 + (i % 2)]], [i \in 0 .. 3 |-> x[1 + (i \div 2)]], 4)
    /\ Given("blocks") => Chars!BlocksOk(x[1], 4, 1, 3, x[2])
    /\ Given("characters") => Chars!DependenciesOk(x)

(* The kernels of the sparse product multiply by the matrix they were built from,  *)
(* in both directions and whatever slices it was cut into, a cache file brings   *)
(* the kernel back, and a local copy of it is taken only for the file it copies   *)
(* (matmul-basic.c, matmul-sliced.cpp, matmul-bucket.cpp, matmul.c).             *)
SparseProductsRight ==
    /\ Given("kernels") => /\ Mat!BasicOk(x.A, 14, 10, x.fresh)
                           /\ Mat!SlicedOk(x.A, 14, 10, x.fresh)
                           /\ Mat!BucketOk(x.A, 14, 10, x.fresh)
    /\ Given("copies") => Mat!CopiesOk(x)

(* The polynomial routines agree with the polynomials they compute on: over    *)
(* the integers, modulo m, modulo F and m, lifted p-adically; the roots modulo *)
(* a prime and the isolated real roots are the roots, each once; the sieve of   *)
(* getprime gives the primes in order across the enlargements of its table      *)
(* (poly.c, plain_poly.c, modul_poly.c, rootfinder.c, usp.c, getprime.c).       *)
PolynomialsRight ==
    /\ Given("integers") =>
           Pols!IntegerPolynomialsOk(x[1], x[2], 7) /\ Pols!IntegerPolynomialsOk(x[2], x[1], 6)
    /\ Given("quotient") => Pols!QuotientOk(x[1], x[2], [i \in 0 .. 2 |-> x[3][i + 1]], x[4], x[5])
    /\ Given("barrett") => Pols!BarrettOk((x[0] * 400) + (x[1] * 43) + (x[2] * 11) + x[3], 37 + x[1])
    /\ Given("lift") => Pols!LiftOk(x, 2) /\ Pols!LiftOk([i \in 0 .. 3 |-> (7 * x[i]) + i], 3)
    /\ Given("roots") => Pols!RootsOk(x[1], x[2][1], x[2][2])
    /\ Given("real") => Pols!RealRootsOk(x)
    /\ Given("primes") => Pols!PrimesOk(x)

(* The stage 2 plans pair every prime of their range; the addition chains      *)
(* behind the byte code multiply by the primes of stage 1; progressions and    *)
(* common denominators give the multiples stage 2 reads; P-1 finds every prime  *)
(* its bounds promise; the group order a curve is announced with is its order;  *)
(* and the factors facul returns multiply up to what it was given, with a full   *)
(* factorization whenever it does not give the number up (stage2.c, prac_bc.c,  *)
(* pm1.c, pp1.c, ecm.c, facul.c, facul_doit.c).                                 *)
CofactoringRight ==
    /\ Given("plan") => Cof!PlanOk(Cof!stage2_make_plan(x[1], x[2]), x[1], x[2])
    /\ Given("chain") => Cof!ChainOk(Cof!OddPrimes(x[1]), x[2], 16381)
    /\ Given("progressions") => Cof!ProgressionsOk(x[1], x[2], 16381)
    /\ Given("commonz") => Cof!CommonZOk([i \in 1 .. 4 |-> i + 6], x, 16381)
    /\ Given("pm1") => Cof!PM1Finds(x[1], x[2], setting)
    /\ Given("order") => Cof!OrderOk(x[1], x[2], x[3])
    /\ Given("facul") => Cof!FaculOk(x, 10, 250, setting)

(* Holes are handed out as distribute_task does, until there is none or, without *)
(* a max, three of them.                                                       *)
Allot(t) ==
    IF t.over \/ (t.max = 0 /\ Cardinality(t.holes) = 3) THEN t
    ELSE Then(FindHole(t.min, t.max, t.len, t.ranges), LAMBDA h :
              IF h = <<>> THEN [t EXCEPT !.over = TRUE]
              ELSE [t EXCEPT !.holes = @ \cup {h}, !.ranges = WithHole(t.min, @, h), !.last = h, !.before = t.holes])

Above(min, S) == {n \in S : n >= min}

(* Whatever ranges there are at the start, merge_ranges loses and invents nothing *)
(* above min and leaves gaps; every hole is proper, in [min, max[, free of the    *)
(* ranges of the start and the holes before it, with nothing skipped on its left; *)
(* and find_hole returns () only when there is a max and all below is covered.    *)
RangesRight ==
    Given("ranges") =>
        \A n \in 0 .. 7 :
            Then(For(1, n, [holes |-> {}, before |-> {}, last |-> <<>>, over |-> FALSE, ranges |-> MergeRanges(x.given)] @@ x,
                     LAMBDA k, t : Allot(t)), LAMBDA t :
                 /\ Separated(t.ranges)
                 /\ Above(x.min, Covered(ToSet(t.ranges))) = Above(x.min, Covered(x.given \cup t.holes))
                 /\ t.last /= <<>> => /\ Points(t.last) /= {}
                                      /\ Points(t.last) \cap Covered(x.given \cup t.before) = {}
                                      /\ x.min <= Lo(t.last) /\ (x.max /= 0 => Hi(t.last) <= x.max)
                                      /\ x.min .. (Hi(t.last) - 1) \subseteq Covered(x.given \cup t.holes)
                 /\ t.over => x.max /= 0 /\ x.min .. (x.max - 1) \subseteq Covered(x.given \cup t.holes))
====
