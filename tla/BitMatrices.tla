---- MODULE BitMatrices ----
(* The bit matrices of the linear algebra: the products, transpositions and    *)
(* eliminations of 64 x 64 blocks in linalg/bwc/matops.c and                   *)
(* linalg/bit_matrices.c, and the elimination of linalg/gauss.c.  A word is    *)
(* the set of its one bits, a matrix a function from rows to words; the width  *)
(* 64 is the constant B, and 4 and 8, the bits looked up at once, divide it.   *)
EXTENDS Chain, FiniteSets, Sequences, TLC

CONSTANTS B,    \* bits of a word
          NIB   \* bits of a small lookup (4 in the code); a large one has 2 * NIB

Bits == 0 .. B - 1
Word == SUBSET Bits
Mat == [Bits -> Word]

Xor(a, b) == (a \ b) \cup (b \ a)
Shr(a, s) == {i - s : i \in {j \in a : j >= s}}
Shl(a, s) == {i + s : i \in a} \cap Bits
\* w & -(bit): the word or 0.
Masked(bit, w) == IF bit THEN w ELSE {}
Lowest(a) == CHOOSE i \in a : \A j \in a : i <= j
Rows(m) == DOMAIN m
Zero(n) == [i \in 0 .. n - 1 |-> {}]
mat64_set_identity == [i \in Bits |-> {i}]

(* Products and transposes as sums over the index, against which the loops     *)
(* below are checked.                                                          *)
ProductRef(A, M) == [i \in DOMAIN A |-> {j \in Bits : Cardinality({k \in A[i] : j \in M[k]}) % 2 = 1}]
TransposeRef(A) == [j \in Bits |-> {i \in DOMAIN A : j \in A[i]}]

(* Reversal of the bits by halving swaps; nibrev stops above the nibbles. *)
Swapped(a, s) ==
    LET m == {i \in Bits : (i \div s) % 2 = 0}
    IN  Xor(Shr(a, s) \cap m, Shl(a, s) \ m)

bitrev(a) ==
    While([a |-> a, s |-> B \div 2], LAMBDA x : x.s >= 1,
          LAMBDA x : [a |-> Swapped(x.a, x.s), s |-> x.s \div 2]).a

nibrev(a) ==
    While([a |-> a, s |-> B \div 2], LAMBDA x : x.s >= NIB,
          LAMBDA x : [a |-> Swapped(x.a, x.s), s |-> x.s \div 2]).a

(* Level 1: blocks and single words.  Two rows advance together. *)
PairedRow(x, M) ==
    For(0, B - 1, [a |-> x, c |-> <<{}, {}>>],
        LAMBDA i, s : [a |-> <<Shr(s.a[1], 1), Shr(s.a[2], 1)>>,
                       c |-> <<Xor(s.c[1], Masked(0 \in s.a[1], M[i])),
                               Xor(s.c[2], Masked(0 \in s.a[2], M[i]))>>]).c

mul_6464_6464_sse(A, M) ==
    [j \in Bits |-> PairedRow(<<A[j - (j % 2)], A[j - (j % 2) + 1]>>, M)[1 + (j % 2)]]

mul_6464_6464_v2(A, M) ==
    [i \in Bits |-> For(0, B - 1, {}, LAMBDA j, c : Xor(c, Masked(j \in A[i], M[j])))]

mul_6464_6464(A, M) == mul_6464_6464_sse(A, M)

add_6464_6464_C(A, M) == [j \in Bits |-> Xor(A[j], M[j])]

addmul_To64_o64_lsb(r, a, w) ==
    For(0, B - 1, [r |-> r, a |-> a],
        LAMBDA i, s : [r |-> [s.r EXCEPT ![i] = Xor(@, Masked(0 \in s.a, w))], a |-> Shr(s.a, 1)]).r

\* Row i takes bit B - 1 - i, the other way round than the variants above and below.
addmul_To64_o64_msb(r, a, w) ==
    For(0, B - 1, [r |-> r, a |-> a],
        LAMBDA i, s : [r |-> [s.r EXCEPT ![i] = Xor(@, Masked(B - 1 \in s.a, w))], a |-> Shl(s.a, 1)]).r

\* Two bits of a at a time select one of the four pairs mb.
addmul_To64_o64_lsb_packof2(r, a, w) ==
    LET mb(t) == <<Masked(0 \in t, w), Masked(1 \in t, w)>>
    IN  For(0, (B \div 2) - 1, [r |-> r, a |-> a],
            LAMBDA i, s : [r |-> [s.r EXCEPT ![2 * i] = Xor(@, mb(s.a \cap {0, 1})[1]),
                                             ![2 * i + 1] = Xor(@, mb(s.a \cap {0, 1})[2])],
                           a |-> Shr(s.a, 2)]).r

addmul_To64_o64_lsb_sse_v1(r, a, w) == addmul_To64_o64_lsb_packof2(r, a, w)

mul_o64_6464_C_lsb(a, w) ==
    For(0, B - 1, [c |-> {}, a |-> a],
        LAMBDA i, s : [c |-> Xor(s.c, Masked(0 \in s.a, w[i])), a |-> Shr(s.a, 1)]).c

mul_o64_6464_C_msb(a, w) ==
    Down(B - 1, 0, [c |-> {}, a |-> a],
         LAMBDA i, s : [c |-> Xor(s.c, Masked(B - 1 \in s.a, w[i])), a |-> Shl(s.a, 1)]).c

mul_o64_T6464_C_parity(a, b) == {i \in Bits : Cardinality(a \cap b[i]) % 2 = 1}

\* XMIX32 .. XMIX1: fold a and b by s and interleave the halves.
XMIX(s, b, a) ==
    LET low == {i \in Bits : (i \div s) % 2 = 0}
    IN  (Xor(Shr(a, s), a) \cap low) \cup (Xor(Shl(b, s), b) \ low)

\* The tree of XMIX: the rows o, o + s, o + 2s ... folded down to groups of s bits.
_parity64_helper2(buf, a) ==
    LET f[s \in 1 .. B, o \in 0 .. B - 1] ==
            IF s = B THEN buf[o] \cap a ELSE XMIX(s, f[2 * s, o + s], f[2 * s, o])
    IN  f

mul_o64_T6464_C_parity3(a, b) == _parity64_helper2(b, a)[1, 0]

transp_6464(src) ==
    [i \in Bits |-> For(0, B - 1, {}, LAMBDA j, d : Xor(d, Masked(i \in src[j], {j})))]

(* Level 2: N x 64 matrices.  The tables hold every combination of c rows of   *)
(* the block, filled along a Gray code walk that adds one row at each step.    *)
GrayBit(n) == CHOOSE b \in 0 .. 8 : (n \div 2^b) % 2 = 1 /\ n % 2^b = 0

GrayTable(bb, c) ==
    For(1, 2^c - 1, [d |-> {}, w |-> {}, t |-> ({} :> {})],
        LAMBDA n, s :
            LET b == GrayBit(n)
                d == Xor(s.d, {b})
                w == Xor(s.w, bb[b])
            IN  [d |-> d, w |-> w, t |-> (d :> w) @@ s.t]).t

LookupTables(M, c) == [j \in 0 .. (B \div c) - 1 |-> GrayTable([b \in 0 .. c - 1 |-> M[c * j + b]], c)]

LookedUp(a, Bx, c) ==
    For(0, (B \div c) - 1, [w |-> {}, aa |-> a],
        LAMBDA j, s : [w |-> Xor(s.w, Bx[j][s.aa \cap 0 .. c - 1]), aa |-> Shr(s.aa, c)]).w

mul_N64_6464_lookup4(A, M) ==
    Then(LookupTables(M, NIB), LAMBDA Bx : [i \in DOMAIN A |-> LookedUp(A[i], Bx, NIB)])

\* Although it is called addmul, C is cleared first.
addmul_N64_6464_lookup4(C, A, M) == [i \in DOMAIN C |-> Xor({}, mul_N64_6464_lookup4(A, M)[i])]

mul_N64_6464_lookup8(A, M) ==
    Then(LookupTables(M, 2 * NIB), LAMBDA Bx : [i \in DOMAIN A |-> LookedUp(A[i], Bx, 2 * NIB)])

mul_N64_6464_vec(A, M) == [i \in DOMAIN A |-> mul_o64_6464_C_lsb(A[i], M)]
mul_N64_T6464_vec(A, M) == [i \in DOMAIN A |-> mul_o64_T6464_C_parity(A[i], M)]
mul_N64_6464_transB(A, M) == mul_N64_T6464_vec(A, transp_6464(M))
mul_N64_T6464_transB(A, M) == mul_N64_6464_vec(A, transp_6464(M))

\* With an odd number of rows the last pair takes the word after the end of A,
\* and writes the word after the end of C: rows come in pairs here.
mul_N64_6464_sse(A, M) ==
    [j \in DOMAIN A |-> PairedRow(<<A[j - (j % 2)], A[j - (j % 2) + 1]>>, M)[1 + (j % 2)]]

mul_64N_N64_addmul(a, w) ==
    For(0, Cardinality(DOMAIN a) - 1, Zero(B), LAMBDA i, r : addmul_To64_o64_lsb(r, a[i], w[i]))

\* A of narrower words (32 bits in the code) against x of full ones.
mul_TN32_N64_C(A, x) ==
    For(0, Cardinality(DOMAIN A) - 1, Zero(B \div 2),
        LAMBDA k, b : [i \in DOMAIN b |-> Xor(b[i], Masked(i \in A[k], x[k]))])

\* bit_matrices.c: adds transpose(A) * x to b.
addmul_TN64_N64(b, A, x) ==
    For(0, Cardinality(DOMAIN A) - 1, b,
        LAMBDA k, r : [i \in Bits |-> Xor(r[i], Masked(i \in A[k], x[k]))])

mul_TN64_N64_C(A, x) == addmul_TN64_N64(Zero(B), A, x)

\* u has K words to each word of v; w has 64 K rows.
mul_TN64K_N64_C(A, x, K) ==
    For(0, Cardinality(DOMAIN x) - 1, Zero(B * K),
        LAMBDA k, b : [i \in 0 .. B * K - 1 |-> Xor(b[i], Masked((i % B) \in A[K * k + (i \div B)], x[k]))])

mul_TN64K_N64_sse2(u, v, K) ==
    For(0, Cardinality(DOMAIN v) - 1, Zero(B * K),
        LAMBDA i, w :
            [q \in 0 .. B * K - 1 |->
                LET two == Shr(u[K * i + (q \div B)], 2 * ((q % B) \div 2)) \cap {0, 1}
                IN  Xor(w[q], Masked((q % 2) \in two, v[i]))])

(* bit_matrices.c: this one really adds. *)
addmul_N64_6464(C, A, M) ==
    Then(LookupTables(M, NIB), LAMBDA Bx : [i \in DOMAIN C |-> Xor(C[i], LookedUp(A[i], Bx, NIB))])

(* Polynomials of blocks: a function from exponents to blocks. *)
m64pol_add(a1, a2, n) == [i \in 0 .. n - 1 |-> add_6464_6464_C(a1[i], a2[i])]

m64pol_addmul(r, a1, a2, n1, n2) ==
    For(0, n1 * n2 - 1, r,
        LAMBDA q, s : LET i == q \div n2 j == q % n2
                      IN  [s EXCEPT ![i + j] = add_6464_6464_C(@, mul_6464_6464(a1[i], a2[j]))])

m64pol_mul(a1, a2, n1, n2) == m64pol_addmul([i \in 0 .. n1 + n2 - 2 |-> Zero(B)], a1, a2, n1, n2)

Upper(a, h) == [i \in 0 .. h - 1 |-> a[h + i]]

RECURSIVE m64pol_mul_kara(_, _, _)
m64pol_mul_kara(a1, a2, n) ==
    IF n = 1 THEN m64pol_mul(a1, a2, 1, 1)
    ELSE LET h == n \div 2
         IN  Then([lo |-> m64pol_mul_kara(a1, a2, h),
                   hi |-> m64pol_mul_kara(Upper(a1, h), Upper(a2, h), h),
                   t |-> m64pol_mul_kara(m64pol_add(a1, Upper(a1, h), h), m64pol_add(a2, Upper(a2, h), h), h)],
                  LAMBDA x :
                    Then(m64pol_add(m64pol_add(x.t, x.lo, 2 * h - 1), x.hi, 2 * h - 1), LAMBDA t :
                      [i \in 0 .. 2 * n - 2 |->
                         LET r == IF i < 2 * h - 1 THEN x.lo[i]
                                  ELSE IF i = 2 * h - 1 THEN Zero(B) ELSE x.hi[i - 2 * h]
                         IN  IF i \in h .. 3 * h - 2 THEN add_6464_6464_C(r, t[i - h]) ELSE r]))

m64pol_addmul_kara(r, a1, a2, n) == m64pol_add(r, m64pol_mul_kara(a1, a2, n), 2 * n - 1)

\* K x K matrices of polynomials, in rows: entry (i, j) is a[K * i + j].
BlockProduct(a1, a2, K, zero, addmul(_, _, _)) ==
    [q \in 0 .. K * K - 1 |->
        For(0, K - 1, zero, LAMBDA k, r : addmul(r, a1[K * (q \div K) + k], a2[K * k + (q % K)]))]

m64polblock_mul(a1, a2, n1, n2, K) ==
    BlockProduct(a1, a2, K, [i \in 0 .. n1 + n2 - 2 |-> Zero(B)],
                 LAMBDA r, x, y : m64pol_addmul(r, x, y, n1, n2))
m64polblock_mul_kara(a1, a2, n, K) ==
    BlockProduct(a1, a2, K, [i \in 0 .. 2 * n - 2 |-> Zero(B)],
                 LAMBDA r, x, y : m64pol_addmul_kara(r, x, y, n))

(* Level 3, linalg/gauss.c.  A row of limbs is the set of its one columns.     *)
(* A row to which a pivot row is added keeps the column of the pivot as a      *)
(* mark, so that the marks of a row tell which pivots were added to it.        *)
simple_addrows(p, d, s) == [p EXCEPT ![d] = Xor(@, p[s])]
addRows(M, row, pivot, mask) == [M EXCEPT ![row] = Xor(@, M[pivot]) \cup {mask}]
add2Rows(M, row, row2, pivot, mask) ==
    [M EXCEPT ![row] = Xor(@, M[pivot]) \cup {mask}, ![row2] = Xor(@, M[pivot]) \cup {mask}]

getPivot(M, mask) ==
    LET ones == {i \in Rows(M) : mask \in M[i]} IN IF ones = {} THEN -1 ELSE Lowest(ones)

\* The rows below the pivot that have the column, two at a time.
Eliminate(G, pivot, c) ==
    Then(For(pivot + 1, Cardinality(Rows(G.mat)) - 1, [mat |-> G.mat, lmat |-> G.lmat, i1 |-> -1],
             LAMBDA i, s :
                IF c \notin s.mat[i] THEN s
                ELSE IF s.i1 < 0 THEN [s EXCEPT !.i1 = i]
                ELSE [mat |-> add2Rows(s.mat, s.i1, i, pivot, c),
                      lmat |-> simple_addrows(simple_addrows(s.lmat, i, pivot), s.i1, pivot),
                      i1 |-> -1]),
         LAMBDA s :
            IF s.i1 < 0 THEN s
            ELSE [s EXCEPT !.mat = addRows(@, s.i1, pivot, c),
                           !.lmat = simple_addrows(@, s.i1, pivot)])

\* Mutant of gaussian_elimination: the pivot line is not purged.
gaussian_unpurged(mat, lmat, ncols) ==
    For(0, ncols - 1,
        [mat |-> mat, lmat |-> lmat, set_pivot |-> [c \in 0 .. ncols - 1 |-> -1], set_used |-> {}],
        LAMBDA c, G :
            LET pivot == getPivot(G.mat, c)
            IN  IF pivot = -1 THEN G
                ELSE Then(Eliminate(G, pivot, c), LAMBDA s :
                       [mat |-> s.mat, lmat |-> s.lmat,
                        set_pivot |-> [G.set_pivot EXCEPT ![c] = pivot],
                        set_used |-> G.set_used \cup {pivot}]))

gaussian_elimination(mat, lmat, ncols) ==
    For(0, ncols - 1,
        [mat |-> mat, lmat |-> lmat, set_pivot |-> [c \in 0 .. ncols - 1 |-> -1], set_used |-> {}],
        LAMBDA c, G :
            LET pivot == getPivot(G.mat, c)
            IN  IF pivot = -1 THEN G
                ELSE Then(Eliminate(G, pivot, c), LAMBDA s :
                       [mat |-> addRows(s.mat, pivot, pivot, c),      \* purge the pivot line
                        lmat |-> s.lmat,
                        set_pivot |-> [G.set_pivot EXCEPT ![c] = pivot],
                        set_used |-> G.set_used \cup {pivot}]))

Identity(n) == [i \in 0 .. n - 1 |-> {i}]

\* Each unused row gives an element of the left kernel, in the order of the rows.
kernel(mat, ncols) ==
    Then(gaussian_elimination(mat, Identity(Cardinality(Rows(mat))), ncols), LAMBDA G :
        For(0, Cardinality(Rows(mat)) - 1, <<>>,
            LAMBDA i, ker :
                IF i \in G.set_used THEN ker
                ELSE Append(ker, {i} \cup {G.set_pivot[j] : j \in G.mat[i]})))

\* The combinations of the used rows first, the others from the end.
spanned_basis(mat, ncols) ==
    LET n == Cardinality(Rows(mat))
    IN  Then(gaussian_elimination(mat, Identity(n), ncols), LAMBDA G :
          For(0, n - 1, [r |-> 0, h |-> n, lmat |-> Zero(n)],
              LAMBDA i, s :
                IF i \in G.set_used
                THEN [r |-> s.r + 1, h |-> s.h, lmat |-> [s.lmat EXCEPT ![s.r] = G.lmat[i]]]
                ELSE [r |-> s.r, h |-> s.h - 1, lmat |-> [s.lmat EXCEPT ![s.h - 1] = G.lmat[i]]]))

(* The eliminations of matops.c on one block. *)
gauss_6464_C(m) == kernel(m, B)

\* Adds row k (and combination e[k]) to the rows of K having column j.
AddTo(s, K, k, j) ==
    LET K1 == {i \in K : j \in s.mm[i]}
    IN  [s EXCEPT !.mm = [i \in Bits |-> IF i \in K1 THEN Xor(@[i], s.mm[k]) ELSE @[i]],
                  !.e = [i \in Bits |-> IF i \in K1 THEN Xor(@[i], s.e[k]) ELSE @[i]]]

gauss_6464_imm(m) ==
    For(0, B - 1, [mm |-> m, e |-> mat64_set_identity, taken |-> {}, r |-> 0],
        LAMBDA j, s :
            LET free == {k \in Bits : j \in s.mm[k] /\ k \notin s.taken}
            IN  IF free = {} THEN s
                ELSE LET k == Lowest(free)
                     IN  [AddTo(s, k + 1 .. B - 1, k, j) EXCEPT !.taken = @ \cup {k}, !.r = @ + 1])

full_echelon_6464_imm(m) ==
    For(0, B - 1, [mm |-> m, e |-> mat64_set_identity, r |-> 0],
        LAMBDA j, s :
            LET lead == {k \in Bits : j \in s.mm[k] /\ s.mm[k] \cap 0 .. j - 1 = {}}
                k == Lowest(lead)
            IN  IF lead = {} THEN s
                ELSE Then([mm |-> [s.mm EXCEPT ![k] = s.mm[j], ![j] = s.mm[k]],
                           e |-> [s.e EXCEPT ![k] = s.e[j], ![j] = s.e[k]], r |-> s.r + 1],
                          LAMBDA t : AddTo(t, Bits \ {j}, j, j)))

\* The rows without a pivot get, in order, the columns left over.
LUP64_imm(a) ==
    Then(For(0, B - 1, [mm |-> a, e |-> mat64_set_identity, p |-> mat64_set_identity,
                        todo |-> Bits, store |-> <<>>, r |-> 0],
             LAMBDA j, s :
                IF s.mm[j] \cap s.todo = {} THEN [s EXCEPT !.store = Append(@, j)]
                ELSE LET v == Lowest(s.mm[j])
                     IN  [AddTo(s, j + 1 .. B - 1, j, v) EXCEPT
                            !.p[j] = {v}, !.todo = Xor(@, {v}), !.r = @ + 1]),
         LAMBDA s :
            While([p |-> s.p, todo |-> s.todo, ps |-> 1], LAMBDA x : x.todo # {},
                  LAMBDA x : [p |-> [x.p EXCEPT ![s.store[x.ps]] = {Lowest(x.todo)}],
                              todo |-> x.todo \ {Lowest(x.todo)}, ps |-> x.ps + 1])
            @@ [l |-> s.e, u |-> s.mm, r |-> s.r])

mat64_is_uppertriangular(u) == \A k \in Bits : u[k] \cap 0 .. k - 1 = {}
mat64_is_lowertriangular(u) == \A k \in Bits : u[k] \cap k + 1 .. B - 1 = {}
mat64_triangular_is_unit(u) == \A k \in Bits : k \in u[k]

(* PLUQ: phi[i] is the pivot column of row i, or -1. *)
pmat_transpose(y) ==
    [i \in DOMAIN y |-> IF \E k \in DOMAIN y : y[k] = i THEN CHOOSE k \in DOMAIN y : y[k] = i ELSE -1]

\* The matrix of a permutation, block (k div B, v div B) at its place.
pmat_get_matrix(phi) ==
    LET nb == Cardinality(DOMAIN phi) \div B
    IN  [q \in 0 .. nb * nb - 1 |->
            [i \in Bits |-> LET v == phi[B * (q \div nb) + i]
                            IN  IF v \div B = q % nb THEN {v % B} ELSE {}]]

\* Completes phi from position at on with the columns of left, in order.
pmattab_complete(phi, at, left) ==
    While([phi |-> phi, at |-> at, left |-> left], LAMBDA x : x.left # {},
          LAMBDA x : [phi |-> [x.phi EXCEPT ![x.at] = Lowest(x.left)], at |-> x.at + 1,
                      left |-> x.left \ {Lowest(x.left)}]).phi

pqperms_from_phi(phi, m, n) ==
    Then(For(0, m - 1, [p |-> [i \in 0 .. m - 1 |-> i], q |-> [j \in 0 .. n - 1 |-> j], at |-> 0,
                        ms |-> 0 .. m - 1, ns |-> 0 .. n - 1],
             LAMBDA k, s :
                IF phi[k] < 0 THEN s
                ELSE [p |-> [s.p EXCEPT ![s.at] = k], q |-> [s.q EXCEPT ![s.at] = phi[k]],
                      at |-> s.at + 1, ms |-> Xor(s.ms, {k}), ns |-> Xor(s.ns, {phi[k]})]),
         LAMBDA s : [p |-> pmattab_complete(s.p, s.at, s.ms), q |-> pmattab_complete(s.q, s.at, s.ns)])

PLUQ64_inner(phi, a, col_offset) ==
    For(0, B - 1, [mm |-> a, e |-> mat64_set_identity, phi |-> phi, todo |-> Bits, rank |-> 0],
        LAMBDA i, s :
            IF s.phi[i] >= 0 \/ s.mm[i] \cap s.todo = {} THEN s
            ELSE LET v == Lowest(s.mm[i])
                 IN  [AddTo(s, i + 1 .. B - 1, i, v) EXCEPT
                        !.phi[i] = col_offset + v, !.todo = Xor(@, {v}), !.rank = @ + 1])

NoPivots == [i \in Bits |-> -1]

PLUQ64(m) ==
    Then(PLUQ64_inner(NoPivots, m, 0), LAMBDA s :
        pqperms_from_phi(s.phi, B, B) @@ [l |-> s.e, u |-> s.mm, r |-> s.rank])

\* n columns in nb blocks a[0 .. nb - 1]: the blocks are eliminated one after the
\* other, then the combinations of the later ones applied to the earlier ones. A
\* block not reached, because the rank is full before, is not taken from a but
\* from what u held: junk.  The value returned is not the rank.
PLUQ64_n(a, nb, junk) ==
    Then(While([b |-> 0, l |-> mat64_set_identity, phi |-> NoPivots, rank |-> 0, u |-> <<>>, ls |-> <<>>],
               LAMBDA s : s.b < nb /\ s.rank < B,
               LAMBDA s :
                 Then(PLUQ64_inner(s.phi, mul_6464_6464(s.l, a[s.b]), s.b * B), LAMBDA t :
                    [b |-> s.b + 1, l |-> mul_6464_6464(t.e, s.l), phi |-> t.phi, rank |-> s.rank + t.rank,
                     u |-> Append(s.u, t.mm), ls |-> Append(s.ls, t.e)])),
         LAMBDA s :
           Then(Down(s.b - 2, 0, [u |-> s.u, tl |-> s.ls[s.b]],
                     LAMBDA c, x : [u |-> [x.u EXCEPT ![c + 1] = mul_6464_6464(x.tl, @)],
                                    tl |-> mul_6464_6464(s.ls[c + 1], x.tl)]),
                LAMBDA x : [phi |-> s.phi, l |-> s.l, ret |-> s.b * B + nb, whole |-> s.b = nb,
                            u |-> [c \in 0 .. nb - 1 |-> IF c < s.b THEN x.u[c + 1]
                                                         ELSE mul_6464_6464(s.l, junk[c])]]))

\* h clears, with the pivots of phi, what is above them; us is clobbered.
bli_64x64N_clobber(us, phi, nb) ==
    For(0, B - 1, [us |-> us, h |-> mat64_set_identity],
        LAMBDA i, s :
            IF phi[i] < 0 THEN s
            ELSE LET K == {k \in 0 .. i - 1 : (phi[i] % B) \in s.us[phi[i] \div B][k]}
                 IN  [us |-> [b \in 0 .. nb - 1 |->
                                [k \in Bits |-> IF k \in K THEN Xor(s.us[b][k], s.us[b][i]) ELSE s.us[b][k]]],
                      h |-> [k \in Bits |-> IF k \in K THEN Xor(s.h[k], s.h[i]) ELSE s.h[k]]]).h

bli_64x128(us, phi) == bli_64x64N_clobber(us, phi, 2)

\* Column j of the result is column phi[j]; for -1 it is zero, but all ones in
\* the SSE 4.1 build, whose comparison with the empty mask holds.
extract_cols_64_from_128(m, phi, sse) ==
    [i \in Bits |-> {j \in Bits : IF phi[j] < 0 THEN sse ELSE (phi[j] % B) \in m[phi[j] \div B][i]}]

PLUQ128(m, junk, sse) ==
    Then(PLUQ64_n(m, 2, junk), LAMBDA s :
      Then(mul_6464_6464(extract_cols_64_from_128([c \in 0 .. 1 |-> m[2 + c]], s.phi, sse), bli_64x128(s.u, s.phi)),
           LAMBDA l21 :
             Then(PLUQ64_n([c \in 0 .. 1 |-> add_6464_6464_C(m[2 + c], mul_6464_6464(l21, s.u[c]))], 2, junk),
                  LAMBDA t :
                    pqperms_from_phi([i \in 0 .. 2 * B - 1 |-> IF i < B THEN s.phi[i] ELSE t.phi[i - B]],
                                     2 * B, 2 * B)
                    @@ [l |-> (0 :> s.l) @@ (1 :> Zero(B))
                              @@ (2 :> mul_6464_6464(t.l, mul_6464_6464(l21, s.l))) @@ (3 :> t.l),
                        u |-> [q \in 0 .. 3 |-> IF q < 2 THEN s.u[q] ELSE t.u[q - 2]],
                        ret |-> (s.ret % B) + (t.ret % B), whole |-> s.whole /\ t.whole])))

(* check_pluq: l is unit lower triangular, l * m = u, and the diagonal blocks  *)
(* of p * u * q^-1 are upper triangular.  nb blocks; l(i, k) for k <= i.       *)
BlockMul(x, y, nb) ==
    [q \in 0 .. nb * nb - 1 |->
        For(0, nb - 1, Zero(B),
            LAMBDA k, r : add_6464_6464_C(r, mul_6464_6464(x[nb * (q \div nb) + k], y[nb * k + (q % nb)])))]

check_pluq(p, l, u, q, m, nb) ==
    /\ Then(BlockMul(BlockMul(pmat_get_matrix(p), u, nb), pmat_get_matrix(pmat_transpose(q)), nb),
            LAMBDA puq : \A i \in 0 .. nb - 1 : mat64_is_uppertriangular(puq[nb * i + i]))
    /\ BlockMul(l, m, nb) = u
    /\ \A i \in 0 .. nb - 1 : mat64_is_lowertriangular(l[nb * i + i]) /\ mat64_triangular_is_unit(l[nb * i + i])

(* What is promised. *)
\* Products, transpositions and reversals all agree with their definition.
ProductsOk(A, M, C) ==
    Then(ProductRef(A, M), LAMBDA p :
      /\ p = mul_6464_6464_sse(A, M) /\ p = mul_6464_6464_v2(A, M)
      /\ p = mul_N64_6464_lookup4(A, M) /\ p = mul_N64_6464_lookup8(A, M)
      /\ p = addmul_N64_6464_lookup4(C, A, M) /\ p = mul_N64_6464_vec(A, M)
      /\ p = mul_N64_6464_transB(A, M) /\ p = mul_N64_6464_sse(A, M)
      /\ p = mul_N64_T6464_transB(A, transp_6464(M))
      /\ \A i \in Bits : p[i] = mul_o64_6464_C_msb(A[i], M)
      /\ addmul_N64_6464(C, A, M) = add_6464_6464_C(C, p))

TransposedProductsOk(A, M, C) ==
    LET At == transp_6464(A)
    IN  /\ At = TransposeRef(A)
        /\ Then(ProductRef(At, M), LAMBDA p :
             /\ p = mul_64N_N64_addmul(A, M) /\ p = mul_TN64_N64_C(A, M)
             /\ p = mul_TN64K_N64_C(A, M, 1) /\ p = mul_TN64K_N64_sse2(A, M, 1)
             /\ addmul_TN64_N64(C, A, M) = add_6464_6464_C(C, p))
        /\ \A K \in {2} : mul_TN64K_N64_C([i \in 0 .. K * B - 1 |-> IF i % 2 = 0 THEN A[i \div 2] ELSE C[i \div 2]], M, K)
             = Then(mul_TN64_N64_C(A, M), LAMBDA x : Then(mul_TN64_N64_C(C, M), LAMBDA y :
                 [q \in 0 .. 2 * B - 1 |-> IF q < B THEN x[q] ELSE y[q - B]]))
        /\ Then([i \in Bits |-> A[i] \cap 0 .. (B \div 2) - 1], LAMBDA A2 :
             mul_TN32_N64_C(A2, M) = [i \in 0 .. (B \div 2) - 1 |-> mul_TN64_N64_C(A2, M)[i]])
        /\ \A i \in Bits :
             /\ addmul_To64_o64_lsb(C, A[i], M[i]) = addmul_To64_o64_lsb_packof2(C, A[i], M[i])
             /\ addmul_To64_o64_lsb(C, A[i], M[i]) = addmul_To64_o64_msb(C, bitrev(A[i]), M[i])
             /\ mul_o64_T6464_C_parity(A[i], M) = mul_o64_T6464_C_parity3(A[i], M)
             /\ bitrev(A[i]) = {B - 1 - b : b \in A[i]}
             /\ nibrev(A[i]) = {NIB * ((B \div NIB) - 1 - (b \div NIB)) + (b % NIB) : b \in A[i]}

\* Karatsuba's products of polynomials of blocks agree with the plain ones.
PolynomialsOk(a1, a2, n) ==
    /\ m64pol_mul_kara(a1, a2, n) = m64pol_mul(a1, a2, n, n)
    /\ LET x == [q \in 0 .. 3 |-> IF q % 2 = 0 THEN a1 ELSE a2]
           y == [q \in 0 .. 3 |-> IF q < 3 THEN a2 ELSE a1]
       IN  Then(m64polblock_mul(x, y, n, n, 2), LAMBDA r :
             /\ r = m64polblock_mul_kara(x, y, n, 2)
             /\ \A q \in 0 .. 3 :
                  r[q] = m64pol_add(m64pol_mul(x[2 * (q \div 2)], y[q % 2], n, n),
                                    m64pol_mul(x[2 * (q \div 2) + 1], y[2 + (q % 2)], n, n), 2 * n - 1))

Combination(ws, S) == {j \in UNION {ws[i] : i \in S} : Cardinality({i \in S : j \in ws[i]}) % 2 = 1}
RankRef(m) == CHOOSE r \in 0 .. Cardinality(Rows(m)) : Cardinality({Combination(m, S) : S \in SUBSET Rows(m)}) = 2^r
Invertible(e) == RankRef(e) = B

\* The left kernel is found whole: its elements cancel the rows, they are
\* independent, and there are as many as rows less the rank.
KernelOk(m, ncols) ==
    Then(kernel(m, ncols), LAMBDA ker :
      /\ \A i \in 1 .. Len(ker) : ker[i] \subseteq Rows(m) /\ Combination(m, ker[i]) = {}
      /\ Cardinality({Combination(ker, S) : S \in SUBSET (1 .. Len(ker))}) = 2^Len(ker)
      /\ Len(ker) = Cardinality(Rows(m)) - RankRef(m))

\* lmat is invertible, its first r combinations of the rows are a basis, the others vanish.
BasisOk(m, ncols) ==
    Then(spanned_basis(m, ncols), LAMBDA s :
      /\ RankRef(s.lmat) = Cardinality(Rows(m))
      /\ s.r = RankRef(m) /\ s.r = s.h
      /\ \A i \in Rows(m) : i >= s.r => Combination(m, s.lmat[i]) = {})

EchelonOk(m) ==
    /\ Then(gauss_6464_imm(m), LAMBDA s :
         s.mm = ProductRef(s.e, m) /\ Invertible(s.e) /\ s.r = RankRef(m))
    /\ Then(full_echelon_6464_imm(m), LAMBDA s :
         /\ s.mm = ProductRef(s.e, m) /\ Invertible(s.e) /\ s.r = RankRef(m)
         /\ \A i \in Bits : s.mm[i] # {} => \A k \in Bits : (i \in s.mm[k]) = (k = i))
    /\ Len(gauss_6464_C(m)) = B - RankRef(m)

\* The contract written above LUP64_imm, except that u * transpose(p) is upper
\* triangular only when no row is left without a pivot before one that has it.
LupOk(a) ==
    Then(LUP64_imm(a), LAMBDA s :
      Then(ProductRef(s.u, TransposeRef(s.p)), LAMBDA up :
        /\ mat64_is_lowertriangular(s.l) /\ mat64_triangular_is_unit(s.l)
        /\ ProductRef(s.l, a) = s.u /\ Invertible(s.p)
        /\ s.r = B => mat64_is_uppertriangular(up)
        /\ \A k \in Bits : (up[k] = {}) = (k \notin up[k])
        /\ s.r = RankRef(a) /\ s.r = Cardinality({k \in Bits : k \in up[k]})))

Pluq64Ok(m) ==
    Then(PLUQ64(m), LAMBDA s :
      /\ s.r = RankRef(m)
      /\ check_pluq(s.p, [i \in {0} |-> s.l], [i \in {0} |-> s.u], s.q, [i \in {0} |-> m], 1))

\* Two by two blocks, as far as the first block of each half has not full rank.
Pluq128Ok(m, junk, sse) ==
    Then(PLUQ128(m, junk, sse), LAMBDA s :
      s.whole => check_pluq(s.p, s.l, s.u, s.q, m, 2))

====
