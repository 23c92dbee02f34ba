---- MODULE Characters ----
(* linalg/blockmatrix.c and linalg/characters.c: from the kernel vectors of    *)
(* the block Wiedemann programs, the combinations on which all characters and  *)
(* the heavy columns left out of the matrix vanish.  A block matrix is a       *)
(* record of its dimensions and its blocks; mb[bi, bj] stands for the block    *)
(* mb[bi + bj * stride].  A flat matrix is a function from rows to the set of  *)
(* the columns that hold a one.                                                *)
EXTENDS BitMatrices

iceildiv(a, b) == (a + b - 1) \div b
nrblocks(m) == iceildiv(m.nrows, B)
ncblocks(m) == iceildiv(m.ncols, B)

\* malloc'ed: every row of every block is junk.
blockmatrix_alloc(nrows, ncols, junk) ==
    [nrows |-> nrows, ncols |-> ncols,
     mb |-> [q \in (0 .. iceildiv(nrows, B) - 1) \X (0 .. iceildiv(ncols, B) - 1) |-> [k \in Bits |-> junk]]]

\* The B columns from j on of row i.
blockmatrix_subrow_ptr(m, i, j) == m.mb[i \div B, j \div B][i % B]
SetSubrow(m, i, j, w) == [m EXCEPT !.mb[<<i \div B, j \div B>>][i % B] = w]
Row(m, i) == UNION {{B * bj + b : b \in m.mb[i \div B, bj][i % B]} : bj \in 0 .. ncblocks(m) - 1}

blockmatrix_set_zero(m) == [m EXCEPT !.mb = [q \in DOMAIN @ |-> Zero(B)]]

blockmatrix_set_identity(m) ==
    For(0, m.ncols - 1, blockmatrix_set_zero(m),
        LAMBDA i, s : [s EXCEPT !.mb[<<i \div B, i \div B>>][i % B] = Xor(@, {i % B})])

\* The columns j0 .. j1 - 1 of a, by a mask on each block they meet.
blockmatrix_copy_colrange(b, a, j0, j1) ==
    LET mask(bj) == {z \in Bits : z >= j0 - bj * B /\ z < j1 - bj * B}
    IN  For(0, a.nrows - 1, b, LAMBDA i, s :
          For(j0 \div B, iceildiv(j1, B) - 1, s, LAMBDA bj, t :
            SetSubrow(t, i, B * bj, (blockmatrix_subrow_ptr(t, i, B * bj) \ mask(bj))
                                     \cup (blockmatrix_subrow_ptr(a, i, B * bj) \cap mask(bj)))))

\* The n first rows of a column of blocks, as one array.
Column(m, bj, n) == [i \in 0 .. n - 1 |-> m.mb[i \div B, bj][i % B]]

\* transpose(a) * b
blockmatrix_mul_Ta_b(a, b, junk) ==
    LET c == blockmatrix_alloc(a.ncols, b.ncols, junk)
    IN  [blockmatrix_set_zero(c) EXCEPT !.mb =
            [q \in DOMAIN @ |-> addmul_TN64_N64(@[q], Column(a, q[1], a.nrows), Column(b, q[2], a.nrows))]]

blockmatrix_mul_smallb(a, b, junk) ==
    LET put(m, bj, C) == [m EXCEPT !.mb = [q \in DOMAIN @ |->
            IF q[2] # bj THEN @[q]
            ELSE [k \in Bits |-> IF B * q[1] + k \in DOMAIN C THEN C[B * q[1] + k] ELSE @[q][k]]]]
    IN  For(0, ncblocks(b) - 1, blockmatrix_set_zero(blockmatrix_alloc(a.nrows, b.ncols, junk)),
            LAMBDA j, c :
              For(0, nrblocks(b) - 1, c, LAMBDA i, d :
                put(d, j, addmul_N64_6464(Column(d, j, a.nrows), Column(a, i, a.nrows), b.mb[i, j]))))

\* Whole blocks are copied: the flat matrix has rows for the padding too.
blockmatrix_copy_to_flat(m) == [i \in 0 .. B * nrblocks(m) - 1 |-> Row(m, i)]

blockmatrix_transpose(a, junk) ==
    [blockmatrix_alloc(a.ncols, a.nrows, junk) EXCEPT !.mb = [q \in DOMAIN @ |-> transp_6464(a.mb[q[2], q[1]])]]

blockmatrix_copy_transpose_to_flat(m, junk) ==
    LET t == blockmatrix_transpose(m, junk)
    IN  [i \in 0 .. B * nrblocks(t) - 1 |-> Row(t, i)]

\* Block (bi, bj) from the rows of block bj of the flat matrix; a row it lacks is zero.
blockmatrix_copy_transpose_from_flat(m, tiny) ==
    [m EXCEPT !.mb = [q \in DOMAIN @ |->
        transp_6464([k \in Bits |->
            IF B * q[2] + k \in DOMAIN tiny THEN Shr(tiny[B * q[2] + k], B * q[1]) \cap Bits ELSE {}])]]

\* k is cleared as a whole, the columns before j0 included.
blockmatrix_read_from_flat_file(k, j0, file) ==
    For(0, Cardinality(DOMAIN file) - 1, blockmatrix_set_zero(k),
        LAMBDA r, s : SetSubrow(s, r, j0, file[r]))

blockmatrix_read_transpose_from_flat_file(k, file) ==
    [blockmatrix_set_zero(k) EXCEPT !.mb = [q \in DOMAIN @ |->
        transp_6464([i \in Bits |-> IF q[1] = 0 /\ B * q[2] + i \in DOMAIN file THEN file[B * q[2] + i] ELSE {}])]]

\* The words written row by row, the padding of the last block with them.
blockmatrix_write_to_flat_file(k) == [r \in 0 .. k.nrows - 1 |-> Row(k, r)]

\* The rows and columns from (i0, j0) on, multiples of B.
blockmatrix_submatrix(k, i0, j0, nrows, ncols) ==
    [nrows |-> nrows, ncols |-> ncols,
     mb |-> [q \in (0 .. iceildiv(nrows, B) - 1) \X (0 .. iceildiv(ncols, B) - 1) |->
                k.mb[q[1] + (i0 \div B), q[2] + (j0 \div B)]]]

(* Characters.  ch is [p, r]; pol gives the coefficients g0 and g1 of the      *)
(* rational polynomial, pairs are <<a, b>>.                                    *)
Sign(x) == IF x > 0 THEN 1 ELSE IF x < 0 THEN -1 ELSE 0
\* modul_jacobi, for the primes used here.
Jacobi(x, p) == IF x % p = 0 THEN 0 ELSE IF \E y \in 1 .. p - 1 : (y * y - x) % p = 0 THEN 1 ELSE -1

\* One character; p = 0 marks the special ones. A negative a is reduced through -a.
Character(a, b, ch, pol) ==
    CASE ch.p = 0 /\ ch.r = 0 -> FALSE
      [] ch.p = 0 /\ ch.r = 1 -> TRUE
      [] ch.p = 0 /\ ch.r = 2 ->
           LET quick == IF a > 0 THEN Sign(pol.g1) ELSE -Sign(pol.g1)
           IN  IF Sign(pol.g0) # quick THEN pol.g1 * a + pol.g0 * b < 0 ELSE quick < 0
      [] ch.p = 0 /\ ch.r = 3 -> b = 0
      [] OTHER -> IF a < 0 THEN Jacobi(-(((-a) % ch.p) + (((b % ch.p) * ch.r) % ch.p)), ch.p) < 0
                  ELSE Jacobi((a % ch.p) - (((b % ch.p) * ch.r) % ch.p), ch.p) < 0

eval_64chars(ab, chars, pol) == {i \in Bits : Character(ab[1], ab[2], chars[i], pol)}

\* Thread tnum of nt takes the pairs tnum * n / nt .. (tnum + 1) * n / nt - 1.
eval_64chars_batch_thread(W, AB, chars, pol, tnum, nt) ==
    LET n == Len(AB)
    IN  [z \in 1 .. n |-> IF z - 1 \in (tnum * n) \div nt .. (((tnum + 1) * n) \div nt) - 1
                          THEN eval_64chars(AB[z], chars, pol) ELSE W[z]]

eval_64chars_batch(AB, chars, pol, nt, junk) ==
    For(0, nt - 1, [z \in 1 .. Len(AB) |-> junk],
        LAMBDA tnum, W : eval_64chars_batch_thread(W, AB, chars, pol, tnum, nt))

\* roots is the list of the <<p, r>> beyond the large prime bound, in the order
\* of mpz_nextprime and poly_roots_ulong.
create_characters(nchars, roots) ==
    [i \in 0 .. B * iceildiv(nchars, B) - 1 |->
        CASE i = 0 -> [p |-> 0, r |-> 2]
          [] i = 1 -> [p |-> 0, r |-> 1]
          [] i = 2 -> [p |-> 0, r |-> 3]
          [] i \in 3 .. nchars - 1 -> [p |-> roots[i - 2][1], r |-> roots[i - 2][2]]
          [] OTHER -> [p |-> 0, r |-> 0]]

\* The pairs are read in batches; the batch that is not full is the last one.
big_character_matrix(chars, rels, pol, batchsize, nt, junk) ==
    LET nchars2 == Cardinality(DOMAIN chars)
        store(m, i, AB) ==
            For(0, (nchars2 \div B) - 1, m, LAMBDA cg, s :
              Then(eval_64chars_batch(AB, [c \in Bits |-> chars[B * cg + c]], pol, nt, junk), LAMBDA W :
                For(1, Len(AB), s, LAMBDA z, t : SetSubrow(t, i + z - 1, B * cg, W[z]))))
    IN  While([m |-> blockmatrix_set_zero(blockmatrix_alloc(Len(rels), nchars2, junk)), i |-> 0, last |-> FALSE],
              LAMBDA s : ~s.last,
              LAMBDA s :
                Then(SubSeq(rels, s.i + 1, IF s.i + batchsize < Len(rels) THEN s.i + batchsize ELSE Len(rels)),
                     LAMBDA AB : [m |-> store(s.m, s.i, AB), i |-> s.i + Len(AB), last |-> Len(AB) < batchsize])).m

\* A row of the index lists relations, one as often as it was added.
small_character_matrix(bcmat, index, junk) ==
    For(1, Len(index), blockmatrix_alloc(Len(index), bcmat.ncols, junk), LAMBDA i, m :
      For(0, ncblocks(bcmat) - 1, m, LAMBDA cg, s :
        SetSubrow(s, i - 1, B * cg,
          For(1, Len(index[i]), {}, LAMBDA k, w : Xor(w, blockmatrix_subrow_ptr(bcmat, index[i][k], B * cg))))))

\* rows lists, for each row, its columns; without a file the matrix is empty.
read_heavyblock_matrix(rows, ncols, junk) ==
    For(1, Len(rows), blockmatrix_set_zero(blockmatrix_alloc(Len(rows), ncols, junk)), LAMBDA i, m :
      For(1, Len(rows[i]), m, LAMBDA k, s :
        LET v == rows[i][k]
        IN  SetSubrow(s, i - 1, v, Xor(blockmatrix_subrow_ptr(s, i - 1, v), {v % B}))))

\* The left kernel of t as the columns of kb.
compute_transpose_of_blockmatrix_kernel(t, junk) ==
    Then(kernel([i \in 0 .. t.nrows - 1 |-> blockmatrix_copy_to_flat(t)[i]], t.ncols), LAMBDA ker :
      [dim |-> Len(ker),
       kb |-> blockmatrix_copy_transpose_from_flat(blockmatrix_set_zero(blockmatrix_alloc(t.nrows, t.nrows, junk)),
                                                   [i \in 0 .. Len(ker) - 1 |-> ker[i + 1]])])

\* A basis of the columns of m, judged on its first rows.
blockmatrix_column_reduce(m, max_rows, junk) ==
    LET n == IF max_rows < m.nrows THEN max_rows ELSE m.nrows
        tiny == blockmatrix_copy_transpose_to_flat(blockmatrix_submatrix(m, 0, 0, n, m.ncols), junk)
    IN  Then(spanned_basis([i \in 0 .. m.ncols - 1 |-> tiny[i]], n), LAMBDA s :
          blockmatrix_mul_smallb(m, blockmatrix_copy_transpose_from_flat(
                                        blockmatrix_alloc(m.ncols, s.r, junk), s.lmat), junk))

\* The product [scmat | h] of k, side by side in one matrix.
JoinColumns(tc, th) ==
    [nrows |-> tc.nrows, ncols |-> tc.ncols + th.ncols,
     mb |-> [q \in (0 .. nrblocks(tc) - 1) \X (0 .. ncblocks(tc) + ncblocks(th) - 1) |->
                IF q[2] < ncblocks(tc) THEN tc.mb[q] ELSE th.mb[q[1], q[2] - ncblocks(tc)]]]

\* The final count looks only at the rows 0, B, 2 B ...
NonZeroSeen(nk) == UNION {Row(nk, i) : i \in {r \in 0 .. nk.nrows - 1 : r % B = 0}}

\* main, for one kernel file of ncols columns; in is the input.
main(in) ==
    Then(small_character_matrix(
           big_character_matrix(create_characters(in.nchars, in.roots), in.rels, in.pol, in.batch, in.nt, in.junk),
           in.index, in.junk), LAMBDA scmat :
      Then(read_heavyblock_matrix(in.heavy, in.nheavy, in.junk), LAMBDA h :
        Then(blockmatrix_column_reduce(
               blockmatrix_read_from_flat_file(blockmatrix_alloc(Len(in.index), in.ncols, in.junk), 0, in.file),
               in.max_rows, in.junk), LAMBDA k :
          Then(compute_transpose_of_blockmatrix_kernel(
                 JoinColumns(blockmatrix_mul_Ta_b(k, scmat, in.junk), blockmatrix_mul_Ta_b(k, h, in.junk)), in.junk),
               LAMBDA c :
                 Then(blockmatrix_mul_smallb(k, blockmatrix_submatrix(c.kb, 0, 0, c.kb.nrows, c.dim), in.junk),
                      LAMBDA nk : [ok |-> NonZeroSeen(nk) # {}, dim |-> c.dim,
                                   out |-> blockmatrix_write_to_flat_file(nk)])))))

(* What is promised: the set of all solutions, computed from the input alone. *)
Columns(rows, n) == {{i \in DOMAIN rows : j \in rows[i]} : j \in 0 .. n - 1}
Span(V) ==
    {UNION {{i \in UNION S : Cardinality({v \in S : i \in v}) % 2 = 1}} : S \in SUBSET V}
Odd(S) == Cardinality(S) % 2 = 1

\* A set of relation-sets on which a character, or a heavy column, is even.
Even(in, v) ==
    /\ \A c \in 0 .. in.nchars - 1 :
         ~Odd({<<i, k>> \in (v \X (1 .. 9)) : k <= Len(in.index[i + 1]) /\
                LET ab == in.rels[in.index[i + 1][k] + 1]
                IN  Character(ab[1], ab[2], create_characters(in.nchars, in.roots)[c], in.pol)})
    /\ \A c \in 0 .. in.nheavy - 1 :
         ~Odd({<<i, k>> \in (v \X (1 .. 9)) : k <= Len(in.heavy[i + 1]) /\ in.heavy[i + 1][k] = c})

\* The dependencies written are exactly a basis of the combinations of the
\* kernel vectors that are even for every character and every heavy column.
DependenciesOk(in) ==
    Then(main(in), LAMBDA r :
      Then({v \in Span(Columns(in.file, in.ncols)) : Even(in, v)}, LAMBDA good :
        /\ Columns(r.out, r.dim) \subseteq good
        /\ Span(Columns(r.out, r.dim)) = good
        /\ Cardinality(good) = 2^r.dim
        /\ \A i \in DOMAIN r.out : r.out[i] \subseteq 0 .. r.dim - 1))

\* Copies, transpositions and reads agree entry by entry.
Entry(m, i, j) == j % B \in m.mb[i \div B, j \div B][i % B]
BlocksOk(file, n, j0, j1, junk) ==
    LET nr == Cardinality(DOMAIN file)
        k == blockmatrix_read_from_flat_file(blockmatrix_alloc(nr, B, junk), 0, file)
        t == blockmatrix_transpose(k, junk)
        e == blockmatrix_set_identity(blockmatrix_alloc(B, B, junk))
        r == blockmatrix_read_transpose_from_flat_file(blockmatrix_alloc(B, nr, junk), file)
        c == blockmatrix_copy_colrange(blockmatrix_alloc(nr, B, junk), k, j0, j1)
    IN  /\ \A i \in 0 .. nr - 1, j \in 0 .. B - 1 :
             /\ Entry(t, j, i) = Entry(k, i, j) /\ Entry(r, j, i) = Entry(k, i, j)
             /\ Entry(c, i, j) = IF j \in j0 .. j1 - 1 THEN Entry(k, i, j) ELSE j \in junk
        /\ \A i \in 0 .. nr - 1 : Row(blockmatrix_mul_smallb(k, e, junk), i) = file[i]
        /\ blockmatrix_write_to_flat_file(k) = file

\* The quick check decides the sign of the rational norm; characters of p are
\* those of a - b r, whatever the sign of a; threads cover a batch without gap.
CharactersOk(ab, ch, pol) ==
    /\ ch.p = 0 /\ ch.r = 2 => Character(ab[1], ab[2], ch, pol) = (pol.g1 * ab[1] + pol.g0 * ab[2] < 0)
    /\ ch.p # 0 => Character(ab[1], ab[2], ch, pol) = (Jacobi((ab[1] - ab[2] * ch.r) % ch.p, ch.p) < 0)
====
