---- MODULE MatmulKernels ----
(* The three single-threaded implementations of the sparse product of bwc and   *)
(* the files they are kept in: matmul-basic.c, matmul-sliced.cpp and            *)
(* matmul-bucket.cpp behind matmul.c and matmul-common.c.  A vector is a        *)
(* function from positions to elements of GF(2)^n, written as sets: abadd is    *)
(* the symmetric difference.  Streams (t16, t8, aux) are sequences read through *)
(* cursors that count from 0.  The widths of the formats are parameters.        *)
EXTENDS Chain, Sequences, FiniteSets, TLC

CONSTANTS STRIP,      \* columns of a vertical strip: 2^16
          I_MAX,      \* rows a small slice can hold: 1 << SMALL_SLICES_I_BITS
          DJ_MAX,     \* column steps of a small2 slice: 1 << SMALL_SLICES_DJ_BITS
          NB,         \* LSL_NBUCKETS_MAX
          RB,         \* rows of a bucket: 256
          BYTE,       \* the largest column step of a large slice: 255
          HUGE_MIN, HUGE_MAX,   \* HUGE_MPLEX_MIN, HUGE_MPLEX_MAX
          ROW_BATCH,
          MERGE_ROWS  \* steps of so many rows are merged: 8192

Xor(a, b) == (a \ b) \cup (b \ a)
Ceil(a, b) == (a + b - 1) \div b
Lower(a, b) == IF a < b THEN a ELSE b
Larger(a, b) == IF a > b THEN a ELSE b
Elements(s) == {s[k] : k \in DOMAIN s}
Zeros(n) == [k \in 1 .. n |-> 0]
Junk(n) == [k \in 0 .. (n - 1) |-> {-1}]
Even(s) == IF Len(s) % 2 = 1 THEN Append(s, 0) ELSE s
Pairs(s) == [k \in 1 .. 2 * Len(s) |-> s[(k + 1) \div 2][2 - (k % 2)]]
Index(lo, hi) == [k \in 1 .. (hi - lo) |-> lo + k - 1]

(* The rows of the matrix, or of its transpose, as the kernel wants them.      *)
matmul_common_read_stupid_data(mm, A) ==
    IF mm.st = 0 THEN A
    ELSE [j \in 0 .. (mm.dim[1] - 1) |-> SelectSeq(Index(0, mm.dim[0]), LAMBDA i : j \in Elements(A[i]))]

Rows(mm) == mm.dim[mm.st]
Cols(mm) == mm.dim[1 - mm.st]
Usual(mm, d) == d = 1 - mm.st

(* optimized_direction 0 makes the matrix stored by columns. *)
matmul_init(nr, nc, direction, params) ==
    [dim |-> [k \in {0, 1} |-> IF k = 0 THEN nr ELSE nc], st |-> (direction + 1) % 2, ncoeffs |-> 0] @@ params

Get(s, q) == s[q + 1]

(* basic: every row is its weight and the differences of its columns, unsigned; *)
(* the columns of a row come in any order.                                     *)
WORD == 2 ^ 24
matmul_basic_build_cache(mm, data) ==
    For(0, Rows(mm) - 1, [mm EXCEPT !.q = <<>>], LAMBDA i, m :
        [m EXCEPT !.q = @ \o <<Len(data[i])>> \o
                          [k \in 1 .. Len(data[i]) |-> (data[i][k] - (IF k = 1 THEN 0 ELSE data[i][k - 1])) % WORD],
                  !.ncoeffs = @ + Len(data[i])])

matmul_basic_mul(mm, dst, src, d) ==
    For(0, Rows(mm) - 1, [dst |-> [k \in 0 .. (mm.dim[1 - d] - 1) |-> {}] @@ dst, q |-> 0], LAMBDA i, r :
        Then(For(1, Get(mm.q, r.q), [dst |-> r.dst, q |-> r.q + 1, j |-> 0], LAMBDA k, t :
                 Then((t.j + Get(mm.q, t.q)) % WORD, LAMBDA j :
                      [dst |-> IF Usual(mm, d) THEN [t.dst EXCEPT ![i] = Xor(@, src[j])]
                                               ELSE [t.dst EXCEPT ![j] = Xor(@, src[i])],
                       q |-> t.q + 1, j |-> j])),
             LAMBDA t : [dst |-> t.dst, q |-> t.q])).dst

(* The coefficients of the next h rows, column by column. *)
do_partial_transpose(data, head, ncols, h) ==
    SelectSeq([k \in 1 .. ncols * h |-> <<(k - 1) \div h, (k - 1) % h>>],
              LAMBDA e : e[1] \in Elements(data[head + e[2]]))

Step(L, k) == L[k][1] - (IF k = 1 THEN 0 ELSE L[k - 1][1])
Widest(L) == For(1, Len(L), 0, LAMBDA k, w : Larger(w, Step(L, k)))

(* sliced: slices of packbase or packbase + 1 rows, (dj, i) in each.  A 32-bit  *)
(* number takes two places, the low half first.                                *)
Push32(x) == <<x % STRIP, x \div STRIP>>
Read32(s, q) == Get(s, q) + STRIP * Get(s, q + 1)

matmul_sliced_build_cache(mm, data) ==
    Then(Ceil(Rows(mm), mm.npack), LAMBDA nslices :
    For(0, nslices - 1, [mm EXCEPT !.q = <<nslices, 0>>] @@ [head |-> 0], LAMBDA s, m :
        Then((Rows(mm) \div nslices) + (IF s < Rows(mm) % nslices THEN 1 ELSE 0), LAMBDA npack :
        Then(do_partial_transpose(data, m.head, Cols(mm), npack), LAMBDA L :
             [m EXCEPT !.q = @ \o Push32(npack) \o Push32(Len(L)) \o Pairs([k \in DOMAIN L |-> <<Step(L, k), L[k][2]>>]),
                       !.head = @ + npack, !.ncoeffs = @ + Len(L)]))))

matmul_sliced_mul(mm, dst, src, d) ==
    For(1, mm.q[1], [dst |-> IF Usual(mm, d) THEN dst ELSE [k \in 0 .. (mm.dim[1 - d] - 1) |-> {}] @@ dst,
                     q |-> 2, i |-> 0], LAMBDA s, r :
        Then(<<Read32(mm.q, r.q), Read32(mm.q, r.q + 2)>>, LAMBDA n :
        Then(For(1, n[2], [dst |-> IF Usual(mm, d) THEN [k \in r.i .. (r.i + n[1] - 1) |-> {}] @@ r.dst ELSE r.dst,
                           q |-> r.q + 4, j |-> 0], LAMBDA k, t :
                 Then(<<t.j + Get(mm.q, t.q), r.i + Get(mm.q, t.q + 1)>>, LAMBDA e :
                      [dst |-> IF Usual(mm, d) THEN [t.dst EXCEPT ![e[2]] = Xor(@, src[e[1]])]
                                               ELSE [t.dst EXCEPT ![e[1]] = Xor(@, src[e[2]])],
                       q |-> t.q + 2, j |-> e[1]])),
             LAMBDA t : [dst |-> t.dst, q |-> t.q, i |-> r.i + n[1]]))).dst

(* bucket: slices of decreasing density, each in a format of its own.  The      *)
(* builder b holds the matrix data, the row its rowhead points to, main_i0 and  *)
(* the mm that is filled.                                                      *)
Header(t, i0, i1, j0, j1, n, children) ==
    [t |-> t, i0 |-> i0, i1 |-> i1, j0 |-> j0, j1 |-> j1, ncoeffs |-> n, nchildren |-> children % 256]

builder_init(mm, data) == [data |-> data, rowhead |-> 0, i0 |-> 0, mm |-> mm]

(* A slice is kept, or rowhead stays where it was: the rows are redone.       *)
builder_do_small_slice(b, i0, i1) ==
    Then(do_partial_transpose(b.data, b.rowhead, Cols(b.mm), i1 - i0), LAMBDA L :
    Then(Widest(L), LAMBDA dj_max :
    Then(2 * Cols(b.mm) < 3 * Len(L), LAMBDA dense :
         [L |-> L, i0 |-> i0, i1 |-> i1, is_small2 |-> dense /\ dj_max < DJ_MAX /\ "small2" \in b.mm.methods,
          keep |-> dense /\ dj_max < STRIP])))

builder_push_small_slice(mm, S) ==
    IF S.is_small2
    THEN [mm EXCEPT !.t16 = Even(@ \o [k \in DOMAIN S.L |-> Step(S.L, k) * I_MAX + S.L[k][2]]),
                    !.headers = Append(@, Header("small2", S.i0, S.i1, 0, Cols(mm), Len(S.L), 0)),
                    !.ncoeffs = @ + Len(S.L)]
    ELSE For(0, Ceil(Cols(mm), STRIP) - 1,
             [mm EXCEPT !.headers = Append(@, Header("small1", S.i0, S.i1, 0, Cols(mm), Len(S.L), Ceil(Cols(mm), STRIP))),
                        !.ncoeffs = @ + Len(S.L)], LAMBDA u, m :
             Then(SelectSeq(S.L, LAMBDA e : e[1] \div STRIP = u), LAMBDA lv :
                  [m EXCEPT !.t16 = @ \o Pairs([k \in DOMAIN lv |-> <<lv[k][1] % STRIP, lv[k][2]>>]),
                            !.headers = Append(@, Header("small1v", S.i0, S.i1, u * STRIP,
                                                         Lower((u + 1) * STRIP, Cols(mm)), Len(lv), 0))]))

builder_do_all_small_slices(b, npack) ==
    Then(Ceil(Rows(b.mm), npack), LAMBDA n :
    Then(While(<<0, b, TRUE>>, LAMBDA t : t[1] < n /\ t[3], LAMBDA t :
               Then(builder_do_small_slice(t[2], (t[1] * Rows(b.mm)) \div n, ((t[1] + 1) * Rows(b.mm)) \div n), LAMBDA S :
                    IF S.keep THEN <<t[1] + 1, [t[2] EXCEPT !.mm = builder_push_small_slice(@, S),
                                                            !.rowhead = @ + S.i1 - S.i0], TRUE>>
                    ELSE <<t[1], t[2], FALSE>>)),
         LAMBDA t : [t[2] EXCEPT !.i0 = (t[1] * Rows(b.mm)) \div n]))

(* Column steps above BYTE are made with pairs of padding coefficients, which   *)
(* add the same thing to row 0 twice.                                          *)
Pads(step) == IF step > BYTE THEN (step - 1) \div BYTE ELSE 0
Padding(p) == [k \in 1 .. 2 * p |-> IF k % 2 = 1 THEN <<BYTE, 0>> ELSE <<0, 0>>]

(* A slice as one block: the dispatching pairs (dj, bucket), the row in each     *)
(* bucket, the coefficients and the paddings of every column.                   *)
LargeRaw(L, ncols) ==
    For(1, Len(L), [main |-> <<>>, ind |-> [w \in 0 .. (NB - 1) |-> <<>>],
                    col_sizes |-> [j \in 0 .. (ncols - 1) |-> 0], pad_sizes |-> [j \in 0 .. (ncols - 1) |-> 0]],
        LAMBDA k, R :
            Then(<<Pads(Step(L, k)), L[k][2] \div RB>>, LAMBDA p :
                 [main |-> R.main \o Padding(p[1]) \o <<<<Step(L, k) - p[1] * BYTE, p[2]>>>>,
                  ind |-> [w \in 0 .. (NB - 1) |-> R.ind[w] \o (IF w = 0 THEN Zeros(2 * p[1]) ELSE <<>>)
                                                        \o (IF w = p[2] THEN <<L[k][2] % RB>> ELSE <<>>)],
                  col_sizes |-> [R.col_sizes EXCEPT ![L[k][1]] = @ + 1],
                  pad_sizes |-> [R.pad_sizes EXCEPT ![L[k][1]] = @ + p[1]]]))

Count(s, w) == Cardinality({k \in DOMAIN s : s[k] = w})
Counts(s, n) == [k \in 1 .. n |-> Count(s, k - 1)]
Second(s) == [k \in DOMAIN s |-> s[k][2]]

(* ind_sizes bytes from every bucket, in order: what is read and the pointers after it *)
TakeBuckets(ind, ip, sizes) ==
    For(0, NB - 1, [q |-> <<>>, ip |-> ip], LAMBDA w, r :
        [q |-> r.q \o SubSeq(ind[w], r.ip[w] + 1, r.ip[w] + sizes[w + 1]), ip |-> [r.ip EXCEPT ![w] = @ + sizes[w + 1]]])

(* The columns of a block are those whose coefficients fit in the scratch.  A    *)
(* block but the first starts on its first column: its padding is cancelled.   *)
split_large_slice_in_vblocks(R, ncols, scratch1size) ==
    While([j |-> 0, mp |-> 0, ip |-> [w \in 0 .. (NB - 1) |-> 0], vbl |-> <<>>],
          LAMBDA v : v.j < ncols, LAMBDA v :
          Then(While(<<v.j, 0, 0>>,
                     LAMBDA c : c[1] < ncols /\ c[2] + R.col_sizes[c[1]] + 2 * (c[3] + R.pad_sizes[c[1]]) <= scratch1size,
                     LAMBDA c : <<c[1] + 1, c[2] + R.col_sizes[c[1]], c[3] + R.pad_sizes[c[1]]>>), LAMBDA c :
          Then(While(<<v.mp, c[2] + 2 * c[3]>>,
                     LAMBDA s : v.vbl /= <<>> /\ s[2] >= 2 /\ SubSeq(R.main, s[1] + 1, s[1] + 2) = Padding(1),
                     LAMBDA s : <<s[1] + 2, s[2] - 2>>), LAMBDA s :
          Then(SubSeq(R.main, s[1] + 1, s[1] + s[2]), LAMBDA block :
          Then(Counts(Second(block), NB), LAMBDA sizes :
          Then(TakeBuckets(R.ind, v.ip, sizes), LAMBDA t :
               [j |-> c[1], mp |-> s[1] + s[2], ip |-> t.ip,
                vbl |-> Append(v.vbl,
                    [t8 |-> Pairs(IF v.vbl /= <<>> THEN [block EXCEPT ![1][1] = 0] ELSE block) \o t.q,
                     aux |-> <<c[1] - v.j, s[2]>> \o sizes])])))))).vbl

builder_do_large_slice(b, i0, i1, scratch1size) ==
    Then(do_partial_transpose(b.data, b.rowhead, Cols(b.mm), i1 - i0), LAMBDA L :
         IF Cols(b.mm) > 3 * Len(L) /\ Rows(b.mm) - i0 >= HUGE_MIN * NB * RB THEN [keep |-> FALSE]
         ELSE [keep |-> TRUE, i0 |-> i0, i1 |-> i1, ncoeffs |-> Len(L),
               vbl |-> Then(LargeRaw(L, Cols(b.mm)),
                            LAMBDA R : split_large_slice_in_vblocks(R, Cols(b.mm), scratch1size))])

builder_push_large_slice(mm, S) ==
    For(1, Len(S.vbl),
        [mm EXCEPT !.headers = Append(@, Header("large", S.i0, S.i1, 0, Cols(mm), S.ncoeffs, Len(S.vbl))),
                   !.ncoeffs = @ + S.ncoeffs],
        LAMBDA k, m : [m EXCEPT !.aux = @ \o S.vbl[k].aux, !.t8 = @ \o Even(S.vbl[k].t8)])

builder_do_all_large_slices(b, scratch1size) ==
    Then(<<Rows(b.mm) - b.i0, Ceil(Rows(b.mm) - b.i0, NB * RB)>>, LAMBDA r :
    Then(While(<<0, b, TRUE>>, LAMBDA t : t[1] < r[2] /\ t[3], LAMBDA t :
               Then(builder_do_large_slice(t[2], b.i0 + ((t[1] * r[1]) \div r[2]),
                                           b.i0 + (((t[1] + 1) * r[1]) \div r[2]), scratch1size), LAMBDA S :
                    IF S.keep THEN <<t[1] + 1, [t[2] EXCEPT !.mm = builder_push_large_slice(@, S),
                                                            !.rowhead = @ + S.i1 - S.i0], TRUE>>
                    ELSE <<t[1], t[2], FALSE>>)),
         LAMBDA t : [t[2] EXCEPT !.i0 = IF r[2] = 0 THEN @ ELSE @ + ((t[1] * r[1]) \div r[2])]))

(* huge: nlarge slices of lsize rows at once, dispatched first to a slice and    *)
(* then to a bucket of it.                                                     *)
HugeRaw(L, nlarge, lsize, ncols) ==
    For(1, Len(L), [super |-> <<>>, main |-> [w \in 0 .. (nlarge - 1) |-> <<>>],
                    ind |-> [w \in 0 .. (nlarge - 1) |-> [k \in 0 .. (NB - 1) |-> <<>>]],
                    col_sizes |-> [j \in 0 .. (ncols - 1) |-> 0], pad_sizes |-> [j \in 0 .. (ncols - 1) |-> 0]],
        LAMBDA k, R :
            Then(<<Pads(Step(L, k)), L[k][2] \div lsize, (L[k][2] % lsize) \div RB, (L[k][2] % lsize) % RB>>, LAMBDA p :
            Then([R EXCEPT !.super = @ \o Padding(p[1]) \o <<<<Step(L, k) - p[1] * BYTE, p[2]>>>>,
                           !.main[0] = @ \o Zeros(2 * p[1]), !.ind[0][0] = @ \o Zeros(2 * p[1]),
                           !.col_sizes[L[k][1]] = @ + 1, !.pad_sizes[L[k][1]] = @ + p[1]], LAMBDA Q :
                 [Q EXCEPT !.main[p[2]] = Append(@, p[3]), !.ind[p[2]][p[3]] = Append(@, p[4])])))

(* A block ends at the beginning of the column in which a slice would exceed its *)
(* share of the scratch.                                                       *)
HugeBlockEnd(R, v, nlarge, ncols, share) ==
    Then(While([j |-> v.j, j1 |-> v.j, sp |-> v.sp, spc |-> v.sp, sizes |-> [w \in 0 .. (nlarge - 1) |-> 0], full |-> FALSE],
               LAMBDA t : ~t.full /\ t.j < ncols /\ t.sp < Len(R.super), LAMBDA t :
               Then(IF t.sp = v.sp /\ v.vbl /= <<>> THEN <<0, Get(R.super, t.sp)[2]>> ELSE Get(R.super, t.sp), LAMBDA e :
               Then([t EXCEPT !.j = @ + e[1], !.j1 = IF e[1] > 0 THEN t.j + e[1] ELSE @,
                              !.spc = IF e[1] > 0 THEN t.sp ELSE @, !.sizes[e[2]] = @ + 1], LAMBDA u :
                    IF u.sizes[e[2]] > share THEN [u EXCEPT !.full = TRUE, !.sp = u.spc]
                    ELSE [u EXCEPT !.sp = @ + 1]))),
         LAMBDA t : IF t.sp = Len(R.super) THEN <<Len(R.super), ncols>> ELSE <<t.spc, t.j1>>)

split_huge_slice_in_vblocks(R, nlarge, ncols, scratch2size) ==
    While([j |-> 0, sp |-> 0, mp |-> [w \in 0 .. (nlarge - 1) |-> 0],
           ip |-> [w \in 0 .. (nlarge - 1) |-> [k \in 0 .. (NB - 1) |-> 0]], vbl |-> <<>>],
          LAMBDA v : v.j < ncols, LAMBDA v :
          Then(HugeBlockEnd(R, v, nlarge, ncols, scratch2size \div HUGE_MAX), LAMBDA e :
          Then(SubSeq(R.super, v.sp + 1, e[1]), LAMBDA raw :
          Then(IF v.vbl /= <<>> /\ raw /= <<>> THEN [raw EXCEPT ![1][1] = 0] ELSE raw, LAMBDA block :
          Then(Counts(Second(block), nlarge), LAMBDA sizes :
          Then(For(0, nlarge - 1, [t8 |-> Pairs(block), aux |-> <<e[2] - v.j, Len(block)>> \o sizes, mp |-> v.mp, ip |-> v.ip],
                   LAMBDA w, r :
                   Then(SubSeq(R.main[w], r.mp[w] + 1, r.mp[w] + sizes[w + 1]), LAMBDA part :
                   Then(TakeBuckets(R.ind[w], r.ip[w], Counts(part, NB)), LAMBDA t :
                        [t8 |-> r.t8 \o part \o t.q, aux |-> r.aux \o Counts(part, NB),
                         mp |-> [r.mp EXCEPT ![w] = @ + Len(part)], ip |-> [r.ip EXCEPT ![w] = t.ip]]))), LAMBDA r :
               [j |-> e[2], sp |-> e[1], mp |-> r.mp, ip |-> r.ip,
                vbl |-> Append(v.vbl, [t8 |-> r.t8, aux |-> r.aux])])))))).vbl

builder_do_huge_slice(b, i0, i1, scratch2size) ==
    Then(Ceil(i1 - i0, NB * RB), LAMBDA nlarge :
    Then(do_partial_transpose(b.data, b.rowhead, Cols(b.mm), i1 - i0), LAMBDA L :
    Then(HugeRaw(L, nlarge, Ceil(i1 - i0, nlarge), Cols(b.mm)), LAMBDA R :
         [i0 |-> i0, i1 |-> i1, ncoeffs |-> Len(L), nlarge |-> nlarge,
          vbl |-> split_huge_slice_in_vblocks(R, nlarge, Cols(b.mm), scratch2size)])))

builder_push_huge_slice(mm, S) ==
    For(1, Len(S.vbl),
        [mm EXCEPT !.headers = Append(@, Header("huge", S.i0, S.i1, 0, Cols(mm), S.ncoeffs, Len(S.vbl))),
                   !.aux = Append(@, S.nlarge), !.ncoeffs = @ + S.ncoeffs],
        LAMBDA k, m : [m EXCEPT !.aux = @ \o S.vbl[k].aux, !.t8 = @ \o S.vbl[k].t8])

builder_do_all_huge_slices(b, scratch2size) ==
    Then(<<Rows(b.mm) - b.i0, Ceil(Rows(b.mm) - b.i0, HUGE_MAX * NB * RB)>>, LAMBDA r :
    Then(For(0, r[2] - 1, b, LAMBDA s, t :
             Then(builder_do_huge_slice(t, b.i0 + ((s * r[1]) \div r[2]), b.i0 + (((s + 1) * r[1]) \div r[2]), scratch2size),
                  LAMBDA S : [t EXCEPT !.mm = builder_push_huge_slice(@, S), !.rowhead = @ + S.i1 - S.i0])),
         LAMBDA t : [t EXCEPT !.i0 = @ + r[1]]))

(* vsc, the staircase: vertical strips, and steps of rows that are flushed once   *)
(* in defer strips; sparser rows are deferred longer.                           *)
when_flush(k, nv, defer) == Lower(k - (k % defer) + defer - 1, nv - 1)
flush_here(k, nv, defer) == k = when_flush(k, nv, defer)

(* From every strip up to once in min(255, nvstrips), the frequency divided by  *)
(* FLUSHFREQ_RATIO, 1.7, from one to the next.                                  *)
flush_periods(nv) ==
    While([fp |-> <<>>, nf |-> 1], LAMBDA t : t.fp = <<>> \/ t.fp[1] > 1, LAMBDA t :
          Then(Lower(255, Ceil(nv, t.nf)), LAMBDA quo :
               [fp |-> IF t.fp = <<>> \/ quo < t.fp[1] THEN <<quo>> \o t.fp ELSE t.fp,
                nf |-> Larger(t.nf + 1, (17 * t.nf) \div 10)])).fp

rowblock_weights(b) ==
    [k \in 1 .. Ceil(Rows(b.mm) - b.i0, ROW_BATCH) |->
        For(0, ROW_BATCH - 1, 0, LAMBDA di, w :
            IF b.i0 + (k - 1) * ROW_BATCH + di < Rows(b.mm) THEN w + Len(b.data[b.rowhead + (k - 1) * ROW_BATCH + di]) ELSE w)]

(* One pass that goes to the next period at the batch that is too light for the *)
(* present one, and one that merges short steps into a neighbour.              *)
StairSteps(bw, fp, nv, i0, i1) ==
    For(0, Len(bw), [steps |-> <<>>, s |-> 1, ii |-> i0], LAMBDA k, t :
        IF k = Len(bw) \/ (t.s < Len(fp) /\ bw[k + 1] < (ROW_BATCH * nv) \div fp[t.s])
        THEN Then(Lower(i0 + k * ROW_BATCH, i1), LAMBDA ii :
                  [steps |-> IF ii > t.ii THEN Append(t.steps, [defer |-> fp[t.s], nrows |-> ii - t.ii]) ELSE t.steps,
                   s |-> t.s + 1, ii |-> ii])
        ELSE t).steps

RemoveStep(steps, k) == SubSeq(steps, 1, k - 1) \o SubSeq(steps, k + 1, Len(steps))

MergeSteps(steps) ==
    While(<<1, steps>>, LAMBDA t : t[1] <= Len(t[2]), LAMBDA t :
          Then(t[2][t[1]].nrows, LAMBDA w :
               IF w > MERGE_ROWS \/ Len(t[2]) = 1 THEN <<t[1] + 1, t[2]>>
               ELSE IF t[1] < Len(t[2])
                    THEN <<t[1], [RemoveStep(t[2], t[1]) EXCEPT ![t[1]].nrows = @ + w]>>
                    ELSE <<t[1], [RemoveStep(t[2], t[1]) EXCEPT ![t[1] - 1].nrows = @ + w]>>))[2]

compute_staircase(b, nv) ==
    Then(rowblock_weights(b), LAMBDA bw : MergeSteps(StairSteps(bw, flush_periods(nv), nv, b.i0, Rows(b.mm))))

(* x[d, s] is what strip d dispatches for step s, c[d, s] how the rows of the step *)
(* are combined at the flush in d: 1 + (strip in the batch), or 0 at the end of  *)
(* a row.                                                                      *)
FillRow(V, s, row) ==
    Then(For(1, Len(row), V, LAMBDA k, t :
             Then(<<row[k] \div V.width, V.steps[s].defer>>, LAMBDA e :
                  [t EXCEPT !.x[e[1], s] = Append(@, row[k] % V.width),
                            !.c[when_flush(e[1], V.nv, e[2]), s] = Append(@, 1 + (e[1] % e[2]))])), LAMBDA t :
         [t EXCEPT !.c = [e \in DOMAIN @ |-> IF e[2] = s /\ flush_here(e[1], V.nv, V.steps[s].defer)
                                             THEN Append(@[e], 0) ELSE @[e]]])

TbufSpace(V, s) ==
    1 + For(0, V.nv - 1, <<0, 0>>, LAMBDA d, t :
            Then(Len(V.x[d, s]) + (IF d % V.steps[s].defer = 0 THEN 0 ELSE t[1]),
                 LAMBDA cm : <<cm, Larger(t[2], cm)>>))[2]

vsc_fill_buffers(b, V) ==
    For(1, Len(V.steps), [V |-> V, i |-> b.rowhead, spaces |-> <<>>], LAMBDA s, t :
        Then(For(t.i, t.i + V.steps[s].nrows - 1, t.V, LAMBDA i, W : FillRow(W, s, b.data[i])),
             LAMBDA W : [V |-> W, i |-> t.i + V.steps[s].nrows, spaces |-> Append(t.spaces, TbufSpace(W, s))]))

builder_prepare_vsc_slices(b) ==
    Then(Ceil(Cols(b.mm), STRIP), LAMBDA nv :
    Then(compute_staircase(b, nv), LAMBDA steps :
    Then(vsc_fill_buffers(b, [nv |-> nv, width |-> Ceil(Cols(b.mm), nv), steps |-> steps,
                              x |-> [e \in (0 .. (nv - 1)) \X (1 .. Len(steps)) |-> <<>>],
                              c |-> [e \in (0 .. (nv - 1)) \X (1 .. Len(steps)) |-> <<>>]]), LAMBDA t :
         t.V @@ [spaces |-> t.spaces, tbuf_space |-> For(1, Len(steps), 0, LAMBDA s, w : w + t.spaces[s])])))

(* All headers, the payload strip by strip, and where each batch is combined: in *)
(* the order of the flushes, and for the transposed product in that of the       *)
(* first strips.                                                              *)
StepStart(V, i0, s) == For(1, s - 1, i0, LAMBDA l, i : i + V.steps[l].nrows)
Grid(V) == [k \in 1 .. V.nv * Len(V.steps) |-> <<(k - 1) \div Len(V.steps), 1 + ((k - 1) % Len(V.steps))>>]
FlushGrid(V) == SelectSeq(Grid(V), LAMBDA e : flush_here(e[1], V.nv, V.steps[e[2]].defer))

VscHeaders(mm, V, i0) ==
    LET sub(e, t, n, j0) == Header(t, StepStart(V, i0, e[2]), StepStart(V, i0, e[2] + 1), j0,
                                   Lower((e[1] + 1) * V.width, Cols(mm)), n, 0)
        total(lo, hi, s) == For(lo, hi, 0, LAMBDA d, n : n + Len(V.x[d, s]))
    IN  <<Header("defer", i0, Rows(mm), 0, Cols(mm), For(1, Len(V.steps), 0, LAMBDA s, n : n + total(0, V.nv - 1, s)), V.nv)>>
        \o [d \in 1 .. V.nv |-> Header("d-col", i0, Rows(mm), (d - 1) * V.width, Lower(d * V.width, Cols(mm)),
                                       For(1, Len(V.steps), 0, LAMBDA s, n : n + Len(V.x[d - 1, s])), Len(V.steps))]
        \o [k \in 1 .. Len(Grid(V)) |-> sub(Grid(V)[k], "d-dis", Len(V.x[Grid(V)[k]]), Grid(V)[k][1] * V.width)]
        \o [s \in 1 .. Len(V.steps) |-> Header("d-row", StepStart(V, i0, s), StepStart(V, i0, s + 1), 0, Cols(mm),
                                               total(0, V.nv - 1, s), 0)]
        \o Then(FlushGrid(V), LAMBDA G : [k \in DOMAIN G |->
               Then(G[k][1] - (G[k][1] % V.steps[G[k][2]].defer), LAMBDA k0 :
                    sub(G[k], "d-cmb", total(k0, G[k][1], G[k][2]), k0 * V.width))])

Concat(n, f(_)) == For(1, n, <<>>, LAMBDA k, s : s \o f(k))

VscPlaces(V) ==
    Then(FlushGrid(V), LAMBDA G :
    Then(For(1, Len(G), [at |-> <<>>, p8 |-> 0], LAMBDA k, t :
             [at |-> Append(t.at, t.p8), p8 |-> t.p8 + Len(V.c[G[k]])]), LAMBDA places :
         <<2 * Len(G) + 1>>
         \o Concat(Len(Grid(V)), LAMBDA g :
                   Then(Grid(V)[g], LAMBDA e :
                        IF e[1] % V.steps[e[2]].defer /= 0 THEN <<>>
                        ELSE Then(<<when_flush(e[1], V.nv, V.steps[e[2]].defer), e[2]>>, LAMBDA f :
                                  <<places.at[CHOOSE k \in DOMAIN G : G[k] = f], Len(V.c[f])>>)))
         \o <<places.p8>>))

builder_push_vsc_slices(mm, V, i0) ==
    [mm EXCEPT !.headers = @ \o VscHeaders(mm, V, i0),
               !.aux = @ \o <<V.nv, Len(V.steps)>> \o Concat(Len(V.steps), LAMBDA s : <<V.steps[s].defer, V.spaces[s]>>)
                         \o VscPlaces(V),
               !.t16 = @ \o Concat(Len(Grid(V)), LAMBDA g : V.x[Grid(V)[g]]),
               !.t8 = @ \o Then(FlushGrid(V), LAMBDA G : Concat(Len(G), LAMBDA g : V.c[G[g]])),
               !.scratch3size = V.tbuf_space,
               !.ncoeffs = @ + For(1, Len(Grid(V)), 0, LAMBDA g, n : n + Len(V.x[Grid(V)[g]]))]

(* mm_finish_init walks over the streams as the product does, and allocates the  *)
(* scratch; it does not go through the staircase.                               *)
matmul_bucket_build_cache(mm, data) ==
    Then(IF {"small1", "small2"} \cap mm.methods /= {}
         THEN builder_do_all_small_slices(builder_init(mm, data), mm.npack) ELSE builder_init(mm, data), LAMBDA b1 :
    Then(IF "large" \in mm.methods THEN builder_do_all_large_slices(b1, mm.scratch1size) ELSE b1, LAMBDA b2 :
    Then(IF "vsc" \in mm.methods /\ b2.i0 < Rows(mm)
         THEN Then(builder_prepare_vsc_slices(b2), LAMBDA V : builder_push_vsc_slices(b2.mm, V, b2.i0)) ELSE b2.mm, LAMBDA m3 :
         IF "huge" \in mm.methods /\ b2.i0 < Rows(mm) THEN builder_do_all_huge_slices(b2, mm.scratch2size).mm ELSE m3)))

(* The product.  m holds the vectors, the scratch areas and the cursors.         *)
Add(f, a, v) == [f EXCEPT ![a] = Xor(@, v)]
Clear(f, lo, n) == [a \in DOMAIN f |-> IF lo <= a /\ a < lo + n THEN {} ELSE f[a]]

(* "first to come, first to clear" *)
\* Mutant of FirstClears: every vertical block clears, not only the first.
EveryBlockClears(m, h, usual) ==
    [m EXCEPT !.dst = IF usual THEN Clear(@, h.i0, h.i1 - h.i0) ELSE Clear(@, h.j0, h.j1 - h.j0)]
FirstClears(m, h, usual) ==
    IF (IF usual THEN h.j0 ELSE h.i0) /= 0 THEN m
    ELSE [m EXCEPT !.dst = IF usual THEN Clear(@, h.i0, h.i1 - h.i0) ELSE Clear(@, h.j0, h.j1 - h.j0)]

matmul_sub_small1(m, t16, h, usual) ==
    For(1, h.ncoeffs, m, LAMBDA c, r :
        Then(<<h.j0 + Get(t16, r.q16), h.i0 + Get(t16, r.q16 + 1)>>, LAMBDA e :
             [r EXCEPT !.dst = IF usual THEN Add(@, e[2], m.src[e[1]]) ELSE Add(@, e[1], m.src[e[2]]), !.q16 = @ + 2]))

matmul_sub_small2(m, t16, h, usual) ==
    For(1, h.ncoeffs, <<m, 0>>, LAMBDA c, r :
        Then(<<r[2] + (Get(t16, r[1].q16) \div I_MAX), h.i0 + (Get(t16, r[1].q16) % I_MAX)>>, LAMBDA e :
             <<[r[1] EXCEPT !.dst = IF usual THEN Add(@, e[2], m.src[e[1]]) ELSE Add(@, e[1], m.src[e[2]]),
                            !.q16 = @ + 1], e[1]>>))[1]

matmul_bucket_mul_small2(mm, h, m, usual) ==
    Then(matmul_sub_small2(FirstClears(m, h, usual), mm.t16, h, usual),
         LAMBDA r : [r EXCEPT !.q16 = @ + (h.ncoeffs % 2)])

matmul_bucket_mul_small1(mm, hdr, m, usual) ==
    For(hdr + 1, hdr + mm.headers[hdr].nchildren, m, LAMBDA c, r :
        matmul_sub_small1(FirstClears(r, mm.headers[c], usual), mm.t16, mm.headers[c], usual))

(* Where each of n buckets begins, its lengths being at ql. *)
prepare_buckets(aux, ql, n) ==
    For(0, n - 1, [b |-> [k \in 0 .. (n - 1) |-> 0], z |-> 0], LAMBDA k, t :
        [b |-> [t.b EXCEPT ![k] = t.z], z |-> t.z + Get(aux, ql + k)]).b

(* Fill buckets indirectly: a column step, the bucket. *)
matmul_sub_large_fbi(b, scratch, src, z0, t8, q, n) ==
    For(0, n - 1, [b |-> b, scratch |-> scratch, z |-> z0], LAMBDA c, t :
        Then(<<t.z + Get(t8, q + 2 * c), Get(t8, q + 2 * c + 1)>>, LAMBDA e :
             [b |-> [t.b EXCEPT ![e[2]] = @ + 1], scratch |-> [t.scratch EXCEPT ![t.b[e[2]]] = src[e[1]]], z |-> e[1]])).scratch

matmul_sub_large_fbi_tr(b, scratch, dst, z0, t8, q, n) ==
    For(0, n - 1, [b |-> b, dst |-> dst, z |-> z0], LAMBDA c, t :
        Then(<<t.z + Get(t8, q + 2 * c), Get(t8, q + 2 * c + 1)>>, LAMBDA e :
             [b |-> [t.b EXCEPT ![e[2]] = @ + 1], dst |-> Add(t.dst, e[1], scratch[t.b[e[2]]]), z |-> e[1]])).dst

(* Apply the small buckets: bucket k holds what goes to the rows from 256 k on. *)
matmul_sub_large_asb(dst, base, scratch, t8, q, aux, ql) ==
    For(0, NB - 1, <<dst, 0>>, LAMBDA k, r :
        For(1, Get(aux, ql + k), r, LAMBDA l, t :
            <<Add(t[1], base + RB * k + Get(t8, q + t[2]), scratch[t[2]]), t[2] + 1>>))[1]

matmul_sub_large_asb_tr(src, base, scratch, t8, q, aux, ql) ==
    For(0, NB - 1, <<scratch, 0>>, LAMBDA k, r :
        For(1, Get(aux, ql + k), r, LAMBDA l, t :
            <<[t[1] EXCEPT ![t[2]] = src[base + RB * k + Get(t8, q + t[2])]], t[2] + 1>>))[1]

(* Fill buckets directly, from or to the place z of the second scratch. *)
matmul_sub_large_fbd(b, scratch, from, z, t8, q, n) ==
    For(0, n - 1, [b |-> b, scratch |-> scratch], LAMBDA c, t :
        Then(Get(t8, q + c), LAMBDA k :
             [b |-> [t.b EXCEPT ![k] = @ + 1], scratch |-> [t.scratch EXCEPT ![t.b[k]] = from[z + c]]])).scratch

matmul_sub_large_fbd_tr(b, scratch, to, z, t8, q, n) ==
    For(0, n - 1, [b |-> b, to |-> to], LAMBDA c, t :
        Then(Get(t8, q + c), LAMBDA k :
             [b |-> [t.b EXCEPT ![k] = @ + 1], to |-> [t.to EXCEPT ![z + c] = scratch[t.b[k]]]])).to

LargeBlock(mm, h, r, j, usual) ==
    Then(<<Get(mm.aux, r.ql), Get(mm.aux, r.ql + 1), prepare_buckets(mm.aux, r.ql + 2, NB)>>, LAMBDA e :
    Then(IF usual
         THEN Then(matmul_sub_large_fbi(e[3], r.scratch1, r.src, j, mm.t8, r.q8, e[2]), LAMBDA s :
                   [r EXCEPT !.scratch1 = s, !.dst = matmul_sub_large_asb(@, h.i0, s, mm.t8, r.q8 + 2 * e[2], mm.aux, r.ql + 2)])
         ELSE Then(matmul_sub_large_asb_tr(r.src, h.i0, r.scratch1, mm.t8, r.q8 + 2 * e[2], mm.aux, r.ql + 2), LAMBDA s :
                   [r EXCEPT !.scratch1 = s, !.dst = matmul_sub_large_fbi_tr(e[3], s, @, j, mm.t8, r.q8, e[2])]), LAMBDA t :
         <<j + e[1], [t EXCEPT !.q8 = @ + 3 * e[2] + (e[2] % 2), !.ql = @ + 2 + NB]>>))

matmul_bucket_mul_large(mm, h, m, usual) ==
    While(<<0, FirstClears(m, h, usual)>>, LAMBDA t : t[1] < Cols(mm), LAMBDA t : LargeBlock(mm, h, t[2], t[1], usual))[2]

(* In a huge slice the source is spread over the slices in the second scratch, and *)
(* from there, slice by slice, over the buckets in the first; or the other way   *)
(* round.  q8 is at the bytes of the slice k, and fill is where its share begins. *)
HugeParts(mm, h, r, nlarge, Lsizes, usual) ==
    Then(<<Ceil(h.i1 - h.i0, nlarge), prepare_buckets(mm.aux, Lsizes, nlarge)>>, LAMBDA p :
    For(0, nlarge - 1, r, LAMBDA k, t :
        Then(<<Get(mm.aux, Lsizes + k), prepare_buckets(mm.aux, t.ql, NB)>>, LAMBDA e :
        Then(IF usual
             THEN Then(matmul_sub_large_fbd(e[2], t.scratch1, t.scratch2, p[2][k], mm.t8, t.q8, e[1]), LAMBDA s :
                       [t EXCEPT !.scratch1 = s,
                                 !.dst = matmul_sub_large_asb(@, h.i0 + k * p[1], s, mm.t8, t.q8 + e[1], mm.aux, t.ql)])
             ELSE Then(matmul_sub_large_asb_tr(t.src, h.i0 + k * p[1], t.scratch1, mm.t8, t.q8 + e[1], mm.aux, t.ql), LAMBDA s :
                       [t EXCEPT !.scratch1 = s,
                                 !.scratch2 = matmul_sub_large_fbd_tr(e[2], s, @, p[2][k], mm.t8, t.q8, e[1])]), LAMBDA u :
             [u EXCEPT !.q8 = @ + 2 * e[1], !.ql = @ + NB]))))

HugeBlock(mm, h, r, j, nlarge, usual) ==
    Then(<<Get(mm.aux, r.ql), Get(mm.aux, r.ql + 1), r.ql + 2>>, LAMBDA e :
    Then(prepare_buckets(mm.aux, e[3], nlarge), LAMBDA b :
    Then([r EXCEPT !.q8 = @ + 2 * e[2], !.ql = @ + 2 + nlarge,
                   !.scratch2 = IF usual THEN matmul_sub_large_fbi(b, @, r.src, j, mm.t8, r.q8, e[2]) ELSE @], LAMBDA s :
    Then(HugeParts(mm, h, s, nlarge, e[3], usual), LAMBDA t :
         <<j + e[1], [t EXCEPT !.dst = IF usual THEN @ ELSE matmul_sub_large_fbi_tr(b, t.scratch2, @, j, mm.t8, r.q8, e[2])]>>))))

matmul_bucket_mul_huge(mm, h, m, usual) ==
    Then(Get(mm.aux, m.ql), LAMBDA nlarge :
    While(<<0, [FirstClears(m, h, usual) EXCEPT !.ql = @ + 1]>>, LAMBDA t : t[1] < Cols(mm),
          LAMBDA t : HugeBlock(mm, h, t[2], t[1], nlarge, usual))[2])

(* The staircase again, without its payload: strips, steps, the headers of the    *)
(* dispatched parts; hdr is past all of its headers, ql past the steps.          *)
rebuild_vsc_slice_skeleton(mm, hdr, ql) ==
    Then(<<Get(mm.aux, ql), Get(mm.aux, ql + 1)>>, LAMBDA n :
    Then([nv |-> n[1], dis |-> hdr + n[1] + 1,
          steps |-> [l \in 1 .. n[2] |->
              [defer |-> Get(mm.aux, ql + 2 * l), tbuf_space |-> Get(mm.aux, ql + 2 * l + 1),
               nrows |-> mm.headers[hdr + n[1] + l].i1 - mm.headers[hdr + n[1] + l].i0]]], LAMBDA V :
         V @@ [ql |-> ql + 2 + 2 * n[2], cmb |-> hdr + n[1] + n[1] * n[2] + n[2] + 1,
               hdr |-> hdr + n[1] + n[1] * n[2] + n[2] + 1 + Len(FlushGrid(V))]))

Dis(mm, V, k, l) == mm.headers[V.dis + k * Len(V.steps) + l - 1]

matmul_sub_vsc_dispatch(scratch, at, src, j0, t16, q, count) ==
    For(0, count - 1, scratch, LAMBDA c, s : [s EXCEPT ![at + c] = src[j0 + Get(t16, q + c)]])

matmul_sub_vsc_dispatch_tr(dst, j0, scratch, at, t16, q, count) ==
    For(0, count - 1, dst, LAMBDA c, s : Add(s, j0 + Get(t16, q + c), scratch[at + c]))

matmul_sub_vsc_combine(dst, i0, mptrs, scratch, t8, q, count) ==
    For(0, count - 1, [dst |-> dst, i |-> i0, m |-> mptrs], LAMBDA k, t :
        Then(Get(t8, q + k), LAMBDA c :
             [dst |-> Add(t.dst, t.i, scratch[t.m[c]]), i |-> IF c = 0 THEN t.i + 1 ELSE t.i,
              m |-> IF c = 0 THEN t.m ELSE [t.m EXCEPT ![c] = @ + 1]])).dst

matmul_sub_vsc_combine_tr(scratch, mptrs, src, i0, t8, q, count) ==
    For(0, count - 1, [scratch |-> scratch, i |-> i0, m |-> mptrs], LAMBDA k, t :
        Then(Get(t8, q + k), LAMBDA c :
             [scratch |-> [t.scratch EXCEPT ![t.m[c]] = src[t.i]], i |-> IF c = 0 THEN t.i + 1 ELSE t.i,
              m |-> IF c = 0 THEN t.m ELSE [t.m EXCEPT ![c] = @ + 1]])).scratch

(* The places of the strips k0 .. k1 in the buffer of step l; place 0 of the      *)
(* scratch is a dummy that holds zero.                                          *)
Mptrs(mm, V, base, k0, k1, l) ==
    [c \in 0 .. (k1 - k0 + 1) |->
        IF c = 0 THEN 0 ELSE For(k0, k0 + c - 2, base[l], LAMBDA k, q : q + Dis(mm, V, k, l).ncoeffs)]

VscStrip(mm, V, base, k, m) ==
    Then(For(1, Len(V.steps), m, LAMBDA l, r :
             Then(Dis(mm, V, k, l), LAMBDA S :
                  [r EXCEPT !.scratch3 = matmul_sub_vsc_dispatch(@, r.cptrs[l], r.src, S.j0, mm.t16, r.q16, S.ncoeffs),
                            !.q16 = @ + S.ncoeffs, !.cptrs[l] = @ + S.ncoeffs])), LAMBDA d :
    For(1, Len(V.steps), d, LAMBDA l, r :
        IF ~flush_here(k, V.nv, V.steps[l].defer) THEN r
        ELSE Then(<<Mptrs(mm, V, base, k - (k % V.steps[l].defer), k, l), mm.headers[r.cidx].ncoeffs + V.steps[l].nrows>>, LAMBDA e :
                  [r EXCEPT !.dst = matmul_sub_vsc_combine(@, Dis(mm, V, k, l).i0, e[1], r.scratch3, mm.t8, r.q8, e[2]),
                            !.q8 = @ + e[2], !.cidx = @ + 1, !.cptrs[l] = base[l]])))

(* Transposed, the buffers of a batch are filled before its first strip. *)
VscStripTr(mm, V, base, k, m) ==
    Then(For(1, Len(V.steps), m, LAMBDA l, r :
             IF k % V.steps[l].defer /= 0 THEN r
             ELSE [r EXCEPT !.scratch3 = matmul_sub_vsc_combine_tr(@,
                                Mptrs(mm, V, base, k, when_flush(k, V.nv, V.steps[l].defer), l), r.src,
                                Dis(mm, V, k, l).i0, mm.t8, r.q8 + Get(mm.aux, r.ql), Get(mm.aux, r.ql + 1)),
                            !.ql = @ + 2, !.cptrs[l] = base[l]]), LAMBDA d :
    For(1, Len(V.steps), d, LAMBDA l, r :
        Then(Dis(mm, V, k, l), LAMBDA S :
             [r EXCEPT !.dst = matmul_sub_vsc_dispatch_tr(@, S.j0, r.scratch3, r.cptrs[l], mm.t16, r.q16, S.ncoeffs),
                       !.q16 = @ + S.ncoeffs, !.cptrs[l] = @ + S.ncoeffs])))

matmul_bucket_mul_vsc(mm, hdr, m, usual) ==
    Then(rebuild_vsc_slice_skeleton(mm, hdr, m.ql), LAMBDA V :
    Then([l \in 1 .. Len(V.steps) |-> For(1, l - 1, 1, LAMBDA t, q : q + V.steps[t].tbuf_space)], LAMBDA base :
    Then([FirstClears(m, mm.headers[hdr], usual) EXCEPT !.scratch3 = [@ EXCEPT ![0] = {}], !.cptrs = base, !.cidx = V.cmb,
              !.ql = IF usual THEN V.ql + 1 + Get(mm.aux, V.ql) ELSE V.ql + 1], LAMBDA r :
         IF usual THEN For(0, V.nv - 1, r, LAMBDA k, t : VscStrip(mm, V, base, k, t))
         ELSE Then(For(0, V.nv - 1, r, LAMBDA k, t : VscStripTr(mm, V, base, k, t)),
                   LAMBDA t : [t EXCEPT !.q8 = @ + Get(mm.aux, t.ql), !.ql = @ + 1]))))

(* The last header of the envelope at hdr. *)
EnvelopeEnd(mm, hdr, ql) ==
    CASE mm.headers[hdr].t = "small1" -> hdr + mm.headers[hdr].nchildren
      [] mm.headers[hdr].t = "defer" -> rebuild_vsc_slice_skeleton(mm, hdr, ql).hdr - 1
      [] OTHER -> hdr

matmul_bucket_mul_loop(mm, m, usual) ==
    While(<<1, m>>, LAMBDA t : t[1] <= Len(mm.headers), LAMBDA t :
          Then(mm.headers[t[1]], LAMBDA h :
          Then(EnvelopeEnd(mm, t[1], t[2].ql), LAMBDA last :
          Then(CASE h.t = "small2" -> matmul_bucket_mul_small2(mm, h, t[2], usual)
                 [] h.t = "small1" -> matmul_bucket_mul_small1(mm, t[1], t[2], usual)
                 [] h.t = "large" -> matmul_bucket_mul_large(mm, h, t[2], usual)
                 [] h.t = "huge" -> matmul_bucket_mul_huge(mm, h, t[2], usual)
                 [] h.t = "defer" -> matmul_bucket_mul_vsc(mm, t[1], t[2], usual), LAMBDA r :
               <<last + 1, [r EXCEPT !.ok = @ /\ (h.t \in {"small1", "small2"} => t[2].i = h.i0),
                                     !.i = IF mm.headers[last].j1 = Cols(mm) THEN mm.headers[last].i1 ELSE @]>>))))[2]

matmul_bucket_mul(mm, dst, src, d) ==
    matmul_bucket_mul_loop(mm, [dst |-> IF Usual(mm, d) THEN dst ELSE Clear(dst, 0, Cols(mm)), src |-> src,
                                scratch1 |-> Junk(mm.scratch1size), scratch2 |-> Junk(mm.scratch2size),
                                scratch3 |-> Junk(mm.scratch3size), cptrs |-> <<>>, cidx |-> 0,
                                q16 |-> 0, q8 |-> 0, ql |-> 0, i |-> 0, ok |-> TRUE], Usual(mm, d))

(* mm_finish_init goes over the streams as the product will, up to the staircase. *)
mm_finish_init(mm) ==
    While([hdr |-> 1, q16 |-> 0, q8 |-> 0, ql |-> 0], LAMBDA t : t.hdr <= Len(mm.headers), LAMBDA t :
          Then(mm.headers[t.hdr], LAMBDA h :
          Then([t EXCEPT !.hdr = @ + 1], LAMBDA u :
               CASE h.t = "small1" -> u
                 [] h.t = "small1v" -> [u EXCEPT !.q16 = @ + 2 * h.ncoeffs]
                 [] h.t = "small2" -> [u EXCEPT !.q16 = @ + h.ncoeffs + (h.ncoeffs % 2)]
                 [] h.t = "large" ->
                      While(<<0, u>>, LAMBDA r : r[1] < Cols(mm), LAMBDA r :
                            Then(Get(mm.aux, r[2].ql + 1), LAMBDA n :
                                 <<r[1] + Get(mm.aux, r[2].ql), [r[2] EXCEPT !.q8 = @ + 3 * n + (n % 2), !.ql = @ + 2 + NB]>>))[2]
                 [] h.t = "huge" ->
                      Then(Get(mm.aux, t.ql), LAMBDA nlarge :
                      While(<<0, [u EXCEPT !.ql = @ + 1]>>, LAMBDA r : r[1] < Cols(mm), LAMBDA r :
                            <<r[1] + Get(mm.aux, r[2].ql), [r[2] EXCEPT !.q8 = @ + 4 * Get(mm.aux, r[2].ql + 1),
                                                                        !.ql = @ + 2 + nlarge + nlarge * NB]>>)[2])
                 [] h.t = "defer" ->
                      Then(rebuild_vsc_slice_skeleton(mm, t.hdr, t.ql), LAMBDA V : [u EXCEPT !.hdr = V.hdr, !.ql = V.ql]))))

(* Cache files are bytes, the low one of a number first. *)
Write(width, v) == [k \in 1 .. width |-> IF k > 3 THEN 0 ELSE (v \div 256 ^ (k - 1)) % 256]
WriteMany(width, s) == [k \in 1 .. width * Len(s) |-> Write(width, s[((k - 1) \div width) + 1])[((k - 1) % width) + 1]]
ReadAt(f, p, width) == For(0, Lower(width, 3) - 1, 0, LAMBDA k, v : v + 256 ^ k * f[p + k + 1])
ReadMany(f, p, width, n) == [k \in 1 .. n |-> ReadAt(f, p + (k - 1) * width, width)]

COMMON_MAGIC == 177
matmul_common_save_cache_fopen(mm, magic) ==
    WriteMany(4, <<magic, COMMON_MAGIC, 0, mm.stride, mm.dim[0], mm.dim[1]>>) \o Write(8, mm.ncoeffs)

(* The fields of the head, or nothing when the file is another one's. *)
matmul_common_reload_cache_fopen(mm, f, magic) ==
    IF ReadAt(f, 0, 4) /= magic \/ ReadAt(f, 4, 4) /= COMMON_MAGIC THEN <<>>
    ELSE <<[mm EXCEPT !.dim = [k \in {0, 1} |-> ReadAt(f, 16 + 4 * k, 4)], !.ncoeffs = ReadAt(f, 24, 8)]>>

matmul_basic_save_cache(mm) == matmul_common_save_cache_fopen(mm, 1) \o Write(4, Len(mm.q)) \o WriteMany(4, mm.q)
matmul_basic_reload_cache(mm, f) ==
    Then(matmul_common_reload_cache_fopen(mm, f, 1), LAMBDA r :
         [k \in DOMAIN r |-> [r[k] EXCEPT !.q = ReadMany(f, 36, 4, ReadAt(f, 32, 4))]])

matmul_sliced_save_cache(mm) == matmul_common_save_cache_fopen(mm, 2) \o Write(4, Len(mm.q)) \o WriteMany(2, mm.q)
matmul_sliced_reload_cache(mm, f) ==
    Then(matmul_common_reload_cache_fopen(mm, f, 2), LAMBDA r :
         [k \in DOMAIN r |-> [r[k] EXCEPT !.q = ReadMany(f, 36, 2, ReadAt(f, 32, 4))]])

(* A header is t (2 bytes), nchildren (1), 5 bytes of padding, the bounds and the *)
(* count; the padding at the end is written with other widths and reads as a    *)
(* header of type 0.                                                           *)
SliceTypes == <<"small1", "small1v", "small2", "large", "huge", "defer", "d-col", "d-dis", "d-row", "d-cmb">>
TypeNumber(t) == CHOOSE k \in DOMAIN SliceTypes : SliceTypes[k] = t
WriteHeader(h) ==
    Write(2, TypeNumber(h.t)) \o Write(1, h.nchildren) \o Zeros(5)
    \o WriteMany(4, <<h.i0, h.i1, h.j0, h.j1>>) \o Write(8, h.ncoeffs)

matmul_bucket_save_cache(mm) ==
    matmul_common_save_cache_fopen(mm, 3) \o Concat(Len(mm.headers), LAMBDA k : WriteHeader(mm.headers[k]))
    \o Write(2, 0) \o Write(2, 0) \o WriteMany(4, Zeros(5)) \o Write(8, 0)
    \o WriteMany(4, <<mm.scratch1size, mm.scratch2size, mm.scratch3size, Len(mm.t16), Len(mm.t8), Len(mm.aux)>>)
    \o WriteMany(2, mm.t16) \o mm.t8 \o WriteMany(4, mm.aux)

ReadHeader(f, p) ==
    Header(SliceTypes[ReadAt(f, p, 2)], ReadAt(f, p + 8, 4), ReadAt(f, p + 12, 4), ReadAt(f, p + 16, 4),
           ReadAt(f, p + 20, 4), ReadAt(f, p + 24, 8), ReadAt(f, p + 2, 1))

matmul_bucket_reload_cache(mm, f) ==
    Then(matmul_common_reload_cache_fopen(mm, f, 3), LAMBDA r :
         IF r = <<>> THEN <<>>
         ELSE Then(While(<<32, <<>>>>, LAMBDA t : ReadAt(f, t[1], 2) /= 0,
                         LAMBDA t : <<t[1] + 32, Append(t[2], ReadHeader(f, t[1]))>>), LAMBDA t :
              Then(<<t[1] + 32, ReadMany(f, t[1] + 32, 4, 6)>>, LAMBDA e :
                   <<[r[1] EXCEPT !.headers = t[2], !.scratch1size = e[2][1], !.scratch2size = e[2][2], !.scratch3size = e[2][3],
                                  !.t16 = ReadMany(f, e[1] + 24, 2, e[2][4]),
                                  !.t8 = ReadMany(f, e[1] + 24 + 2 * e[2][4], 1, e[2][5]),
                                  !.aux = ReadMany(f, e[1] + 24 + 2 * e[2][4] + e[2][5], 4, e[2][6])]>>)))

(* matmul.c keeps a copy of the cache file on a local disk.  A file is its data,  *)
(* whether it was written to the end, and its time; fs.now is the clock.       *)
SizeOf(file) == IF file.full THEN Len(file.data) ELSE 0

save_to_local_copy(fs, data, room, killed) ==
    IF ~room THEN fs ELSE [fs EXCEPT !.local = <<[data |-> data, full |-> ~killed, mtime |-> fs.now]>>]

matmul_save_cache(fs, data, room, killed) ==
    Then([fs EXCEPT !.normal = <<[data |-> data, full |-> killed /= "normal", mtime |-> fs.now]>>], LAMBDA t :
         IF killed = "normal" THEN t ELSE save_to_local_copy(t, data, room, killed = "local"))

(* The data that is loaded; <<>> without a file or, fatally, with a short one. *)
Load(file) == IF file # <<>> /\ file[1].full THEN <<file[1].data>> ELSE <<>>

matmul_reload_cache(fs, room) ==
    IF fs.normal = <<>> THEN [fs |-> fs, loaded |-> <<>>]
    ELSE IF fs.local /= <<>> /\ SizeOf(fs.local[1]) = SizeOf(fs.normal[1]) /\ fs.local[1].mtime >= fs.normal[1].mtime
         THEN [fs |-> fs, loaded |-> Load(fs.local)]
         ELSE [fs |-> IF Load(fs.normal) = <<>> THEN [fs EXCEPT !.local = <<>>]
                      ELSE save_to_local_copy([fs EXCEPT !.local = <<>>], fs.normal[1].data, room, FALSE),
               loaded |-> Load(fs.normal)]

(* What the checks compare with. *)
Unit(n) == [k \in 0 .. (n - 1) |-> {k}]
Times(A, nr, nc, d) ==
    IF d = 1 THEN [i \in 0 .. (nr - 1) |-> Elements(A[i])]
    ELSE [j \in 0 .. (nc - 1) |-> {i \in 0 .. (nr - 1) : j \in Elements(A[i])}]

Fresh(nr, nc, direction, params) ==
    matmul_init(nr, nc, direction, params @@ [q |-> <<>>, headers |-> <<>>, t16 |-> <<>>, t8 |-> <<>>, aux |-> <<>>,
                                               scratch3size |-> 0, stride |-> 8])

(* Both products are the products, whatever was in the vectors and the scratch     *)
(* before, the streams are read to their ends, and a cache file brings back what  *)
(* was saved.                                                                  *)
BasicOk(A, nr, nc, fresh) ==
    Then(matmul_basic_build_cache(fresh, matmul_common_read_stupid_data(fresh, A)), LAMBDA mm :
         /\ \A d \in {0, 1} : matmul_basic_mul(mm, Junk(mm.dim[1 - d]), Unit(mm.dim[d]), d) = Times(A, nr, nc, d)
         /\ matmul_basic_reload_cache(fresh, matmul_basic_save_cache(mm)) = <<mm>>)

SlicedOk(A, nr, nc, fresh) ==
    Then(matmul_sliced_build_cache(fresh, matmul_common_read_stupid_data(fresh, A)), LAMBDA mm :
         /\ \A d \in {0, 1} : matmul_sliced_mul(mm, Junk(mm.dim[1 - d]), Unit(mm.dim[d]), d) = Times(A, nr, nc, d)
         /\ matmul_sliced_reload_cache(fresh @@ [head |-> 0], matmul_sliced_save_cache(mm)) = <<[mm EXCEPT !.head = 0]>>)

BucketOk(A, nr, nc, fresh) ==
    Then(matmul_bucket_build_cache(fresh, matmul_common_read_stupid_data(fresh, A)), LAMBDA mm :
         /\ \A d \in {0, 1} :
                Then(matmul_bucket_mul(mm, Junk(mm.dim[1 - d]), Unit(mm.dim[d]), d), LAMBDA m :
                     /\ m.dst = Times(A, nr, nc, d) /\ m.ok
                     /\ m.q16 = Len(mm.t16) /\ m.q8 = Len(mm.t8) /\ m.ql = Len(mm.aux))
         /\ "vsc" \notin mm.methods => mm_finish_init(mm) = [hdr |-> Len(mm.headers) + 1, q16 |-> Len(mm.t16),
                                                             q8 |-> Len(mm.t8), ql |-> Len(mm.aux)]
         /\ matmul_bucket_reload_cache(fresh, matmul_bucket_save_cache(mm)) = <<mm>>)

(* A history is a sequence of saves (room on the local disk, where it was killed)  *)
(* and reloads, each later than the one before.  A reload gives what was saved    *)
(* last, and fails only when that was not saved to the end.                     *)
CopiesOk(history) ==
    For(1, Len(history), [fs |-> [normal |-> <<>>, local |-> <<>>, now |-> 0], last |-> <<>>, ok |-> TRUE], LAMBDA k, t :
        Then(<<history[k], [t.fs EXCEPT !.now = k]>>, LAMBDA e :
             IF e[1].op = "reload"
             THEN Then(matmul_reload_cache(e[2], e[1].room), LAMBDA r : [t EXCEPT !.fs = r.fs, !.ok = @ /\ r.loaded = t.last])
             ELSE [t EXCEPT !.fs = matmul_save_cache(e[2], <<k>>, e[1].room, e[1].killed),
                            !.last = IF e[1].killed = "normal" THEN <<>> ELSE <<<<k>>>>])).ok
====
