---- MODULE CollectivePrograms ----
(***************************************************************************)
(* What each thread of each node executes in the collective functions of   *)
(* block Wiedemann: the wirings of linalg/bwc/parallelizing_info.c, the    *)
(* reductions of xymats.c, agree_on_flag of gather.c, the asynchronous     *)
(* checks of async.c and the vector communications of matmul_top.c.        *)
(*                                                                         *)
(* Every thread runs a straight list of elementary instructions: waiting   *)
(* on the thread barrier of a wiring, a thread_broadcast, an MPI call on   *)
(* the communicator of a wiring, a local access to memory, a conditional.  *)
(* An operator named after a C function yields the instructions which that *)
(* function makes the thread p execute.  The build is the default one,     *)
(* where MPI is not reentrant (MPI_LIBRARY_MT_CAPABLE undefined): all the  *)
(* threads of a node share its communicators.                              *)
(***************************************************************************)
EXTENDS Integers, Sequences, SequencesExt, FiniteSetsExt, Chain

CONSTANT lay   \* [nhj, nvj, nhc, nvc, groups, n]: the grid and the dimension

none == <<-1>>

\* The key of the variable guess of timing_rare_checks (in krylov_prog: of the
\* vectors read by load_x) among the variables which are broadcast.
guess == <<-1, -1>>

\* The wirings: pi->wr[0], pi->wr[1], pi->m, and the barrier shared by the
\* two interleaved groups.
M == 2
I == 3

njobs(w)  == IF w = 0 THEN lay.nvj ELSE IF w = 1 THEN lay.nhj ELSE lay.nhj * lay.nvj
ncores(w) == IF w = 0 THEN lay.nvc ELSE IF w = 1 THEN lay.nhc ELSE lay.nhc * lay.nvc
totalsize(w) == njobs(w) * ncores(w)

\* A thread is <<group, job, thread>>.
Procs == (0..(lay.groups - 1)) \X (0..(njobs(M) - 1)) \X (0..(ncores(M) - 1))

jrank(p, w) == IF w = 0 THEN p[2] % lay.nvj ELSE IF w = 1 THEN p[2] \div lay.nvj ELSE p[2]
trank(p, w) == IF w = 0 THEN p[3] % lay.nvc ELSE IF w = 1 THEN p[3] \div lay.nvc ELSE p[3]

\* The communicator of a wiring, shared by all threads of the node: the nodes
\* with the same row (w = 0) or column (w = 1) of the grid.
pals(p, w) == <<w, IF w = 0 THEN p[2] \div lay.nvj ELSE IF w = 1 THEN p[2] % lay.nvj ELSE 0>>

\* The barrier of a wiring, shared by some threads of one node.  Row barriers
\* are replicated along grid[k + c*nvc], column barriers along grid[c + k*nvc].
th(p, w) ==
  CASE w = 0 -> <<p[1], p[2], 0, p[3] \div lay.nvc>>
    [] w = 1 -> <<p[1], p[2], 1, p[3] % lay.nvc>>
    [] w = M -> <<p[1], p[2], M, 0>>
    [] w = I -> <<0, p[2], I, 0>>

ThreadsOf(p, w) == {q \in Procs : th(q, w) = th(p, w)}
Thread(p, w, t) == CHOOSE q \in ThreadsOf(p, w) : trank(q, w) = t
Leader == <<0, 0, 0>>

(***************************************************************************)
(* Instructions                                                            *)
(***************************************************************************)
Bar(w) == << <<"bar", w>> >>
Tb(w, i) == << <<"tb", w, i>> >>
Mpi(w, op, root, arg) == << <<"mpi", w, op, root, arg>> >>
Loc(op, arg) == << <<"loc", op, arg>> >>
If(cond, arg, body) == Then(body, LAMBDA b : << <<"if", cond, arg, Len(b)>> >> \o b)
When(c, body) == IF c THEN body ELSE << >>
Loop(n, body(_)) == FoldLeft(LAMBDA done, i : done \o body(i), << >>, [i \in 1..n |-> i - 1])

serialize_threads(w) == Bar(w)
serialize(p, w) == Bar(w) \o When(trank(p, w) = 0, Mpi(w, "Barrier", 0, 0))

SEVERAL_THREADS_PLAY_MPI(p, w, body) ==
  Loop(ncores(w), LAMBDA t : serialize_threads(w) \o When(t = trank(p, w), body))

thread_broadcast(w, i) == Tb(w, i)

global_broadcast(p, w, arg, j, t) ==
  When(trank(p, w) = t, Mpi(w, "BcastTab", j, arg)) \o thread_broadcast(w, t) \o Loc("copy", arg)

say_hello(p, w) == serialize(p, w) \o Loop(njobs(w), LAMBDA j : serialize(p, w))

hello(p) ==
  LET turn(w, v) == Loop(totalsize(w), LAMBDA i :
        serialize(p, M) \o serialize_threads(M)
          \o When(i = jrank(p, w) * ncores(w) + trank(p, w), say_hello(p, v)))
  IN serialize(p, M) \o say_hello(p, M) \o turn(0, 1) \o turn(1, 0) \o serialize(p, M) \o serialize(p, M)

grid_print(p) ==
  serialize(p, M)
    \o Loop(njobs(M), LAMBDA j : Loop(ncores(M), LAMBDA t : global_broadcast(p, M, <<j, t>>, j, t)))
    \o serialize(p, M) \o serialize(p, M)

(* Reductions over all threads of all nodes. *)
allreduce_generic(p, w) ==
  serialize_threads(w)
    \o When(trank(p, w) = 0, Loc("sum", w) \o Mpi(w, "Allreduce", 0, 0))
    \o serialize_threads(w)
    \o When(trank(p, w) > 0, Loc("copy0", w))

broadcast_generic_threadlevel(p, w, t0) ==
  serialize_threads(w) \o When(trank(p, w) # t0, Loc("copyfrom", <<w, t0>>))
broadcast_generic_mpilevel(p, w, j0) == SEVERAL_THREADS_PLAY_MPI(p, w, Mpi(w, "Bcast", j0, 0))
broadcast_generic(p, w, j0, t0) ==
  broadcast_generic_threadlevel(p, w, t0) \o broadcast_generic_mpilevel(p, w, j0)

\* *ptr &= v is a load and a store, which nothing protects: the loop lets
\* every thread do it in every round.
agree_on_flag(p, w) ==
  thread_broadcast(w, 0)
    \o Loop(ncores(w), LAMBDA i : serialize_threads(w) \o Loc("load", 0) \o Loc("store", 0))
    \o serialize_threads(w)
    \o When(trank(p, w) = 0, Mpi(w, "AllreduceAnd", 0, 0))
    \o serialize_threads(w) \o Loc("read", 0) \o serialize_threads(w)

global_data_eq(p) ==
  thread_broadcast(M, 0) \o serialize_threads(M)
    \o When(trank(p, M) = 0, Loc("andor", 0) \o Mpi(M, "AllreducePair", 0, 0) \o Loc("compare", 0))
    \o thread_broadcast(M, 0) \o Loc("eqptr", 0)

(***************************************************************************)
(* Files written and read by all threads of a wiring                       *)
(***************************************************************************)
\* The rank of the thread p among those of the wiring w, as the entries of a
\* file are ordered.  With d in {0, 1} it is the order of the two-dimensional
\* variants, row by row or column by column, on pi->m.
Oned == 7
rankIn(p, w, d) ==
  IF d = Oned THEN jrank(p, w) * ncores(w) + trank(p, w)
  ELSE trank(p, d) + ncores(d) * (jrank(p, d) + njobs(d) * (trank(p, 1 - d) + ncores(1 - d) * jrank(p, 1 - d)))

get_counts_and_displacements(p, w, d) ==
  SEVERAL_THREADS_PLAY_MPI(p, w, Mpi(w, "Allgather", 0, 0))
    \o thread_broadcast(w, 0) \o Loc("fill", <<w, d>>) \o serialize_threads(w)
    \o Loc("displs", <<w, d>>) \o serialize_threads(w)

pi_save_file(p, w, d) ==
  get_counts_and_displacements(p, w, d)
    \o When(jrank(p, w) = 0 /\ trank(p, w) = 0, Loc("open", 0))
    \o When(jrank(p, w) = 0, thread_broadcast(w, 0) \o Loc("mapped", 0))
    \o SEVERAL_THREADS_PLAY_MPI(p, w, Mpi(w, "BcastOk", 0, 0))
    \o If("ok", 0, SEVERAL_THREADS_PLAY_MPI(p, w, Mpi(w, "Gatherv", 0, 0))
                     \o serialize_threads(w)
                     \o When(jrank(p, w) = 0 /\ trank(p, w) = 0, Loc("close", 0)))

pi_load_file(p, w, d) ==
  get_counts_and_displacements(p, w, d)
    \o When(jrank(p, w) = 0 /\ trank(p, w) = 0, Loc("openread", 0))
    \o When(jrank(p, w) = 0, thread_broadcast(w, 0) \o Loc("mapped", 0))
    \o SEVERAL_THREADS_PLAY_MPI(p, w, Mpi(w, "Scatterv", 0, 0))
    \o serialize_threads(w)
    \o When(jrank(p, w) = 0 /\ trank(p, w) = 0, Loc("close", 0))
\* The two-dimensional variants are the same code on pi->m, with the other
\* numbering of the threads.
get_counts_and_displacements_2d(p, d) == get_counts_and_displacements(p, M, d)
pi_save_file_2d(p, d) == pi_save_file(p, M, d)
pi_load_file_2d(p, d) == pi_load_file(p, M, d)

(***************************************************************************)
(* Vectors cut along the grid                                              *)
(***************************************************************************)
nslices(d) == totalsize(d)
fences(d, k) ==
  LET s == nslices(1 - d)
  IN IF k = s THEN lay.n ELSE k * (lay.n \div s) + Min({lay.n % s, k})

ix(p, d) == jrank(p, 1 - d) * ncores(1 - d) + trank(p, 1 - d)
i0(p, d) == fences(d, ix(p, d))
i1(p, d) == fences(d, ix(p, d) + 1)

intersect_two_intervals(a0, a1, b0, b1) ==
  LET lo == Max({a0, b0})
      hi == Min({a1, b1})
  IN IF a0 >= b1 \/ b0 >= a1 THEN [count |-> 0, offset_me |-> 0, offset_there |-> 0]
     ELSE [count |-> hi - lo, offset_me |-> lo - a0, offset_there |-> lo - b0]

\* The slices of direction d which meet [x0, x1), in increasing order.
intersect(d, x0, x1) ==
  Then([k \in 0..nslices(1 - d) |-> fences(d, k)] @@ << >>, LAMBDA f :
    Then(SetToSortSeq({k \in 0..(nslices(1 - d) - 1) : f[k + 1] > x0 /\ f[k] < x1}, <), LAMBDA ks :
      IF x0 = x1 THEN << >>
      ELSE [i \in 1..Len(ks) |->
              LET r == intersect_two_intervals(x0, x1, f[ks[i]], f[ks[i] + 1])
              IN [k |-> ks[i], count |-> r.count, offset_me |-> r.offset_me,
                  offset_there |-> r.offset_there]]))

isect_x(p, d) == intersect(1 - d, i0(p, d), i1(p, d))
\* Mutant of isect_y: the offsets are those inside the part of this thread.
isectNotAdjusted(p, d) ==
  LET len == i1(p, d) - i0(p, d)
  IN intersect(1 - d, i0(p, d) + ((trank(p, d) * len) \div ncores(d)),
                      i0(p, d) + (((trank(p, d) + 1) * len) \div ncores(d)))
isect_y(p, d) ==
  LET len == i1(p, d) - i0(p, d)
      ii0 == i0(p, d) + ((trank(p, d) * len) \div ncores(d))
      ii1 == i0(p, d) + (((trank(p, d) + 1) * len) \div ncores(d))
  IN Then(intersect(1 - d, ii0, ii1), LAMBDA s :
       [i \in DOMAIN s |-> [s[i] EXCEPT !.offset_me = @ + ii0 - i0(p, d)]])

\* The vector in direction d is shared by the threads of wiring d, the one in
\* the other direction belongs to each thread.
Shared(p, d) == Thread(p, d, 0)

reduce_across(p, d) ==
  Then(isect_y(p, d), LAMBDA ys : Then(isect_x(p, d), LAMBDA xs :
    When(ncores(d) > 1, serialize_threads(d) \o Loop(Len(ys), LAMBDA i : Loc("addrow", <<d, ys[i + 1]>>)))
      \o serialize_threads(M)
      \o Loop(ncores(1 - d), LAMBDA t : serialize_threads(1 - d)
           \o When(t = trank(p, 1 - d),
                   Loop(Len(xs), LAMBDA i : serialize_threads(d)
                      \o When(xs[i + 1].k % ncores(d) = trank(p, d),
                              Mpi(d, "Reduce", xs[i + 1].k \div ncores(d), <<d, xs[i + 1]>>)))))))

broadcast_down(p, d) ==
  Then(isect_x(p, d), LAMBDA xs :
    serialize_threads(d)
      \o Loop(ncores(1 - d), LAMBDA t : serialize_threads(1 - d)
           \o When(t = trank(p, 1 - d),
                Loop(ncores(d), LAMBDA u : serialize_threads(d)
                   \o When(u = trank(p, d),
                        Loop(Len(xs), LAMBDA i :
                           When(xs[i + 1].k % ncores(d) = trank(p, d),
                                Mpi(d, "BcastVec", xs[i + 1].k \div ncores(d), <<d, xs[i + 1]>>))))))))

matmul_top_mul_cpu(p, d) == Loc("mul", d)
matmul_top_mul_comm(p, d) == reduce_across(p, 1 - d) \o broadcast_down(p, d) \o serialize_threads(d)

x_dotprod(p, d) == serialize_threads(d) \o Loc("dot", d)

save_vector_toprow(p, d) == pi_save_file(p, 1 - d, Oned)
load_vector_toprow(p, d) == pi_load_file(p, 1 - d, Oned)

matmul_top_save_vector(p, d) ==
  broadcast_down(p, d) \o serialize(p, M) \o serialize_threads(M)
    \o When(jrank(p, d) = 0 /\ trank(p, d) = 0, save_vector_toprow(p, d))
    \o serialize(p, M) \o serialize_threads(M)

matmul_top_load_vector(p, d) ==
  serialize(p, M) \o serialize_threads(M)
    \o When(jrank(p, d) = 0 /\ trank(p, d) = 0, load_vector_toprow(p, d))
    \o serialize(p, M) \o serialize_threads(M)
    \o When(trank(p, d) = 0,
            SEVERAL_THREADS_PLAY_MPI(p, 1 - d,
              Mpi(d, "BcastVec", 0, <<d, [offset_me |-> 0, count |-> i1(p, d) - i0(p, d)]>>)))
    \o serialize(p, M)

(* Asynchronous checks. *)
timing_rare_checks(p, iter) ==
  serialize_threads(M) \o Loc("guess", 0) \o global_broadcast(p, M, guess, 0, 0)
    \o Loc("period", 0) \o Loc("hup", 0)
    \o When(trank(p, M) = 0, Mpi(M, "AllreduceMax", 0, 0))
    \o thread_broadcast(M, 0) \o Loc("read", 0) \o serialize(p, M)
    \o If("caught", 0, serialize(p, M) \o Loc("reset", iter))

timing_check(p, iter) ==
  If("async", iter, timing_rare_checks(p, iter))
    \o If("print", iter, timing_rare_checks(p, iter) \o Loc("nextprint", iter) \o grid_print(p))

\* The sums over the threads are taken in the memory of the leader, under the
\* mutex of the wiring.
timing_disp_collective_oneline(p) ==
  SEVERAL_THREADS_PLAY_MPI(p, M, Mpi(M, "Allreduce", 0, 0))
    \o thread_broadcast(M, 0) \o Loc("addlead", 0) \o serialize_threads(M) \o Loc("readlead", 0)

(***************************************************************************)
(* The two groups of an interleaved run                                    *)
(***************************************************************************)
pi_interleaving_flip(p) == When(lay.groups = 2, Bar(I))
pi_interleaving_enter(p) == When(lay.groups = 2 /\ p[1] = 1, Bar(I))
\* Mutant of pi_interleaving_leave: the group which waited first waits again.
leaveAsEnter(p) == When(lay.groups = 2 /\ p[1] = 1, Bar(I))
pi_interleaving_leave(p) == When(lay.groups = 2 /\ p[1] = 0, Bar(I))

\* The part of krylov_prog which communicates, for one interval.
interval == 2
krylov_prog(p) ==
  serialize(p, M) \o global_broadcast(p, M, guess, 0, 0) \o serialize(p, M)
    \o Loop(interval, LAMBDA i :
         pi_interleaving_flip(p) \o x_dotprod(p, 1) \o matmul_top_mul_cpu(p, 1)
           \o pi_interleaving_flip(p) \o matmul_top_mul_comm(p, 1))
    \o serialize(p, M) \o allreduce_generic(p, M) \o matmul_top_save_vector(p, 1) \o serialize(p, M)

pi_go_helper_func(p) ==
  pi_interleaving_enter(p) \o krylov_prog(p) \o pi_interleaving_flip(p) \o pi_interleaving_leave(p)

Program(c, p) ==
  CASE c = "hello"     -> hello(p)
    [] c = "print"     -> grid_print(p)
    [] c = "allreduce" -> allreduce_generic(p, M)
    [] c = "broadcast" -> broadcast_generic(p, M, njobs(M) - 1, ncores(M) - 1)
    [] c = "flag"      -> agree_on_flag(p, M)
    [] c = "data_eq"   -> global_data_eq(p)
    [] c = "save0"     -> pi_save_file_2d(p, 0) \o If("ok", 0, pi_load_file_2d(p, 0))
    [] c = "save1"     -> pi_save_file_2d(p, 1)
    [] c = "vector"    -> matmul_top_load_vector(p, 1) \o matmul_top_save_vector(p, 1)
    [] c = "timing"    -> timing_check(p, 1) \o timing_check(p, 2)
    [] c = "disp"      -> timing_disp_collective_oneline(p)
    [] c = "krylov"    -> pi_go_helper_func(p)
====
