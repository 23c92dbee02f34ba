---- MODULE Collectives ----
(***************************************************************************)
(* The execution of a collective function by all threads of all nodes (see *)
(* CollectivePrograms): how barriers, MPI calls and memory accesses        *)
(* interleave.                                                             *)
(*                                                                         *)
(* A barrier, a thread_broadcast and an MPI collective let everybody go in *)
(* one step once everybody has come; that the barrier of barrier.c does so *)
(* is what module Barrier shows.                                           *)
(***************************************************************************)
EXTENDS Integers, Sequences, FiniteSets, SequencesExt, FiniteSetsExt

CONSTANTS Jobs,      \* the pairs <<call, layout>> which are explored
          Flags,     \* the values a thread may bring to agree_on_flag
          Guesses,   \* the checking periods a thread may compute
          MaxHup     \* how many times a node receives SIGHUP

VARIABLES call,   \* the function all threads run
          lay,    \* the layout of the grid
          prog,   \* the instructions of each thread
          pc,     \* the instruction each thread is at
          mem,    \* the memory of each thread
          file,   \* the file written by pi_save_file, index -> value
          hup     \* hup_caught of each node

vars == <<call, lay, prog, pc, mem, file, hup>>

INSTANCE CollectivePrograms

(***************************************************************************)
(* Memory                                                                  *)
(***************************************************************************)
XorOver(S, f(_)) ==
  {e \in UNION {f(q) : q \in S} : Cardinality({q \in S : e \in f(q)}) % 2 = 1}

\* In a product, the entry x of the right vector after it iterations collects
\* one term from every thread of its group which computes the row x.
Expected(g, x, it) == {<<it, q>> : q \in {q \in Procs : q[1] = g /\ i0(q, 0) <= x /\ x < i1(q, 0)}}

\* The sizes of what the threads save: different from one thread to the next.
mysize(p) == IF call \in {"save0", "save1"} THEN 1 + ((p[2] + p[3]) % 2)
             ELSE IF call \in {"vector", "krylov"} THEN i1(p, 1) - i0(p, 1) ELSE 0

InitCol(p) ==
  [i \in 0..(mysize(p) - 1) |->
     CASE call = "krylov" -> Expected(p[1], i0(p, 1) + i, 0)
       [] call = "vector" -> none
       [] OTHER -> <<p[2], p[3], i>>]

tabKeys == {guess} \cup ((0..(njobs(M) - 1)) \X (0..(ncores(M) - 1)))

InitMem(p, v) ==
  [v |-> v, ptr |-> p, tmp |-> 0, acc |-> {}, eq |-> FALSE,
   tab |-> [k \in tabKeys |-> IF k = <<p[2], p[3]>> THEN p ELSE IF k = guess THEN 0 ELSE none],
   cnt |-> [j \in 0..(njobs(M) - 1) |-> IF j = p[2] THEN mysize(p) ELSE -1],
   all |-> [r \in 0..(totalsize(M) - 1) |-> 0], dis |-> [j \in 0..(njobs(M) - 1) |-> -1], siz |-> 0,
   map |-> FALSE, ok |-> FALSE,
   row |-> IF call = "krylov" THEN [i \in 0..(i1(p, 0) - i0(p, 0) - 1) |-> {}] ELSE << >>,
   col |-> InitCol(p), it |-> 0,
   nac |-> 1, np |-> 1, caught |-> 0]

\* What each thread brings: a flag, a value to compare, a set to be summed.
InitValues ==
  CASE call = "flag" -> [Procs -> Flags]
    [] call = "data_eq" -> [Procs -> {0, 1}]
    [] call = "krylov" -> {[p \in Procs |-> {}]}
    [] OTHER -> {[p \in Procs |-> {p}]}

Init ==
  \E job \in Jobs :
    /\ call = job[1]
    /\ lay = job[2]
    /\ pc = [p \in Procs |-> 1]
    /\ prog = [p \in Procs |-> Program(call, p)] @@ << >>
    /\ \E vs \in InitValues : mem = [p \in Procs |-> InitMem(p, vs[p])]
    /\ file = [g \in 0..(lay.groups - 1) |->
                 IF call = "vector" THEN [x \in 0..(lay.n - 1) |-> <<0, 0, x>>] ELSE << >>]
    /\ hup = [j \in 0..(njobs(M) - 1) |-> [on |-> 0, left |-> IF call = "timing" THEN MaxHup ELSE 0]]

AtEnd(p) == pc[p] > Len(prog[p])
Ins(p) == prog[p][pc[p]]
At(p, kind) == ~AtEnd(p) /\ Ins(p)[1] = kind
Advance(S) == pc' = [p \in Procs |-> IF p \in S THEN pc[p] + 1 ELSE pc[p]]

\* my_pthread_barrier_wait on the barrier of a wiring.
BarrierWait(p) ==
  /\ At(p, "bar")
  /\ trank(p, Ins(p)[2]) = 0 /\ (Ins(p)[2] = I => p[1] = 0)
  /\ LET G == ThreadsOf(p, Ins(p)[2])
     IN /\ \A q \in G : At(q, "bar") /\ th(q, Ins(q)[2]) = th(p, Ins(p)[2])
        /\ Advance(G)
  /\ UNCHANGED <<call, lay, prog, mem, file, hup>>

\* thread_broadcast: everybody gets the pointer of the i-th thread.
ThreadBroadcast(p) ==
  /\ At(p, "tb") /\ trank(p, Ins(p)[2]) = 0
  /\ LET w == Ins(p)[2]
         G == ThreadsOf(p, w)
     IN /\ \A q \in G : At(q, "tb") /\ th(q, Ins(q)[2]) = th(p, w)
        /\ mem' = [q \in Procs |-> IF q \in G THEN [mem[q] EXCEPT !.ptr = Thread(p, w, Ins(p)[3])] ELSE mem[q]]
        /\ Advance(G)
  /\ UNCHANGED <<call, lay, prog, file, hup>>

(***************************************************************************)
(* MPI.  A collective completes when one thread of each node of the        *)
(* communicator has called it.                                             *)
(***************************************************************************)
InMpi(c) == {p \in Procs : At(p, "mpi") /\ pals(p, Ins(p)[2]) = c}
Communicators == {pals(p, w) : p \in Procs, w \in {0, 1, M}}

MpiRoot(S, w, r) == CHOOSE q \in S : jrank(q, w) = r

MpiMem(op, w, root, S) ==
  LET r == MpiRoot(S, w, root)
      vec(q) == Ins(q)[5]
      byJob(j) == CHOOSE q \in S : q[2] = j
  IN CASE op = "Allreduce" -> [q \in S |-> [mem[q] EXCEPT !.v = XorOver(S, LAMBDA z : mem[z].v)]]
       [] op = "AllreduceAnd" -> [q \in S |-> [mem[q] EXCEPT !.v = Min({mem[z].v : z \in S})]]
       [] op = "AllreduceMax" -> [q \in S |-> [mem[q] EXCEPT !.caught = Max({mem[z].caught : z \in S})]]
       [] op = "AllreducePair" -> [q \in S |-> [mem[q] EXCEPT !.acc = UNION {mem[z].acc : z \in S}]]
       [] op = "Bcast" -> [q \in S |-> [mem[q] EXCEPT !.v = mem[r].v]]
       [] op = "BcastTab" -> [q \in S |-> [mem[q] EXCEPT !.tab[Ins(q)[5]] = mem[r].tab[Ins(r)[5]]]]
       [] op = "BcastOk" -> [q \in S |-> [mem[q] EXCEPT !.ok = mem[r].map]]
       [] op = "Allgather" -> [q \in S |-> [mem[q] EXCEPT !.cnt =
             [j \in DOMAIN @ |-> IF \E z \in S : z[2] = j THEN mem[byJob(j)].cnt[j] ELSE @[j]]]]
       [] op = "Scatterv" -> [q \in S |-> [mem[q] EXCEPT !.col =
             [i \in DOMAIN @ |-> file[q[1]][mem[r].dis[q[2]] + i]]]]
       [] OTHER -> [q \in S |-> mem[q]]

\* Collectives on a slice of a vector: q's copy of the shared right vector.
MpiVec(op, w, root, S) ==
  LET r == MpiRoot(S, w, root)
      d == Ins(r)[5][1]
      own(q) == IF op = "Reduce" THEN Shared(q, 1 - d) ELSE Shared(q, d)
      xx(q) == Ins(q)[5][2]
      sum(i) == XorOver(S, LAMBDA z : mem[z].row[xx(z).offset_me + i])
      got(q) == [x \in DOMAIN mem[own(q)].col |->
                   LET i == x - (IF op = "Reduce" THEN xx(q).offset_there ELSE xx(q).offset_me)
                   IN IF i \notin 0..(xx(q).count - 1) THEN mem[own(q)].col[x]
                      ELSE IF op = "Reduce" THEN sum(i) ELSE mem[own(r)].col[xx(r).offset_me + i]]
      to == IF op = "Reduce" THEN {r} ELSE S
  IN [z \in {own(q) : q \in to} |-> [mem[z] EXCEPT !.col = got(CHOOSE q \in to : own(q) = z)]]

\* What the nodes send lands at their displacements in the mapped file; after
\* the leader has unmapped it the write is fatal.
Gathered(w, S) ==
  LET r == MpiRoot(S, w, 0)
      at(q, x) == x - mem[r].dis[q[2]]
      from(x) == {q \in S : at(q, x) \in 0..(mysize(q) - 1)}
  IN [file EXCEPT ![r[1]] =
        IF ~mem[mem[r].ptr].map THEN << >>
        ELSE [x \in DOMAIN @ |-> IF from(x) = {} THEN @[x]
                                 ELSE LET q == CHOOSE q \in from(x) : TRUE IN mem[q].col[at(q, x)]]]

Override(new) == mem' = [p \in Procs |-> IF p \in DOMAIN new THEN new[p] ELSE mem[p]]

MpiCall(c) ==
  /\ LET S == InMpi(c)
         p == CHOOSE q \in S : TRUE
         op == Ins(p)[3]
         root == Ins(p)[4]
     IN /\ S # {} /\ Cardinality(S) = njobs(c[1])
        /\ \A q \in S : Ins(q)[3] = op /\ Ins(q)[4] = root
        /\ Override(IF op \in {"Reduce", "BcastVec"} THEN MpiVec(op, c[1], root, S)
                    ELSE MpiMem(op, c[1], root, S))
        /\ file' = IF op = "Gatherv" THEN Gathered(c[1], S) ELSE file
        /\ Advance(S)
  /\ UNCHANGED <<call, lay, prog, hup>>

(***************************************************************************)
(* Local steps: what thread p does to memory, its own or one it has a      *)
(* pointer to.                                                             *)
(***************************************************************************)
PAGESIZE == 4
wsiz(siz) == PAGESIZE * ((siz + PAGESIZE - 1) \div PAGESIZE)

JobsOf(p, w) == {j \in 0..(njobs(M) - 1) : pals(<<p[1], j, p[3]>>, w) = pals(p, w)}
displacements(p, w, d) ==
  LET all == mem[mem[p].ptr].all
      sum(r) == FoldSet(LAMBDA x, acc : acc + all[x], 0, 0..(r - 1))
  IN [j \in DOMAIN mem[p].dis |->
        IF j \in JobsOf(p, w) THEN sum(rankIn(<<p[1], j, p[3]>>, w, d)) ELSE -1]

printPeriod(iter) == Max({x \in {1, 5, 20, 100, 1000} : iter % x = 0})

\* The new memory of p, for the steps which change nothing else.
Own(p, op, arg) ==
  LET m == mem[p]
      lead == mem[m.ptr]
  IN CASE op = "copy" -> [m EXCEPT !.tab[arg] = lead.tab[arg]]
       [] op = "sum" -> [m EXCEPT !.v = XorOver(ThreadsOf(p, arg), LAMBDA q : mem[q].v)]
       [] op = "copy0" -> [m EXCEPT !.v = mem[Thread(p, arg, 0)].v]
       [] op = "copyfrom" -> [m EXCEPT !.v = mem[Thread(p, arg[1], arg[2])].v]
       [] op = "load" -> [m EXCEPT !.tmp = Min({lead.v, m.v})]
       [] op = "andor" -> [m EXCEPT !.acc = {mem[q].v : q \in ThreadsOf(p, M)}]
       [] op = "compare" -> [m EXCEPT !.eq = Cardinality(m.acc) = 1]
       [] op = "eqptr" -> [m EXCEPT !.eq = lead.eq]
       [] op = "mapped" -> [m EXCEPT !.map = lead.map]
       [] op = "displs" -> [m EXCEPT !.dis = displacements(p, arg[1], arg[2]),
                                     !.siz = FoldSet(LAMBDA x, acc : acc + lead.all[x], 0, DOMAIN lead.all)]
       [] op = "period" -> [m EXCEPT !.nac = @ + (IF m.tab[guess] <= 0 THEN 10 ELSE m.tab[guess])]
       [] op = "hup" -> [m EXCEPT !.caught = hup[p[2]].on]
       [] op = "nextprint" -> [m EXCEPT !.np = arg + printPeriod(arg)]
       [] op = "readlead" -> [m EXCEPT !.v = lead.acc]
       [] op = "dot" ->
            [m EXCEPT !.v = XorOver({1, 2}, LAMBDA k : IF k = 1 THEN @ ELSE
               {<<m.it, x>> : x \in {x \in (i0(p, arg)..(i1(p, arg) - 1)) \cap (i0(p, 1 - arg)..(i1(p, 1 - arg) - 1)) :
                                       mem[Shared(p, arg)].col[x - i0(p, arg)] = Expected(p[1], x, m.it)}})]
       [] op = "mul" ->
            LET in == mem[Shared(p, arg)].col
                good == \A i \in DOMAIN in : in[i] = Expected(p[1], i0(p, arg) + i, m.it)
            IN [m EXCEPT !.it = @ + 1, !.row = [i \in DOMAIN @ |-> IF good THEN {<<m.it + 1, p>>} ELSE {}]]

OwnSteps == {"copy", "sum", "copy0", "copyfrom", "load", "andor", "compare", "eqptr", "mapped",
             "displs", "period", "hup", "nextprint", "readlead", "dot", "mul"}

\* caught_something, respectively the flag, is read where the leader keeps it.
readLeader(p) ==
  IF call = "flag" THEN [mem[p] EXCEPT !.v = mem[mem[p].ptr].v]
  ELSE [mem[p] EXCEPT !.caught = mem[mem[p].ptr].caught]

LocalStep(p) ==
  /\ At(p, "loc")
  /\ LET op == Ins(p)[2]
         arg == Ins(p)[3]
         lead == mem[p].ptr
     IN \/ /\ op \in OwnSteps
           /\ mem' = [mem EXCEPT ![p] = Own(p, op, arg)]
           /\ UNCHANGED <<file, hup>>
        \/ /\ op = "read"
           /\ mem' = [mem EXCEPT ![p] = readLeader(p)]
           /\ UNCHANGED <<file, hup>>
        \/ /\ op = "store"
           /\ mem' = [mem EXCEPT ![lead].v = mem[p].tmp]
           /\ UNCHANGED <<file, hup>>
        \/ /\ op = "addlead"
           /\ mem' = [mem EXCEPT ![lead].acc = XorOver({1, 2}, LAMBDA k : IF k = 1 THEN @ ELSE mem[p].v)]
           /\ UNCHANGED <<file, hup>>
        \/ /\ op = "addrow"
           /\ LET d == arg[1]
                  xx == arg[2]
                  dst == Thread(p, d, xx.k % ncores(d))
                  sum(i) == XorOver(ThreadsOf(p, d), LAMBDA q : mem[q].row[i])
              IN mem' = [mem EXCEPT ![dst].row =
                   [i \in DOMAIN @ |-> IF i - xx.offset_me \in 0..(xx.count - 1) THEN sum(i) ELSE @[i]]]
           /\ UNCHANGED <<file, hup>>
        \/ /\ op = "fill"
           /\ mem' = [mem EXCEPT ![lead].all =
                [r \in DOMAIN @ |->
                   LET js == {j \in JobsOf(p, arg[1]) : rankIn(<<p[1], j, p[3]>>, arg[1], arg[2]) = r}
                   IN IF js = {} THEN @[r] ELSE mem[p].cnt[CHOOSE j \in js : TRUE]]]
           /\ UNCHANGED <<file, hup>>
        \/ /\ op = "open"
           /\ \E ok \in BOOLEAN :
                /\ mem' = [mem EXCEPT ![p].map = ok]
                /\ file' = IF ok THEN [file EXCEPT ![p[1]] = [x \in 0..(wsiz(mem[p].siz) - 1) |-> none]] ELSE file
           /\ UNCHANGED hup
        \/ /\ op = "openread"
           /\ mem' = [mem EXCEPT ![p].map = TRUE]
           /\ UNCHANGED <<file, hup>>
        \/ /\ op = "close"
           /\ mem' = [mem EXCEPT ![p].map = FALSE]
           /\ file' = [file EXCEPT ![p[1]] = [x \in DOMAIN @ \cap 0..(mem[p].siz - 1) |-> @[x]]]
           /\ UNCHANGED hup
        \* Only the leader's guess may matter: the others come with another value.
        \/ /\ op = "guess"
           /\ \E g \in (IF p = Leader THEN Guesses ELSE {Max(Guesses) + 1}) :
                mem' = [mem EXCEPT ![p].tab[guess] = g]
           /\ UNCHANGED <<file, hup>>
        \/ /\ op = "reset"
           /\ mem' = [mem EXCEPT ![p].nac = arg + 1, ![p].np = arg + 1]
           /\ hup' = [hup EXCEPT ![p[2]].on = 0]
           /\ UNCHANGED file
  /\ Advance({p})
  /\ UNCHANGED <<call, lay, prog>>

\* The conditions which make a thread skip instructions.
Holds(p, cond, arg) ==
  CASE cond = "ok" -> mem[p].ok
    [] cond = "caught" -> mem[p].caught # 0
    [] cond = "async" -> arg = mem[p].nac
    [] cond = "print" -> arg >= mem[p].np

Branch(p) ==
  /\ At(p, "if")
  /\ pc' = [pc EXCEPT ![p] = @ + 1 + (IF Holds(p, Ins(p)[2], Ins(p)[3]) THEN 0 ELSE Ins(p)[4])]
  /\ UNCHANGED <<call, lay, prog, mem, file, hup>>

\* SIGHUP on a node.
sighandler(j) ==
  /\ hup[j].left > 0
  /\ hup' = [hup EXCEPT ![j] = [on |-> 1, left |-> @.left - 1]]
  /\ UNCHANGED <<call, lay, prog, pc, mem, file>>

Step ==
  \/ \E p \in Procs : BarrierWait(p) \/ ThreadBroadcast(p) \/ LocalStep(p) \/ Branch(p)
  \/ \E c \in Communicators : MpiCall(c)

Next == Step \/ \E j \in DOMAIN hup : sighandler(j)

Spec == Init /\ [][Next]_vars

(***************************************************************************)
(* Properties                                                              *)
(***************************************************************************)
\* Every thread is at an instruction of its program or has returned; pointers
\* point to threads of the same node.
TypeOK ==
  /\ \A p \in Procs : pc[p] \in 1..(Len(prog[p]) + 1)
  /\ \A p \in Procs : mem[p].ptr \in Procs /\ mem[p].ptr[2] = p[2]
  /\ \A j \in DOMAIN hup : hup[j].on \in {0, 1} /\ hup[j].left \in 0..MaxHup

\* The rule stated in hello: the MPI calls pending on one communicator come
\* from different nodes and are the same collective with the same root.  Two
\* threads of a node, of one group or of two interleaved ones, are never in MPI
\* on one communicator together.
CommunicatorsAgree ==
  \A c \in Communicators : \A p, q \in InMpi(c) :
    /\ p # q => p[2] # q[2]
    /\ p[1] = q[1] /\ Ins(p)[3] = Ins(q)[3] /\ Ins(p)[4] = Ins(q)[4]

\* A pointer to the stack of another thread is used only while this thread has
\* not returned from the function ("the leader must not release its stack
\* before all pals have read it").
LeaderStillThere ==
  \A p \in Procs : call \in {"flag", "timing"} /\ At(p, "loc") /\ Ins(p)[2] \in {"read", "load", "store"}
     => ~AtEnd(mem[p].ptr)

Finished == \A p \in Procs : AtEnd(p)
AllEqual(f(_)) == \A p, q \in Procs : f(p) = f(q)

\* What the call promises to its caller once all threads have returned: the
\* sum, the root's value, a flag which all share and which is set only if the
\* leaders of all nodes had it set.
ReductionsRight ==
  Finished =>
    /\ call = "allreduce" => \A p \in Procs : mem[p].v = Procs
    /\ call = "broadcast" => \A p \in Procs : mem[p].v = {<<0, njobs(M) - 1, ncores(M) - 1>>}
    /\ call = "print" => \A p \in Procs, k \in tabKeys \ {guess} : mem[p].tab[k] = <<0, k[1], k[2]>>
    /\ call = "disp" => mem[Leader].v = Procs
    /\ call = "flag" => AllEqual(LAMBDA p : mem[p].v)
    /\ call = "data_eq" => \A p \in Procs : mem[p].eq <=> AllEqual(LAMBDA q : mem[q].v)

\* A file saved by all threads holds their data in the order of the wiring,
\* with no hole and nothing after it, and loading gives back what was saved;
\* otherwise saving has failed on all threads alike.
FilesRight ==
  Finished /\ call \in {"save0", "save1", "vector", "krylov"} =>
    /\ AllEqual(LAMBDA p : mem[p].ok) \/ call \in {"vector", "krylov"}
    /\ \A g \in DOMAIN file : file[g] # << >> =>
         /\ call # "krylov" => \A x \in DOMAIN file[g] : file[g][x] # none
         /\ DOMAIN file[g] = 0..(Cardinality(DOMAIN file[g]) - 1)
         /\ call = "vector" => file[g] = [x \in 0..(lay.n - 1) |-> <<0, 0, x>>]
         /\ call = "krylov" => file[g] = [x \in 0..(lay.n - 1) |-> Expected(g, x, interval)]
         /\ call \in {"save0", "save1"} =>
              \A p, q \in Procs : \A i \in 0..(mysize(p) - 1), j \in 0..(mysize(q) - 1) :
                LET d == IF call = "save0" THEN 0 ELSE 1
                    at(r, k) == CHOOSE x \in DOMAIN file[g] : file[g][x] = <<r[2], r[3], k>>
                IN rankIn(p, M, d) < rankIn(q, M, d) => at(p, i) < at(q, j)
    /\ call = "save0" => \A p \in Procs : mem[p].col = InitCol(p)

\* Each product uses the complete previous vector and ends with the complete
\* next one on every node, and the dot products count every index exactly once
\* per iteration, in each group.
ProductsRight ==
  Finished /\ call = "krylov" =>
    \A p \in Procs :
      /\ mem[p].v = (0..(interval - 1)) \X (0..(lay.n - 1))
      /\ \A x \in i0(p, 1)..(i1(p, 1) - 1) :
           mem[Shared(p, 1)].col[x - i0(p, 1)] = Expected(p[1], x, interval)

\* All threads of all nodes plan the next check and the next report at the
\* same iteration, later than the current one: otherwise some would enter the
\* collective checks without the others.
TimersAgree ==
  Finished /\ call = "timing" =>
    /\ AllEqual(LAMBDA p : <<mem[p].nac, mem[p].np>>)
    /\ \A p \in Procs : mem[p].nac > 2 /\ mem[p].np > 2

\* Every collective returns on every thread: nobody waits for ever on a barrier
\* or in MPI for somebody who waits elsewhere.  (No execution is infinite.)
NobodyStuck == Finished \/ ENABLED Step

\* The calls of the threads and nodes match: nobody waits for ever, no message
\* goes to another collective, no pointer outlives what it points to.
CallsMatch == TypeOK /\ CommunicatorsAgree /\ LeaderStillThere /\ NobodyStuck

\* What the collectives leave in the vectors, files and timers.
ResultsRight == ReductionsRight /\ FilesRight /\ ProductsRight /\ TimersAgree

====
