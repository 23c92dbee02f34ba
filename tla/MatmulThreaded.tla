---------------------------- MODULE MatmulThreaded ----------------------------
(***************************************************************************)
(* The matrix-times-vector product of linalg/bwc/matmul-threaded.c, run by *)
(* the worker group of WorkerThreads: matmul_threaded_mul is one           *)
(* worker_threads_do, and f is matmul_thread_worker_routine, that is, the  *)
(* dense blocks and then the sparse blocks.                                *)
(*                                                                         *)
(* The destination vector is cut into areas: Top is the part of the rows   *)
(* that the dense blocks produce in the direct multiplication; Stripe(w)   *)
(* is what worker w owns of the rest (g is a multiple of nthreads*b, so    *)
(* the stripes are disjoint).  An area is the set of what was added to it  *)
(* since it was last cleared, Old being whatever it held before.           *)
(***************************************************************************)
EXTENDS WorkerThreads

CONSTANT
    Worker0     \* thread 0, which alone does the transposed sparse blocks

ASSUME Worker0Assumption == Worker0 \in Worker

VARIABLES
    dense_n,    \* mm->dense->n: 0, or some dense blocks
    transposed, \* mm->d against store_transposed: the slow direction
    processed,  \* mm->dense->processed
    recheck,    \* threads asleep on mm->dense->recheck_please
    fpc,        \* where each worker is in matmul_thread_worker_routine
    writing,    \* areas each worker is in the middle of writing
    dst         \* the destination vector

mmvars == <<dense_n, transposed, processed, recheck, fpc, writing, dst>>
allvars == <<vars, mmvars>>

Old == <<"old">>
Top == "top"
Stripe(w) == w
Area == {Top} \cup Worker
AllStripes == Worker

\* The stripes are disjoint from the rows of the dense blocks.
ASSUME TopAssumption == Top \notin Worker

Dense(w)  == <<"dense", w>>
Sparse(w) == <<"sparse", w>>

MMInit ==
    /\ Init
    /\ dense_n \in {0, 1}
    /\ transposed \in BOOLEAN
    /\ processed = 0
    /\ recheck = {}
    /\ fpc = [w \in Worker |-> "none"]
    /\ writing = [w \in Worker |-> {}]
    /\ dst = [a \in Area |-> {Old}]

FGoto(w, l) == fpc' = [fpc EXCEPT ![w] = l]
InF(w, l) == wpc[w] = "run" /\ fpc[w] = l

(* A step of f that takes no part in the control of the group. *)
GroupUnchanged == UNCHANGED <<cond_in, cond_out, working, done, f, mpc, wpc,
                              jobs, calls, spurious>>

-------------------------------------------------------------------------------
(* matmul_threaded_mul *)

(* The caller hands a new dst and a direction over, then unleashes f. *)
Mul ==
    /\ DoSetF
    /\ processed' = 0
    /\ transposed' \in BOOLEAN
    /\ dst' = [a \in Area |-> {Old}]
    /\ UNCHANGED <<dense_n, recheck, fpc, writing>>

(* The worker calls f: matmul_threaded_mul_sub_dense starts. *)
Call(w) ==
    /\ CallF(w)
    /\ FGoto(w, IF dense_n = 0 THEN "sparse" ELSE "dense")
    /\ UNCHANGED <<dense_n, transposed, processed, recheck, writing, dst>>

Return(w) ==
    /\ fpc[w] = "ret"
    /\ ReturnF(w)
    /\ FGoto(w, "none")
    /\ UNCHANGED <<dense_n, transposed, processed, recheck, writing, dst>>

-------------------------------------------------------------------------------
(* matmul_threaded_mul_sub_dense *)

(* Direct: accumulate into the private tdst.  Transposed: clear, then add  *)
(* to, the columns this thread owns.                                       *)
DenseBegin(w) ==
    /\ InF(w, "dense")
    /\ writing' = [writing EXCEPT ![w] = IF transposed THEN {Stripe(w)} ELSE {}]
    /\ dst' = IF transposed THEN [dst EXCEPT ![Stripe(w)] = {}] ELSE dst
    /\ FGoto(w, "dense_busy")
    /\ GroupUnchanged
    /\ UNCHANGED <<mu, dense_n, transposed, processed, recheck>>

DenseEnd(w) ==
    /\ InF(w, "dense_busy")
    /\ writing' = [writing EXCEPT ![w] = {}]
    /\ dst' = IF transposed
              THEN [dst EXCEPT ![Stripe(w)] = @ \cup {Dense(w)}] ELSE dst
    /\ FGoto(w, "merge")
    /\ GroupUnchanged
    /\ UNCHANGED <<mu, dense_n, transposed, processed, recheck>>

MergeLock(w) ==
    /\ InF(w, "merge")
    /\ Lock(w)
    /\ writing' = [writing EXCEPT ![w] = IF transposed THEN {} ELSE {Top}]
    /\ FGoto(w, "merge_cs")
    /\ GroupUnchanged
    /\ UNCHANGED <<dense_n, transposed, processed, recheck, dst>>

(* Mutant of Merge: nobody is told that the last dense block is done. *)
MergeSilently(w) ==
    /\ InF(w, "merge_cs")
    /\ processed' = processed + 1
    /\ dst' = IF transposed THEN dst
              ELSE [dst EXCEPT ![Top] =
                       IF processed = 0 THEN {Dense(w)} ELSE @ \cup {Dense(w)}]
    /\ writing' = [writing EXCEPT ![w] = {}]
    /\ Unlock(w)
    /\ FGoto(w, "sparse")
    /\ GroupUnchanged
    /\ UNCHANGED <<recheck, dense_n, transposed>>

(* Mutant of Merge: the first thread adds to dst as well. *)
MergeAdding(w) ==
    /\ InF(w, "merge_cs")
    /\ processed' = processed + 1
    /\ \/ /\ ~transposed
          /\ dst' = [dst EXCEPT ![Top] = @ \cup {Dense(w)}]
          /\ UNCHANGED recheck
       \/ /\ transposed
          /\ recheck' = IF processed + 1 = n THEN {} ELSE recheck
          /\ UNCHANGED dst
    /\ writing' = [writing EXCEPT ![w] = {}]
    /\ Unlock(w)
    /\ FGoto(w, "sparse")
    /\ GroupUnchanged
    /\ UNCHANGED <<dense_n, transposed>>

(* Direct: the first thread copies its tdst, the others add theirs.        *)
(* Transposed: the last thread wakes thread 0 up.                          *)
Merge(w) ==
    /\ InF(w, "merge_cs")
    /\ processed' = processed + 1
    /\ \/ /\ ~transposed
          /\ dst' = [dst EXCEPT ![Top] =
                        IF processed = 0 THEN {Dense(w)} ELSE @ \cup {Dense(w)}]
          /\ UNCHANGED recheck
       \/ /\ transposed
          /\ recheck' = IF processed + 1 = n THEN {} ELSE recheck
          /\ UNCHANGED dst
    /\ writing' = [writing EXCEPT ![w] = {}]
    /\ Unlock(w)
    /\ FGoto(w, "sparse")
    /\ GroupUnchanged
    /\ UNCHANGED <<dense_n, transposed>>

-------------------------------------------------------------------------------
(* matmul_threaded_mul_sub_sparse *)

(* Which areas the sparse blocks of w go to, once they may start. *)
SparseAreas(w) == IF transposed THEN AllStripes ELSE {Stripe(w)}

(* Direct multiplication, or thread 0 without dense blocks to wait for:    *)
(* clear the areas and start.                                              *)
SparseClear(w) ==
    /\ InF(w, "sparse")
    /\ ~transposed \/ (w = Worker0 /\ dense_n = 0)
    /\ dst' = [a \in Area |-> IF a \in SparseAreas(w) THEN {} ELSE dst[a]]
    /\ writing' = [writing EXCEPT ![w] = SparseAreas(w)]
    /\ FGoto(w, "sparse_busy")
    /\ GroupUnchanged
    /\ UNCHANGED <<mu, dense_n, transposed, processed, recheck>>

(* "we prefer to stay single-threaded here" *)
SparseSkip(w) ==
    /\ InF(w, "sparse")
    /\ transposed /\ w # Worker0
    /\ FGoto(w, "ret")
    /\ GroupUnchanged
    /\ UNCHANGED <<mu, dense_n, transposed, processed, recheck, writing, dst>>

(* Mutant of SparseTest: thread 0 does not wait for the others. *)
SparseHastily(w) ==
    /\ InF(w, "sparse")
    /\ transposed /\ w = Worker0 /\ dense_n # 0
    /\ writing' = [writing EXCEPT ![w] = AllStripes]
    /\ FGoto(w, "sparse_busy")
    /\ GroupUnchanged
    /\ UNCHANGED <<mu, dense_n, transposed, processed, recheck, dst>>

(* Thread 0 looks at processed, first without the mutex. *)
SparseTest(w) ==
    /\ InF(w, "sparse")
    /\ transposed /\ w = Worker0 /\ dense_n # 0
    /\ \/ /\ processed = n
          /\ writing' = [writing EXCEPT ![w] = AllStripes]
          /\ FGoto(w, "sparse_busy")
       \/ /\ processed # n
          /\ FGoto(w, "recheck")
          /\ UNCHANGED writing
    /\ GroupUnchanged
    /\ UNCHANGED <<mu, dense_n, transposed, processed, recheck, dst>>

(* Then with the mutex, until the last thread is done with its dense       *)
(* blocks.  Reached from the unlocked test and from pthread_cond_wait.     *)
RecheckLock(w) ==
    /\ InF(w, "recheck")
    /\ w \notin recheck
    /\ Lock(w)
    /\ FGoto(w, "recheck_cs")
    /\ GroupUnchanged
    /\ UNCHANGED <<dense_n, transposed, processed, recheck, writing, dst>>

RecheckSleep(w) ==
    /\ InF(w, "recheck_cs")
    /\ processed # n
    /\ Unlock(w)
    /\ recheck' = recheck \cup {w}
    /\ FGoto(w, "recheck")
    /\ GroupUnchanged
    /\ UNCHANGED <<dense_n, transposed, processed, writing, dst>>

RecheckDone(w) ==
    /\ InF(w, "recheck_cs")
    /\ processed = n
    /\ Unlock(w)
    /\ writing' = [writing EXCEPT ![w] = AllStripes]
    /\ FGoto(w, "sparse_busy")
    /\ GroupUnchanged
    /\ UNCHANGED <<dense_n, transposed, processed, recheck, dst>>

SparseEnd(w) ==
    /\ InF(w, "sparse_busy")
    /\ dst' = [a \in Area |-> IF a \in SparseAreas(w)
                              THEN dst[a] \cup {Sparse(w)} ELSE dst[a]]
    /\ writing' = [writing EXCEPT ![w] = {}]
    /\ FGoto(w, "ret")
    /\ GroupUnchanged
    /\ UNCHANGED <<mu, dense_n, transposed, processed, recheck>>

-------------------------------------------------------------------------------

FStep(w) ==
    \/ DenseBegin(w) \/ DenseEnd(w) \/ MergeLock(w) \/ Merge(w)
    \/ SparseClear(w) \/ SparseSkip(w) \/ SparseTest(w)
    \/ RecheckLock(w) \/ RecheckSleep(w) \/ RecheckDone(w) \/ SparseEnd(w)

MMWorkerStep(w) ==
    \/ JobStep(w) /\ UNCHANGED mmvars
    \/ Call(w) \/ FStep(w) \/ Return(w)

MMMainStep ==
    \/ Mul
    \/ /\ \/ \E w \in Worker : Create(w)
          \/ InitLock \/ InitWait \/ InitWake \/ InitReturn
          \/ DoLock \/ DoBroadcast \/ DoReturn
          \/ ClearSetF \/ ClearLock \/ ClearBroadcast \/ Join
       /\ UNCHANGED mmvars

MMNext ==
    \/ MMMainStep
    \/ \E w \in Worker : MMWorkerStep(w)
    \/ Cleared /\ UNCHANGED mmvars

MMSpec ==
    /\ MMInit /\ [][MMNext]_allvars
    /\ WF_allvars(MMMainStep)
    /\ \A w \in Worker : WF_allvars(MMWorkerStep(w))

-------------------------------------------------------------------------------
(* Properties. *)

MMTypeOK ==
    /\ TypeOK
    /\ processed \in 0 .. n
    /\ recheck \subseteq {Worker0}
    /\ writing \in [Worker -> SUBSET Area]
    /\ \A a \in Area : dst[a] \subseteq
          {Old} \cup {Dense(w) : w \in Worker} \cup {Sparse(w) : w \in Worker}

(***************************************************************************)
(* abadd is a load, a xor and a store: no two workers may be writing the   *)
(* same part of dst.  In the slow direction this is what the recheck of    *)
(* processed is for.                                                       *)
(***************************************************************************)
NoConcurrentWrites ==
    \A v, w \in Worker : v # w => writing[v] \cap writing[w] = {}

(* What matmul_threaded_mul leaves in an area of dst. *)
Product(a) ==
    IF transposed
    THEN IF a = Top THEN {Old}
         ELSE {Dense(w) : w \in {v \in {a} : dense_n # 0}} \cup {Sparse(Worker0)}
    ELSE IF a = Top THEN IF dense_n = 0 THEN {Old} ELSE {Dense(w) : w \in Worker}
         ELSE {Sparse(a)}

(***************************************************************************)
(* When matmul_threaded_mul returns, each part of dst holds exactly the    *)
(* contributions of the blocks that cover it, and nothing of what it held  *)
(* before: no thread's share is lost, overwritten or added to old data.    *)
(***************************************************************************)
ProductComplete ==
    mpc = "ready" /\ jobs > 0 => \A a \in Area : dst[a] = Product(a)

(* Thread 0 is woken up, every product ends, and the group is cleared. *)
ProductsTerminate == <>(mpc = "cleared")

===============================================================================
