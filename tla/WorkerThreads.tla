----------------------------- MODULE WorkerThreads -----------------------------
(***************************************************************************)
(* The worker thread group of linalg/bwc/worker-threads.c: a controlling   *)
(* thread M creates n workers, has them all execute a function f with      *)
(* worker_threads_do, any number of times, then terminates them with       *)
(* worker_threads_clear.                                                   *)
(*                                                                         *)
(* Both condition variables are used WITHOUT a predicate loop (except in   *)
(* worker_threads_init), so correctness rests on who is asleep when a      *)
(* signal is sent.  The mutex tg->mu is explicit: a step acquires it, a    *)
(* later step of the same thread does the work of the critical section     *)
(* and releases it, by unlocking or by going to sleep.                     *)
(***************************************************************************)
EXTENDS Integers, FiniteSets, Sequences

CONSTANTS
    Worker,             \* the worker threads (tg->n of them)
    MaxJobs,            \* bound: number of worker_threads_do calls
    MaxSpurious         \* bound: pthread_cond_wait calls that return unsignalled

ASSUME WorkerAssumption == IsFiniteSet(Worker) /\ Worker # {}
ASSUME JobsAssumption == MaxJobs \in Nat
ASSUME SpuriousAssumption == MaxSpurious \in Nat

M == "main"         \* the controlling thread
Free == "free"      \* value of mu when nobody owns it
NULL == 0           \* tg->f == NULL, the termination request

\* A worker is neither the controlling thread nor the absence of an owner.
ASSUME NamesAssumption == M \notin Worker /\ Free \notin Worker

VARIABLES
    mu,         \* owner of tg->mu, or Free
    cond_in,    \* workers asleep on tg->cond_in
    cond_out,   \* {M} when the controlling thread sleeps on tg->cond_out
    working,    \* tg->working
    done,       \* tg->done
    f,          \* tg->f: the number of the job, or NULL
    mpc,        \* where the controlling thread is
    wpc,        \* where each worker is ("none": not created yet)
    jobs,       \* number of worker_threads_do calls that have returned
    calls,      \* calls[w]: the jobs for which w has called f, in order
    spurious    \* number of spurious wakeups so far

tgvars == <<mu, cond_in, cond_out, working, done, f>>
vars == <<mu, cond_in, cond_out, working, done, f, mpc, wpc, jobs, calls,
          spurious>>

n == Cardinality(Worker)

(* The workers not inside pthread_create yet: threads run while M still    *)
(* creates the others.                                                     *)
NotCreated == {w \in Worker : wpc[w] = "none"}

Init ==
    /\ mu = Free
    /\ cond_in = {} /\ cond_out = {}
    /\ working = 0 /\ done = 0
    /\ f \in {NULL, MaxJobs + 1}    \* malloc'ed, uninitialised
    /\ mpc = "create"
    /\ wpc = [w \in Worker |-> "none"]
    /\ jobs = 0
    /\ calls = [w \in Worker |-> <<>>]
    /\ spurious = 0

-------------------------------------------------------------------------------
(* pthread primitives. *)

Lock(t)   == mu = Free /\ mu' = t
Unlock(t) == mu' = Free

(* pthread_cond_wait gives the mutex up and falls asleep in one step. *)
SleepIn(w) == mu' = Free /\ cond_in' = cond_in \cup {w}
SleepOut   == mu' = Free /\ cond_out' = {M}

(* pthread_cond_signal(&tg->cond_out): only M ever sleeps there. *)
SignalOut == cond_out' = {}

-------------------------------------------------------------------------------
(* thread_job *)

WGoto(w, l) == wpc' = [wpc EXCEPT ![w] = l]

StartLock(w) ==
    /\ wpc[w] = "start"
    /\ Lock(w)
    /\ WGoto(w, "start_cs")
    /\ UNCHANGED <<cond_in, cond_out, working, done, f, mpc, jobs, calls, spurious>>

StartStandby(w) ==
    /\ wpc[w] = "start_cs"
    /\ working' = working + 1
    /\ SignalOut
    /\ SleepIn(w)
    /\ WGoto(w, "standby")
    /\ UNCHANGED <<done, f, mpc, jobs, calls, spurious>>

(* pthread_cond_wait(&tg->cond_in) returns, with the mutex. *)
Wake(w) ==
    /\ wpc[w] = "standby"
    /\ w \notin cond_in
    /\ Lock(w)
    /\ WGoto(w, "wake_cs")
    /\ UNCHANGED <<cond_in, cond_out, working, done, f, mpc, jobs, calls, spurious>>

(* Mutant of WakeUnlock: f is called with the mutex held. *)
WakeKeepingMutex(w) ==
    /\ wpc[w] = "wake_cs"
    /\ working' = working + 1
    /\ WGoto(w, "check")
    /\ UNCHANGED <<mu, cond_in, cond_out, done, f, mpc, jobs, calls, spurious>>

WakeUnlock(w) ==
    /\ wpc[w] = "wake_cs"
    /\ working' = working + 1
    /\ Unlock(w)
    /\ WGoto(w, "check")
    /\ UNCHANGED <<cond_in, cond_out, done, f, mpc, jobs, calls, spurious>>

(* With the mutex released: look at tg->f and call it, unless it is NULL. *)
CallF(w) ==
    /\ wpc[w] = "check"
    /\ f # NULL
    /\ calls' = [calls EXCEPT ![w] = Append(@, f)]
    /\ WGoto(w, "run")
    /\ UNCHANGED <<tgvars, mpc, jobs, spurious>>

Break(w) ==
    /\ wpc[w] = "check"
    /\ f = NULL
    /\ WGoto(w, "exit")
    /\ UNCHANGED <<tgvars, mpc, jobs, calls, spurious>>

ReturnF(w) ==
    /\ wpc[w] = "run"
    /\ WGoto(w, "finish")
    /\ UNCHANGED <<tgvars, mpc, jobs, calls, spurious>>

FinishLock(w) ==
    /\ wpc[w] = "finish"
    /\ Lock(w)
    /\ WGoto(w, "finish_cs")
    /\ UNCHANGED <<cond_in, cond_out, working, done, f, mpc, jobs, calls, spurious>>

(* Mutant of FinishStandby: every finishing thread signals M. *)
FinishSignalling(w) ==
    /\ wpc[w] = "finish_cs"
    /\ SignalOut
    /\ \/ /\ done + 1 = n
          /\ done' = 0
          /\ working' = 0
       \/ /\ done + 1 # n
          /\ done' = done + 1
          /\ UNCHANGED working
    /\ SleepIn(w)
    /\ WGoto(w, "standby")
    /\ UNCHANGED <<f, mpc, jobs, calls, spurious>>

(* The n-th thread to finish resets the counters and releases M; every     *)
(* thread goes back to sleep without giving the mutex up in between.       *)
FinishStandby(w) ==
    /\ wpc[w] = "finish_cs"
    /\ \/ /\ done + 1 = n
          /\ done' = 0
          /\ working' = 0
          /\ SignalOut
       \/ /\ done + 1 # n
          /\ done' = done + 1
          /\ UNCHANGED <<working, cond_out>>
    /\ SleepIn(w)
    /\ WGoto(w, "standby")
    /\ UNCHANGED <<f, mpc, jobs, calls, spurious>>

(* After the break the code unlocks tg->mu, which this thread released     *)
(* before looking at tg->f.  The default mutex of the build has no owner   *)
(* check: it simply becomes free, whoever holds it.                        *)
Exit(w) ==
    /\ wpc[w] = "exit"
    /\ Unlock(w)
    /\ WGoto(w, "gone")
    /\ UNCHANGED <<cond_in, cond_out, working, done, f, mpc, jobs, calls, spurious>>

-------------------------------------------------------------------------------
(* worker_threads_init *)

MGoto(l) == mpc' = l

Create(w) ==
    /\ mpc = "create"
    /\ wpc[w] = "none"
    /\ WGoto(w, "start")
    /\ UNCHANGED <<tgvars, mpc, jobs, calls, spurious>>

InitLock ==
    /\ mpc = "create"
    /\ NotCreated = {}
    /\ Lock(M)
    /\ MGoto("init_cs")
    /\ UNCHANGED <<cond_in, cond_out, working, done, f, wpc, jobs, calls, spurious>>

InitWait ==
    /\ mpc = "init_cs"
    /\ working # n
    /\ SleepOut
    /\ MGoto("init_wait")
    /\ UNCHANGED <<cond_in, working, done, f, wpc, jobs, calls, spurious>>

InitWake ==
    /\ mpc = "init_wait"
    /\ cond_out = {}
    /\ Lock(M)
    /\ MGoto("init_cs")
    /\ UNCHANGED <<cond_in, cond_out, working, done, f, wpc, jobs, calls, spurious>>

InitReturn ==
    /\ mpc = "init_cs"
    /\ working = n
    /\ Unlock(M)
    /\ MGoto("ready")
    /\ UNCHANGED <<cond_in, cond_out, working, done, f, wpc, jobs, calls, spurious>>

-------------------------------------------------------------------------------
(* worker_threads_do *)

(* tg->f is assigned before the mutex is taken. *)
DoSetF ==
    /\ mpc = "ready"
    /\ jobs < MaxJobs
    /\ f' = jobs + 1
    /\ MGoto("do_lock")
    /\ UNCHANGED <<mu, cond_in, cond_out, working, done, wpc, jobs, calls, spurious>>

DoLock ==
    /\ mpc = "do_lock"
    /\ Lock(M)
    /\ MGoto("do_cs")
    /\ UNCHANGED <<cond_in, cond_out, working, done, f, wpc, jobs, calls, spurious>>

DoBroadcast ==
    /\ mpc = "do_cs"
    /\ cond_in' = {}
    /\ SleepOut
    /\ MGoto("do_wait")
    /\ UNCHANGED <<working, done, f, wpc, jobs, calls, spurious>>

(* pthread_cond_wait(&tg->cond_out) returns once; there is no predicate. *)
DoReturn ==
    /\ mpc = "do_wait"
    /\ cond_out = {}
    /\ mu = Free /\ mu' = Free
    /\ jobs' = jobs + 1
    /\ MGoto("ready")
    /\ UNCHANGED <<cond_in, cond_out, working, done, f, wpc, calls, spurious>>

-------------------------------------------------------------------------------
(* worker_threads_clear *)

ClearSetF ==
    /\ mpc = "ready"
    /\ jobs = MaxJobs
    /\ f' = NULL
    /\ MGoto("clear_lock")
    /\ UNCHANGED <<mu, cond_in, cond_out, working, done, wpc, jobs, calls, spurious>>

ClearLock ==
    /\ mpc = "clear_lock"
    /\ Lock(M)
    /\ MGoto("clear_cs")
    /\ UNCHANGED <<cond_in, cond_out, working, done, f, wpc, jobs, calls, spurious>>

(* Mutant of ClearBroadcast: a signal wakes up a single worker. *)
ClearSignal ==
    /\ mpc = "clear_cs"
    /\ \E w \in cond_in : cond_in' = cond_in \ {w}
    /\ Unlock(M)
    /\ MGoto("join")
    /\ UNCHANGED <<cond_out, working, done, f, wpc, jobs, calls, spurious>>

ClearBroadcast ==
    /\ mpc = "clear_cs"
    /\ cond_in' = {}
    /\ Unlock(M)
    /\ MGoto("join")
    /\ UNCHANGED <<cond_out, working, done, f, wpc, jobs, calls, spurious>>

Join ==
    /\ mpc = "join"
    /\ \A w \in Worker : wpc[w] = "gone"
    /\ MGoto("cleared")
    /\ UNCHANGED <<tgvars, wpc, jobs, calls, spurious>>

-------------------------------------------------------------------------------

(* POSIX: "Spurious wakeups from pthread_cond_wait() may occur". *)
Spurious ==
    /\ spurious < MaxSpurious
    /\ spurious' = spurious + 1
    /\ \/ \E w \in cond_in : cond_in' = cond_in \ {w} /\ UNCHANGED cond_out
       \/ cond_out # {} /\ cond_out' = {} /\ UNCHANGED cond_in
    /\ UNCHANGED <<mu, working, done, f, mpc, wpc, jobs, calls>>

Cleared == mpc = "cleared" /\ UNCHANGED vars

(* The steps of thread_job, the body of f excepted. *)
JobStep(w) ==
    \/ StartLock(w) \/ StartStandby(w) \/ Wake(w) \/ WakeUnlock(w)
    \/ Break(w) \/ FinishLock(w) \/ FinishStandby(w) \/ Exit(w)

WorkerStep(w) == JobStep(w) \/ CallF(w) \/ ReturnF(w)

MainStep ==
    \/ \E w \in Worker : Create(w)
    \/ InitLock \/ InitWait \/ InitWake \/ InitReturn
    \/ DoSetF \/ DoLock \/ DoBroadcast \/ DoReturn
    \/ ClearSetF \/ ClearLock \/ ClearBroadcast \/ Join

Next == MainStep \/ (\E w \in Worker : WorkerStep(w)) \/ Spurious \/ Cleared

Spec == Init /\ [][Next]_vars

(* The scheduler runs every thread that can run; a thread that finds the   *)
(* mutex free gets it eventually (each of them takes it finitely often).   *)
Fairness == WF_vars(MainStep) /\ \A w \in Worker : WF_vars(WorkerStep(w))

FairSpec == Spec /\ Fairness

(* Properties. *)

TypeOK ==
    /\ mu \in {Free, M} \cup Worker
    /\ cond_in \subseteq Worker /\ cond_out \subseteq {M}
    /\ working \in Nat /\ done \in Nat
    /\ spurious = 0 => working <= 2 * n /\ done < n
    /\ f \in 0 .. MaxJobs + 1
    /\ mpc \in {"create", "init_cs", "init_wait", "ready", "do_lock", "do_cs",
                "do_wait", "clear_lock", "clear_cs", "join", "cleared"}
    /\ wpc \in [Worker -> {"none", "start", "start_cs", "standby", "wake_cs",
                           "check", "run", "finish", "finish_cs", "exit", "gone"}]
    /\ jobs \in 0 .. MaxJobs
    /\ spurious \in 0 .. MaxSpurious
    /\ \A w \in Worker : calls[w] \in Seq(1 .. MaxJobs + 1)

(* The threads between a pthread_mutex_lock (or the return of a            *)
(* pthread_cond_wait) and the matching release.                            *)
InCriticalSection ==
    {w \in Worker : wpc[w] \in {"start_cs", "wake_cs", "finish_cs"}}
    \cup {t \in {M} : mpc \in {"init_cs", "do_cs", "clear_cs"}}

(***************************************************************************)
(* Until a worker has gone through the exit path, tg->mu does what it is   *)
(* for: at most one thread is in a critical section, and it is the owner,  *)
(* spurious wakeups or not.                                                *)
(***************************************************************************)
ExclusiveUntilExit ==
    (\A w \in Worker : wpc[w] # "gone") =>
        InCriticalSection = IF mu = Free THEN {} ELSE {mu}

(***************************************************************************)
(* A broadcast on cond_in reaches every worker.  Nothing but the order of  *)
(* the previous round guarantees it: a worker that is not asleep yet would *)
(* miss the job, and M would wait for ever.  This, like the three          *)
(* properties below, is claimed as long as no wait returned unsignalled.   *)
(***************************************************************************)
NobodyMissesBroadcast ==
    mpc \in {"do_cs", "clear_cs"} /\ spurious = 0 => cond_in = Worker

(***************************************************************************)
(* (2) and (2') of worker-threads.h: when worker_threads_do returns, every *)
(* worker has executed f exactly once for each call so far, with the f of  *)
(* that call, and the group is back on standby.                            *)
(***************************************************************************)
EachJobOncePerWorker ==
    mpc = "ready" /\ spurious = 0 =>
        /\ \A w \in Worker : calls[w] = [i \in 1 .. jobs |-> i]
        /\ cond_in = Worker
        /\ done = 0

(***************************************************************************)
(* f only runs while M waits inside worker_threads_do, so that the caller  *)
(* may change f's data between two calls without a lock.                   *)
(***************************************************************************)
RunsOnlyDuringDo ==
    \A w \in Worker :
        wpc[w] \in {"run", "finish", "finish_cs"} /\ spurious = 0 =>
            mpc = "do_wait" /\ calls[w][Len(calls[w])] = jobs + 1

(* Every call returns, and worker_threads_clear joins all the workers. *)
ClearTerminates == <>(mpc = "cleared" \/ spurious > 0)

\* The protocol of worker-threads.h between the calls: nobody misses a
\* broadcast, each worker runs each job once, and only inside worker_threads_do.
JobsRunOnce ==
    TypeOK /\ NobodyMissesBroadcast /\ EachJobOncePerWorker /\ RunsOnlyDuringDo

===============================================================================
