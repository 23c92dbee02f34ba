----------------------------- MODULE ThreadProofs -----------------------------
(***************************************************************************)
(* TLAPS proofs about WorkerThreads and MatmulThreaded, for every finite   *)
(* set of workers, any number of calls of worker_threads_do and any bound  *)
(* on the spurious wakeups.                                                *)
(*                                                                         *)
(* WorkerThreads: the two invariants are independent.  Exclusion follows   *)
(* from who may change tg->mu.  That every worker runs every job once does *)
(* not need the mutex beyond the atomicity of its critical sections: it    *)
(* follows from counting the workers that are asleep, phase by phase of    *)
(* the controlling thread.  Nothing in GroupInv mentions tg->mu, so that   *)
(* the proofs about MatmulThreaded, whose f locks it too, can use the same *)
(* lemmas.                                                                 *)
(*                                                                         *)
(* MatmulThreaded: no two workers write the same part of the destination   *)
(* vector, and every product is complete.  What a worker has done of the   *)
(* current product is a function of where it is (Stage).  The invariant    *)
(* says what processed, dst and writing hold for given stages, and that    *)
(* thread 0 has reached the sparse blocks in the slow direction only if    *)
(* nobody is left in the dense ones.                                       *)
(***************************************************************************)
EXTENDS MatmulThreaded, FiniteSetTheorems, TLAPS

WorkerPlaces == {"none", "start", "start_cs", "standby", "wake_cs",
                 "check", "run", "finish", "finish_cs", "exit", "gone"}
MainPlaces == {"create", "init_cs", "init_wait", "ready", "do_lock", "do_cs",
               "do_wait", "clear_lock", "clear_cs", "join", "cleared"}

(* Types, whatever wakes up.  A do is under way only if one is left.       *)
Typed ==
    /\ cond_in \in SUBSET Worker /\ cond_out \in SUBSET {M}
    /\ working \in Nat /\ done \in Nat
    /\ f \in 0 .. MaxJobs + 1
    /\ mpc \in MainPlaces
    /\ wpc \in [Worker -> WorkerPlaces]
    /\ jobs \in 0 .. MaxJobs
    /\ mpc \in {"do_lock", "do_cs", "do_wait"} => jobs < MaxJobs
    /\ spurious \in 0 .. MaxSpurious
    /\ calls \in [Worker -> Seq(1 .. MaxJobs + 1)]
    /\ \A w \in cond_in : wpc[w] = "standby"

Upto(k) == [i \in 1 .. k |-> i]

(* The workers that have counted themselves in working since the broadcast. *)
Woken == {w \in Worker :
            \/ w \in cond_in
            \/ wpc[w] \in {"check", "run", "finish", "finish_cs", "exit", "gone"}}

(* worker_threads_init: working counts the workers that have gone to sleep. *)
Starting ==
    mpc \in {"create", "init_cs", "init_wait"} =>
        /\ \A w \in Worker :
              /\ wpc[w] \in {"none", "start", "start_cs", "standby"}
              /\ wpc[w] = "standby" => w \in cond_in
              /\ calls[w] = Upto(0)
        /\ working = Cardinality(cond_in)
        /\ done = 0 /\ jobs = 0

(* Between two calls, until the broadcast, everybody sleeps on cond_in.    *)
OnStandby ==
    mpc \in {"ready", "do_lock", "do_cs", "clear_lock", "clear_cs"} =>
        /\ cond_in = Worker
        /\ done = 0 /\ working <= n
        /\ \A w \in Worker : calls[w] = Upto(jobs)
        /\ mpc \in {"do_lock", "do_cs"} => f = jobs + 1
        /\ mpc \in {"clear_lock", "clear_cs"} => f = NULL

(* While M sleeps, done counts the workers that are back on standby, and   *)
(* somebody is not.                                                        *)
Doing ==
    mpc = "do_wait" /\ cond_out # {} =>
        /\ f = jobs + 1
        /\ cond_in # Worker
        /\ done = Cardinality(cond_in)
        /\ working <= n + Cardinality(Woken)
        /\ \A w \in Worker :
              /\ wpc[w] \in {"standby", "wake_cs", "check", "run", "finish", "finish_cs"}
              /\ w \in cond_in \/ wpc[w] \in {"run", "finish", "finish_cs"} =>
                    calls[w] = Upto(jobs + 1)
              /\ w \notin cond_in /\ wpc[w] \in {"standby", "wake_cs", "check"} =>
                    calls[w] = Upto(jobs)

(* The last worker has signalled M, which has not returned yet.            *)
Finished ==
    mpc = "do_wait" /\ cond_out = {} =>
        /\ cond_in = Worker
        /\ done = 0 /\ working = 0
        /\ \A w \in Worker : calls[w] = Upto(jobs + 1)

(* The workers are woken up to exit.                                       *)
Ending ==
    mpc \in {"join", "cleared"} =>
        /\ f = NULL
        /\ done = 0
        /\ working <= n + Cardinality(Woken)
        /\ cond_in = {}
        /\ \A w \in Worker : wpc[w] \in {"standby", "wake_cs", "check", "exit", "gone"}

Phases == Starting /\ OnStandby /\ Doing /\ Finished /\ Ending

GroupInv == Typed /\ (spurious = 0 => Phases)

-------------------------------------------------------------------------------
(* Counting and sequences. *)

LEMMA SomeWorkers ==
    /\ n \in Nat
    /\ n > 0
  <1>1. n \in Nat
    BY FS_CardinalityType, WorkerAssumption DEF n
  <1>2. n # 0
    BY FS_EmptySet, WorkerAssumption DEF n
  <1> QED
    BY <1>1, <1>2

\* The size of a set of workers, and what it says when it is extreme.
LEMMA Counting ==
    ASSUME NEW S \in SUBSET Worker
    PROVE  /\ IsFiniteSet(S)
           /\ Cardinality(S) \in Nat
           /\ Cardinality(S) <= n
           /\ Cardinality(S) = n <=> S = Worker
  <1>1. /\ IsFiniteSet(S)
        /\ Cardinality(S) <= n
        /\ Cardinality(S) = n => S = Worker
    BY FS_Subset, WorkerAssumption DEF n
  <1>2. Cardinality(S) \in Nat
    BY <1>1, FS_CardinalityType
  <1> QED
    BY <1>1, <1>2 DEF n

LEMMA OneMore ==
    ASSUME NEW S \in SUBSET Worker, NEW w \in Worker, w \notin S
    PROVE  /\ S \cup {w} \in SUBSET Worker
           /\ Cardinality(S \cup {w}) = Cardinality(S) + 1
  BY Counting, FS_AddElement

LEMMA NoneCounted == Cardinality({}) = 0
  BY FS_EmptySet

\* Calling f for the job after k.
LEMMA NextJob ==
    ASSUME NEW k \in Nat
    PROVE  /\ Append(Upto(k), k + 1) = Upto(k + 1)
           /\ Len(Upto(k + 1)) = k + 1
           /\ Upto(k + 1)[Len(Upto(k + 1))] = k + 1
           /\ Upto(k) \in Seq(1 .. k)
  <1>1. Upto(k) \in Seq(Nat) /\ Len(Upto(k)) = k /\ Upto(k) \in Seq(1 .. k)
    BY DEF Upto
  <1>2. Upto(k + 1) \in Seq(Nat) /\ Len(Upto(k + 1)) = k + 1
    BY DEF Upto
  <1>3. Append(Upto(k), k + 1) = Upto(k + 1)
    BY <1>1, <1>2 DEF Upto
  <1> QED
    BY <1>1, <1>2, <1>3 DEF Upto

-------------------------------------------------------------------------------
(* Every step keeps the invariant: one lemma per action. *)

LEMMA GroupInit == Init => GroupInv
  <1> SUFFICES ASSUME Init PROVE GroupInv
    OBVIOUS
  <1>1. Typed
    BY JobsAssumption, SpuriousAssumption
    DEF Init, Typed, MainPlaces, WorkerPlaces, NULL, Free, M
  <1>2. Starting
    BY NoneCounted DEF Init, Starting, Upto
  <1>3. OnStandby /\ Doing /\ Finished /\ Ending
    BY DEF Init, OnStandby, Doing, Finished, Ending
  <1> QED
    BY <1>1, <1>2, <1>3 DEF GroupInv, Phases

\* The steps of a worker that only move it to another place.
LEMMA Moves ==
    ASSUME GroupInv, NEW w \in Worker,
           NEW from, NEW to \in WorkerPlaces,
           <<from, to>> \in {<<"none", "start">>, <<"start", "start_cs">>,
                             <<"standby", "wake_cs">>, <<"finish", "finish_cs">>,
                             <<"exit", "gone">>, <<"run", "finish">>},
           wpc[w] = from, w \notin cond_in,
           WGoto(w, to),
           UNCHANGED <<cond_in, cond_out, working, done, f, mpc, jobs, calls, spurious>>
    PROVE  GroupInv'
  <1>1. /\ wpc' = [wpc EXCEPT ![w] = to]
        /\ cond_in' = cond_in /\ cond_out' = cond_out /\ working' = working
        /\ done' = done /\ f' = f /\ mpc' = mpc /\ jobs' = jobs
        /\ calls' = calls /\ spurious' = spurious
    BY DEF WGoto
  <1>2. Typed'
    BY <1>1 DEF GroupInv, Typed
  <1>3. ASSUME spurious = 0 PROVE Phases'
    <2>1. Phases /\ Typed
      BY <1>3 DEF GroupInv
    <2>2. Woken' = Woken
      BY <1>1, <2>1 DEF Woken, Typed
    <2>3. Starting'
      BY <1>1, <2>1 DEF Phases, Starting, Typed
    <2>4. OnStandby' /\ Finished'
      BY <1>1, <2>1 DEF Phases, OnStandby, Finished, Typed
    <2>5. Doing'
      BY <1>1, <2>1, <2>2 DEF Phases, Doing, Typed
    <2>6. Ending'
      BY <1>1, <2>1, <2>2 DEF Phases, Ending, Typed
    <2> QED
      BY <2>3, <2>4, <2>5, <2>6 DEF Phases
  <1> QED
    BY <1>1, <1>2, <1>3 DEF GroupInv

LEMMA StartStandbyKeeps ==
    ASSUME GroupInv, NEW w \in Worker, StartStandby(w)
    PROVE  GroupInv'
  <1>1. /\ wpc[w] = "start_cs"
        /\ wpc' = [wpc EXCEPT ![w] = "standby"]
        /\ cond_in' = cond_in \cup {w} /\ cond_out' = {} /\ working' = working + 1
        /\ done' = done /\ f' = f /\ mpc' = mpc /\ jobs' = jobs
        /\ calls' = calls /\ spurious' = spurious
    BY DEF StartStandby, WGoto, SleepIn, SignalOut
  <1>2. Typed'
    BY <1>1 DEF GroupInv, Typed, WorkerPlaces
  <1>3. ASSUME spurious = 0 PROVE Phases'
    <2>1. Phases /\ Typed
      BY <1>3 DEF GroupInv
    <2>2. w \notin cond_in
      BY <1>1, <2>1 DEF Typed
    <2>3. mpc \in {"create", "init_cs", "init_wait"}
      BY <1>1, <2>1, <2>2 DEF Phases, OnStandby, Doing, Finished, Ending, Typed, MainPlaces
    <2>4. Cardinality(cond_in') = Cardinality(cond_in) + 1
      BY <1>1, <2>1, <2>2, OneMore DEF Typed
    <2>5. Starting'
      BY <1>1, <2>1, <2>3, <2>4 DEF Phases, Starting, Typed
    <2> QED
      BY <1>1, <2>3, <2>5 DEF Phases, OnStandby, Doing, Finished, Ending
  <1> QED
    BY <1>1, <1>2, <1>3 DEF GroupInv

\* A worker that has been woken up counts itself and leaves the mutex.
LEMMA WakeUnlockKeeps ==
    ASSUME GroupInv, NEW w \in Worker, WakeUnlock(w)
    PROVE  GroupInv'
  <1>1. /\ wpc[w] = "wake_cs"
        /\ wpc' = [wpc EXCEPT ![w] = "check"]
        /\ working' = working + 1
        /\ cond_in' = cond_in /\ cond_out' = cond_out
        /\ done' = done /\ f' = f /\ mpc' = mpc /\ jobs' = jobs
        /\ calls' = calls /\ spurious' = spurious
    BY DEF WakeUnlock, WGoto
  <1>2. Typed'
    BY <1>1 DEF GroupInv, Typed, WorkerPlaces
  <1>3. ASSUME spurious = 0 PROVE Phases'
    <2>1. Phases /\ Typed
      BY <1>3 DEF GroupInv
    <2>2. w \notin cond_in
      BY <1>1, <2>1 DEF Typed
    <2>3. /\ Woken \in SUBSET Worker
          /\ w \notin Woken
          /\ Woken' = Woken \cup {w}
      BY <1>1, <2>1, <2>2 DEF Woken, Typed
    <2>4. Cardinality(Woken') = Cardinality(Woken) + 1
      BY <2>3, OneMore
    <2>5. Cardinality(Woken) \in Nat /\ n \in Nat
      BY <2>3, Counting, SomeWorkers
    <2>6. Starting' /\ OnStandby' /\ Finished'
      BY <1>1, <2>1, <2>2 DEF Phases, Starting, OnStandby, Finished, Typed
    <2>7. Doing'
      BY <1>1, <2>1, <2>2, <2>4, <2>5 DEF Phases, Doing, Typed
    <2>8. Ending'
      BY <1>1, <2>1, <2>4, <2>5 DEF Phases, Ending, Typed
    <2> QED
      BY <2>6, <2>7, <2>8 DEF Phases
  <1> QED
    BY <1>1, <1>2, <1>3 DEF GroupInv

LEMMA CallFKeeps ==
    ASSUME GroupInv, NEW w \in Worker, CallF(w)
    PROVE  GroupInv'
  <1>1. /\ wpc[w] = "check" /\ f # NULL
        /\ wpc' = [wpc EXCEPT ![w] = "run"]
        /\ calls' = [calls EXCEPT ![w] = Append(calls[w], f)]
        /\ cond_in' = cond_in /\ cond_out' = cond_out /\ working' = working
        /\ done' = done /\ f' = f /\ mpc' = mpc /\ jobs' = jobs
        /\ spurious' = spurious
    BY DEF CallF, WGoto, tgvars
  <1>2. Typed'
    <2>1. f \in 1 .. MaxJobs + 1
      BY <1>1, JobsAssumption DEF GroupInv, Typed, NULL
    <2>2. calls' \in [Worker -> Seq(1 .. MaxJobs + 1)]
      BY <1>1, <2>1 DEF GroupInv, Typed
    <2> QED
      BY <1>1, <2>2 DEF GroupInv, Typed, WorkerPlaces
  <1>3. ASSUME spurious = 0 PROVE Phases'
    <2>1. Phases /\ Typed
      BY <1>3 DEF GroupInv
    <2>2. w \notin cond_in
      BY <1>1, <2>1 DEF Typed
    <2>3. mpc = "do_wait" /\ cond_out # {}
      BY <1>1, <2>1, <2>2 DEF Phases, Starting, OnStandby, Finished, Ending, Typed, MainPlaces
    <2>4. Woken' = Woken
      BY <1>1, <2>1 DEF Woken, Typed
    <2>5. calls[w] = Upto(jobs) /\ f = jobs + 1
      BY <1>1, <2>1, <2>2, <2>3 DEF Phases, Doing
    <2>6. calls'[w] = Upto(jobs + 1)
      <3>1. jobs \in Nat
        BY <2>1, JobsAssumption DEF Typed
      <3>2. Append(Upto(jobs), jobs + 1) = Upto(jobs + 1)
        BY <3>1, NextJob
      <3> QED
        BY <1>1, <2>1, <2>5, <3>2 DEF Typed
    <2>7. Doing'
      BY <1>1, <2>1, <2>2, <2>3, <2>4, <2>6 DEF Phases, Doing, Typed
    <2> QED
      BY <1>1, <2>3, <2>7 DEF Phases, Starting, OnStandby, Finished, Ending
  <1> QED
    BY <1>1, <1>2, <1>3 DEF GroupInv

LEMMA BreakKeeps ==
    ASSUME GroupInv, NEW w \in Worker, Break(w)
    PROVE  GroupInv'
  <1>1. /\ wpc[w] = "check" /\ f = NULL
        /\ wpc' = [wpc EXCEPT ![w] = "exit"]
        /\ cond_in' = cond_in /\ cond_out' = cond_out /\ working' = working
        /\ done' = done /\ f' = f /\ mpc' = mpc /\ jobs' = jobs
        /\ calls' = calls /\ spurious' = spurious
    BY DEF Break, WGoto, tgvars
  <1>2. Typed'
    BY <1>1 DEF GroupInv, Typed, WorkerPlaces
  <1>3. ASSUME spurious = 0 PROVE Phases'
    <2>1. Phases /\ Typed
      BY <1>3 DEF GroupInv
    <2>2. w \notin cond_in
      BY <1>1, <2>1 DEF Typed
    <2>3. mpc \in {"join", "cleared"}
      BY <1>1, <2>1, <2>2
      DEF Phases, Starting, OnStandby, Doing, Finished, Typed, MainPlaces, NULL
    <2>4. Woken' = Woken
      BY <1>1, <2>1 DEF Woken, Typed
    <2>5. Ending'
      BY <1>1, <2>1, <2>3, <2>4 DEF Phases, Ending, Typed
    <2> QED
      BY <1>1, <2>3, <2>5 DEF Phases, Starting, OnStandby, Doing, Finished
  <1> QED
    BY <1>1, <1>2, <1>3 DEF GroupInv

\* The last worker to finish finds everybody else on standby.
LEMMA FinishStandbyKeeps ==
    ASSUME GroupInv, NEW w \in Worker, FinishStandby(w)
    PROVE  GroupInv'
  <1>1. /\ wpc[w] = "finish_cs"
        /\ wpc' = [wpc EXCEPT ![w] = "standby"]
        /\ cond_in' = cond_in \cup {w}
        /\ f' = f /\ mpc' = mpc /\ jobs' = jobs
        /\ calls' = calls /\ spurious' = spurious
    BY DEF FinishStandby, WGoto, SleepIn
  <1>2. \/ done + 1 = n /\ done' = 0 /\ working' = 0 /\ cond_out' = {}
        \/ done + 1 # n /\ done' = done + 1 /\ working' = working /\ cond_out' = cond_out
    BY DEF FinishStandby, SignalOut
  <1>3. Typed'
    BY <1>1, <1>2 DEF GroupInv, Typed, WorkerPlaces
  <1>4. ASSUME spurious = 0 PROVE Phases'
    <2>1. Phases /\ Typed
      BY <1>4 DEF GroupInv
    <2>2. w \notin cond_in
      BY <1>1, <2>1 DEF Typed
    <2>3. mpc = "do_wait" /\ cond_out # {}
      BY <1>1, <2>1, <2>2 DEF Phases, Starting, OnStandby, Finished, Ending, Typed, MainPlaces
    <2>4. /\ Cardinality(cond_in') = done + 1
          /\ cond_in' \in SUBSET Worker
      BY <1>1, <2>1, <2>2, <2>3, OneMore DEF Phases, Doing, Typed
    <2>5. done + 1 = n <=> cond_in' = Worker
      BY <2>4, Counting
    <2>6. Woken' = Woken
      BY <1>1, <2>1 DEF Woken, Typed
    <2>7. CASE done + 1 = n
      BY <1>1, <1>2, <2>1, <2>3, <2>5, <2>7
      DEF Phases, Starting, OnStandby, Doing, Finished, Ending, Typed
    <2>8. CASE done + 1 # n
      <3>1. Doing'
        BY <1>1, <1>2, <2>1, <2>3, <2>4, <2>5, <2>6, <2>8 DEF Phases, Doing, Typed
      <3> QED
        BY <1>1, <1>2, <2>3, <2>8, <3>1 DEF Phases, Starting, OnStandby, Finished, Ending
    <2> QED
      BY <2>7, <2>8
  <1> QED
    BY <1>1, <1>3, <1>4 DEF GroupInv

LEMMA InitLockKeeps ==
    ASSUME GroupInv, InitLock
    PROVE  GroupInv'
  <1>1. /\ mpc = "create" /\ mpc' = "init_cs"
        /\ cond_in' = cond_in /\ cond_out' = cond_out
        /\ working' = working /\ done' = done /\ f' = f /\ wpc' = wpc
        /\ jobs' = jobs /\ calls' = calls /\ spurious' = spurious
    BY DEF InitLock, MGoto
  <1>2. Typed'
    BY <1>1 DEF GroupInv, Typed, MainPlaces
  <1>3. ASSUME spurious = 0 PROVE Phases'
    BY <1>1, <1>3 DEF GroupInv, Phases, Starting, OnStandby, Doing, Finished, Ending, Typed
  <1> QED
    BY <1>1, <1>2, <1>3 DEF GroupInv

LEMMA InitWaitKeeps ==
    ASSUME GroupInv, InitWait
    PROVE  GroupInv'
  <1>1. /\ mpc = "init_cs" /\ mpc' = "init_wait" /\ cond_out' = {M}
        /\ cond_in' = cond_in /\ working' = working /\ done' = done
        /\ f' = f /\ wpc' = wpc /\ jobs' = jobs /\ calls' = calls
        /\ spurious' = spurious
    BY DEF InitWait, MGoto, SleepOut
  <1>2. Typed'
    BY <1>1 DEF GroupInv, Typed, MainPlaces
  <1>3. ASSUME spurious = 0 PROVE Phases'
    BY <1>1, <1>3 DEF GroupInv, Phases, Starting, OnStandby, Doing, Finished, Ending, Typed
  <1> QED
    BY <1>1, <1>2, <1>3 DEF GroupInv

LEMMA InitWakeKeeps ==
    ASSUME GroupInv, InitWake
    PROVE  GroupInv'
  <1>1. /\ mpc = "init_wait" /\ mpc' = "init_cs"
        /\ cond_in' = cond_in /\ cond_out' = cond_out
        /\ working' = working /\ done' = done /\ f' = f /\ wpc' = wpc
        /\ jobs' = jobs /\ calls' = calls /\ spurious' = spurious
    BY DEF InitWake, MGoto
  <1>2. Typed'
    BY <1>1 DEF GroupInv, Typed, MainPlaces
  <1>3. ASSUME spurious = 0 PROVE Phases'
    BY <1>1, <1>3 DEF GroupInv, Phases, Starting, OnStandby, Doing, Finished, Ending, Typed
  <1> QED
    BY <1>1, <1>2, <1>3 DEF GroupInv

\* Everybody has been counted: everybody is asleep.
LEMMA InitReturnKeeps ==
    ASSUME GroupInv, InitReturn
    PROVE  GroupInv'
  <1>1. /\ mpc = "init_cs" /\ mpc' = "ready" /\ working = n
        /\ cond_in' = cond_in /\ cond_out' = cond_out
        /\ working' = working /\ done' = done /\ f' = f /\ wpc' = wpc
        /\ jobs' = jobs /\ calls' = calls /\ spurious' = spurious
    BY DEF InitReturn, MGoto, Unlock
  <1>2. Typed'
    BY <1>1 DEF GroupInv, Typed, MainPlaces
  <1>3. ASSUME spurious = 0 PROVE Phases'
    <2>1. Phases /\ Typed
      BY <1>3 DEF GroupInv
    <2>2. cond_in = Worker
      BY <1>1, <2>1, Counting DEF Phases, Starting, Typed
    <2>3. OnStandby'
      BY <1>1, <2>1, <2>2, SomeWorkers DEF Phases, Starting, OnStandby
    <2> QED
      BY <1>1, <2>3 DEF Phases, Starting, Doing, Finished, Ending
  <1> QED
    BY <1>1, <1>2, <1>3 DEF GroupInv

LEMMA DoSetFKeeps ==
    ASSUME GroupInv, DoSetF
    PROVE  GroupInv'
  <1>1. /\ mpc = "ready" /\ mpc' = "do_lock"
        /\ jobs < MaxJobs /\ f' = jobs + 1
        /\ cond_in' = cond_in /\ cond_out' = cond_out
        /\ working' = working /\ done' = done /\ wpc' = wpc
        /\ jobs' = jobs /\ calls' = calls /\ spurious' = spurious
    BY DEF DoSetF, MGoto
  <1>2. Typed'
    BY <1>1, JobsAssumption DEF GroupInv, Typed, MainPlaces
  <1>3. ASSUME spurious = 0 PROVE Phases'
    BY <1>1, <1>3 DEF GroupInv, Phases, Starting, OnStandby, Doing, Finished, Ending, Typed
  <1> QED
    BY <1>1, <1>2, <1>3 DEF GroupInv

LEMMA DoLockKeeps ==
    ASSUME GroupInv, DoLock
    PROVE  GroupInv'
  <1>1. /\ mpc = "do_lock" /\ mpc' = "do_cs"
        /\ cond_in' = cond_in /\ cond_out' = cond_out
        /\ working' = working /\ done' = done /\ f' = f /\ wpc' = wpc
        /\ jobs' = jobs /\ calls' = calls /\ spurious' = spurious
    BY DEF DoLock, MGoto
  <1>2. Typed'
    BY <1>1 DEF GroupInv, Typed, MainPlaces
  <1>3. ASSUME spurious = 0 PROVE Phases'
    BY <1>1, <1>3 DEF GroupInv, Phases, Starting, OnStandby, Doing, Finished, Ending, Typed
  <1> QED
    BY <1>1, <1>2, <1>3 DEF GroupInv

\* Everybody is asleep, so everybody is woken up.
LEMMA DoBroadcastKeeps ==
    ASSUME GroupInv, DoBroadcast
    PROVE  GroupInv'
  <1>1. /\ mpc = "do_cs" /\ mpc' = "do_wait"
        /\ cond_in' = {} /\ cond_out' = {M}
        /\ working' = working /\ done' = done /\ f' = f /\ wpc' = wpc
        /\ jobs' = jobs /\ calls' = calls /\ spurious' = spurious
    BY DEF DoBroadcast, MGoto, SleepOut
  <1>2. Typed'
    BY <1>1 DEF GroupInv, Typed, MainPlaces
  <1>3. ASSUME spurious = 0 PROVE Phases'
    <2>1. Phases /\ Typed
      BY <1>3 DEF GroupInv
    <2>2. cond_in = Worker /\ \A w \in Worker : wpc[w] = "standby"
      BY <1>1, <2>1 DEF Phases, OnStandby, Typed
    <2>3. Woken' = {}
      BY <1>1, <2>2 DEF Woken
    <2>4. Cardinality(Woken') = 0 /\ Cardinality(cond_in') = 0
      BY <1>1, <2>3, NoneCounted
    <2>5. Doing'
      BY <1>1, <2>1, <2>2, <2>4, SomeWorkers, WorkerAssumption
      DEF Phases, OnStandby, Doing, Typed
    <2> QED
      BY <1>1, <2>5 DEF Phases, Starting, OnStandby, Finished, Ending
  <1> QED
    BY <1>1, <1>2, <1>3 DEF GroupInv

LEMMA DoReturnKeeps ==
    ASSUME GroupInv, DoReturn
    PROVE  GroupInv'
  <1>1. /\ mpc = "do_wait" /\ mpc' = "ready"
        /\ cond_out = {} /\ jobs' = jobs + 1
        /\ cond_in' = cond_in /\ cond_out' = cond_out
        /\ working' = working /\ done' = done /\ f' = f /\ wpc' = wpc
        /\ calls' = calls /\ spurious' = spurious
    BY DEF DoReturn, MGoto
  <1>2. Typed'
    BY <1>1, JobsAssumption DEF GroupInv, Typed, MainPlaces
  <1>3. ASSUME spurious = 0 PROVE Phases'
    BY <1>1, <1>3, SomeWorkers
    DEF GroupInv, Phases, Starting, OnStandby, Doing, Finished, Ending, Typed
  <1> QED
    BY <1>1, <1>2, <1>3 DEF GroupInv

LEMMA ClearSetFKeeps ==
    ASSUME GroupInv, ClearSetF
    PROVE  GroupInv'
  <1>1. /\ mpc = "ready" /\ mpc' = "clear_lock" /\ f' = NULL
        /\ cond_in' = cond_in /\ cond_out' = cond_out
        /\ working' = working /\ done' = done /\ wpc' = wpc
        /\ jobs' = jobs /\ calls' = calls /\ spurious' = spurious
    BY DEF ClearSetF, MGoto
  <1>2. Typed'
    BY <1>1, JobsAssumption DEF GroupInv, Typed, MainPlaces, NULL
  <1>3. ASSUME spurious = 0 PROVE Phases'
    BY <1>1, <1>3
    DEF GroupInv, Phases, Starting, OnStandby, Doing, Finished, Ending, Typed, NULL
  <1> QED
    BY <1>1, <1>2, <1>3 DEF GroupInv

LEMMA ClearLockKeeps ==
    ASSUME GroupInv, ClearLock
    PROVE  GroupInv'
  <1>1. /\ mpc = "clear_lock" /\ mpc' = "clear_cs"
        /\ cond_in' = cond_in /\ cond_out' = cond_out
        /\ working' = working /\ done' = done /\ f' = f /\ wpc' = wpc
        /\ jobs' = jobs /\ calls' = calls /\ spurious' = spurious
    BY DEF ClearLock, MGoto
  <1>2. Typed'
    BY <1>1 DEF GroupInv, Typed, MainPlaces
  <1>3. ASSUME spurious = 0 PROVE Phases'
    BY <1>1, <1>3 DEF GroupInv, Phases, Starting, OnStandby, Doing, Finished, Ending, Typed
  <1> QED
    BY <1>1, <1>2, <1>3 DEF GroupInv

LEMMA ClearBroadcastKeeps ==
    ASSUME GroupInv, ClearBroadcast
    PROVE  GroupInv'
  <1>1. /\ mpc = "clear_cs" /\ mpc' = "join"
        /\ cond_in' = {}
        /\ cond_out' = cond_out /\ working' = working /\ done' = done
        /\ f' = f /\ wpc' = wpc /\ jobs' = jobs /\ calls' = calls
        /\ spurious' = spurious
    BY DEF ClearBroadcast, MGoto, Unlock
  <1>2. Typed'
    BY <1>1 DEF GroupInv, Typed, MainPlaces
  <1>3. ASSUME spurious = 0 PROVE Phases'
    <2>1. Phases /\ Typed
      BY <1>3 DEF GroupInv
    <2>2. cond_in = Worker /\ \A w \in Worker : wpc[w] = "standby"
      BY <1>1, <2>1 DEF Phases, OnStandby, Typed
    <2>3. Woken' = {}
      BY <1>1, <2>2 DEF Woken
    <2>4. Cardinality(Woken') = 0 /\ Cardinality(cond_in') = 0
      BY <1>1, <2>3, NoneCounted
    <2>5. Ending'
      BY <1>1, <2>1, <2>2, <2>4, SomeWorkers, WorkerAssumption
      DEF Phases, OnStandby, Ending, Typed
    <2> QED
      BY <1>1, <2>5 DEF Phases, Starting, OnStandby, Doing, Finished
  <1> QED
    BY <1>1, <1>2, <1>3 DEF GroupInv

LEMMA JoinKeeps ==
    ASSUME GroupInv, Join
    PROVE  GroupInv'
  <1>1. /\ mpc = "join" /\ mpc' = "cleared"
        /\ cond_in' = cond_in /\ cond_out' = cond_out
        /\ working' = working /\ done' = done /\ f' = f /\ wpc' = wpc
        /\ jobs' = jobs /\ calls' = calls /\ spurious' = spurious
    BY DEF Join, MGoto, tgvars
  <1>2. Typed'
    BY <1>1 DEF GroupInv, Typed, MainPlaces
  <1>3. ASSUME spurious = 0 PROVE Phases'
    <2>1. Phases /\ Typed
      BY <1>3 DEF GroupInv
    <2>2. Woken' = Woken
      BY <1>1 DEF Woken
    <2> QED
      BY <1>1, <2>1, <2>2 DEF Phases, Starting, OnStandby, Doing, Finished, Ending, Typed
  <1> QED
    BY <1>1, <1>2, <1>3 DEF GroupInv

\* After an unsignalled return only the types are claimed.
LEMMA SpuriousKeeps ==
    ASSUME GroupInv, Spurious
    PROVE  GroupInv'
  <1>1. /\ spurious' = spurious + 1 /\ spurious < MaxSpurious
        /\ cond_in' \in SUBSET cond_in /\ cond_out' \in SUBSET {M}
        /\ UNCHANGED <<working, done, f, mpc, wpc, jobs, calls>>
    BY DEF Spurious, GroupInv, Typed
  <1>2. Typed'
    BY <1>1, SpuriousAssumption DEF GroupInv, Typed
  <1>3. spurious' # 0
    BY <1>1, SpuriousAssumption DEF GroupInv, Typed
  <1> QED
    BY <1>2, <1>3 DEF GroupInv

LEMMA GroupStutter ==
    ASSUME GroupInv,
           UNCHANGED <<cond_in, cond_out, working, done, f, mpc, wpc, jobs, calls, spurious>>
    PROVE  GroupInv'
  <1>1. Woken' = Woken
    BY DEF Woken
  <1>2. Typed' = Typed
    BY DEF Typed
  <1>3. Phases' = Phases
    BY <1>1 DEF Phases, Starting, OnStandby, Doing, Finished, Ending
  <1> QED
    BY <1>2, <1>3 DEF GroupInv

\* The steps of thread_job, except for the call of f and its return.
LEMMA JobStepKeeps ==
    ASSUME GroupInv, NEW w \in Worker, JobStep(w)
    PROVE  GroupInv'
  <1> USE DEF WorkerPlaces
  <1>0. wpc[w] # "standby" => w \notin cond_in
    BY DEF GroupInv, Typed
  <1>1. CASE StartLock(w)
    BY <1>0, <1>1, Moves DEF StartLock
  <1>2. CASE StartStandby(w)
    BY <1>2, StartStandbyKeeps
  <1>3. CASE Wake(w)
    BY <1>3, Moves DEF Wake
  <1>4. CASE WakeUnlock(w)
    BY <1>4, WakeUnlockKeeps
  <1>5. CASE Break(w)
    BY <1>5, BreakKeeps
  <1>6. CASE FinishLock(w)
    BY <1>0, <1>6, Moves DEF FinishLock
  <1>7. CASE FinishStandby(w)
    BY <1>7, FinishStandbyKeeps
  <1>8. CASE Exit(w)
    BY <1>0, <1>8, Moves DEF Exit
  <1> QED
    BY <1>1, <1>2, <1>3, <1>4, <1>5, <1>6, <1>7, <1>8 DEF JobStep

LEMMA ReturnFKeeps ==
    ASSUME GroupInv, NEW w \in Worker, ReturnF(w)
    PROVE  GroupInv'
  <1>1. w \notin cond_in
    BY DEF GroupInv, Typed, ReturnF
  <1> QED
    BY <1>1, Moves DEF ReturnF, tgvars, WorkerPlaces

LEMMA CreateKeeps ==
    ASSUME GroupInv, NEW w \in Worker, Create(w)
    PROVE  GroupInv'
  <1>1. w \notin cond_in
    BY DEF GroupInv, Typed, Create
  <1> QED
    BY <1>1, Moves DEF Create, tgvars, WorkerPlaces

LEMMA GroupNext == GroupInv /\ [Next]_vars => GroupInv'
  <1> SUFFICES ASSUME GroupInv, [Next]_vars PROVE GroupInv'
    OBVIOUS
  <1>1. CASE MainStep
    BY <1>1, CreateKeeps, InitLockKeeps, InitWaitKeeps, InitWakeKeeps,
       InitReturnKeeps, DoSetFKeeps, DoLockKeeps, DoBroadcastKeeps,
       DoReturnKeeps, ClearSetFKeeps, ClearLockKeeps, ClearBroadcastKeeps,
       JoinKeeps DEF MainStep
  <1>2. CASE \E w \in Worker : WorkerStep(w)
    BY <1>2, JobStepKeeps, CallFKeeps, ReturnFKeeps DEF WorkerStep
  <1>3. CASE Spurious
    BY <1>3, SpuriousKeeps
  <1>4. CASE UNCHANGED vars
    BY <1>4, GroupStutter DEF vars
  <1> QED
    BY <1>1, <1>2, <1>3, <1>4 DEF Next, Cleared

-------------------------------------------------------------------------------
(* What the invariant says about the calls. *)

\* The counters stay below twice the number of workers.
LEMMA CountersBounded ==
    ASSUME GroupInv, spurious = 0
    PROVE  working <= 2 * n /\ done < n
  <1>1. Phases /\ Typed
    BY DEF GroupInv
  <1>2. /\ Cardinality(cond_in) \in Nat
        /\ Cardinality(cond_in) <= n
        /\ Cardinality(cond_in) = n <=> cond_in = Worker
    BY <1>1, Counting DEF Typed
  <1>3. Cardinality(Woken) \in Nat /\ Cardinality(Woken) <= n
    BY Counting DEF Woken
  <1> QED
    BY <1>1, <1>2, <1>3, SomeWorkers
    DEF Phases, Starting, OnStandby, Doing, Finished, Ending, Typed, MainPlaces

MuTyped == mu \in {Free, M} \cup Worker

\* The protocol of worker-threads.h between the calls.
LEMMA GroupImplies == GroupInv /\ MuTyped => JobsRunOnce
  <1> SUFFICES ASSUME GroupInv, MuTyped PROVE JobsRunOnce
    OBVIOUS
  <1>1. TypeOK
    BY CountersBounded DEF GroupInv, MuTyped, Typed, TypeOK, MainPlaces, WorkerPlaces
  <1>2. NobodyMissesBroadcast
    BY DEF GroupInv, Phases, OnStandby, NobodyMissesBroadcast
  <1>3. EachJobOncePerWorker
    BY DEF GroupInv, Phases, OnStandby, EachJobOncePerWorker, Upto
  <1>4. RunsOnlyDuringDo
    <2> SUFFICES ASSUME NEW w \in Worker, spurious = 0,
                        wpc[w] \in {"run", "finish", "finish_cs"}
                 PROVE  mpc = "do_wait" /\ calls[w][Len(calls[w])] = jobs + 1
      BY DEF RunsOnlyDuringDo
    <2>1. Phases /\ Typed
      BY DEF GroupInv
    <2>2. w \notin cond_in
      BY <2>1 DEF Typed
    <2>3. mpc = "do_wait" /\ calls[w] = Upto(jobs + 1)
      BY <2>1, <2>2 DEF Phases, Starting, OnStandby, Doing, Finished, Ending, Typed, MainPlaces
    <2>4. jobs \in Nat
      BY <2>1, JobsAssumption DEF Typed
    <2> QED
      BY <2>3, <2>4, NextJob
  <1> QED
    BY <1>1, <1>2, <1>3, <1>4 DEF JobsRunOnce

-------------------------------------------------------------------------------
(* The mutex. *)

(* Who holds the mutex, as far as its owner is among these threads.        *)
MutexInv ==
    /\ MuTyped
    /\ wpc \in [Worker -> WorkerPlaces]
    /\ ExclusiveUntilExit

LEMMA MutexNext == MutexInv /\ [Next]_vars => MutexInv'
  <1> SUFFICES ASSUME MutexInv, [Next]_vars PROVE MutexInv'
    OBVIOUS
  <1> USE NamesAssumption DEF MutexInv, MuTyped, WorkerPlaces, ExclusiveUntilExit,
      InCriticalSection, Lock, Unlock, WGoto, MGoto, tgvars
  <1>1. ASSUME NEW w \in Worker, StartLock(w) \/ Wake(w) \/ FinishLock(w)
        PROVE  MutexInv'
    BY <1>1 DEF StartLock, Wake, FinishLock
  <1>2. ASSUME NEW w \in Worker, StartStandby(w) \/ WakeUnlock(w) \/ FinishStandby(w)
        PROVE  MutexInv'
    BY <1>2 DEF StartStandby, WakeUnlock, FinishStandby, SleepIn
  <1>3. ASSUME NEW w \in Worker, CallF(w) \/ ReturnF(w) \/ Break(w) \/ Create(w)
        PROVE  MutexInv'
    BY <1>3 DEF CallF, ReturnF, Break, Create
  <1>4. ASSUME NEW w \in Worker, Exit(w)
        PROVE  MutexInv'
    BY <1>4 DEF Exit
  <1>5. CASE InitLock \/ InitWake \/ DoLock \/ ClearLock
    <2>1. mu = Free /\ mu' = M /\ wpc' = wpc /\ M # Free
      BY <1>5 DEF InitLock, InitWake, DoLock, ClearLock, M, Free
    <2>2. /\ mpc \notin {"init_cs", "do_cs", "clear_cs"}
          /\ mpc' \in {"init_cs", "do_cs", "clear_cs"}
      BY <1>5 DEF InitLock, InitWake, DoLock, ClearLock
    <2> QED
      BY <2>1, <2>2
  <1>6. CASE InitWait \/ InitReturn \/ DoBroadcast \/ ClearBroadcast
    BY <1>6 DEF InitWait, InitReturn, DoBroadcast, ClearBroadcast, SleepOut
  <1>7. CASE DoSetF \/ DoReturn \/ ClearSetF \/ Join
    BY <1>7 DEF DoSetF, DoReturn, ClearSetF, Join
  <1>8. CASE Spurious \/ UNCHANGED vars
    BY <1>8 DEF Spurious, vars
  <1> QED
    BY <1>1, <1>2, <1>3, <1>4, <1>5, <1>6, <1>7, <1>8
    DEF Next, MainStep, WorkerStep, JobStep, Cleared

LEMMA MutexInit == Init => MutexInv
  BY NamesAssumption
  DEF Init, MutexInv, MuTyped, WorkerPlaces, ExclusiveUntilExit, InCriticalSection

-------------------------------------------------------------------------------
(* The theorems. *)

\* Until the first worker has left through the exit path of thread_job,
\* tg->mu excludes: whatever wakes up, the one thread in a critical section
\* is its owner.
THEOREM Exclusive == Spec => []ExclusiveUntilExit
  <1>1. MutexInv => ExclusiveUntilExit
    BY DEF MutexInv
  <1> QED
    BY <1>1, MutexInit, MutexNext, PTL DEF Spec

\* A group whose waits only return when signalled does what worker-threads.h
\* promises: nobody misses a broadcast, every call of worker_threads_do has
\* every worker execute f exactly once, with the f of that call, before it
\* returns, and f runs only while M waits inside worker_threads_do.
THEOREM JobsOnce == Spec => []JobsRunOnce
  <1>1. MutexInv => MuTyped
    BY DEF MutexInv
  <1> QED
    BY <1>1, GroupInit, GroupNext, GroupImplies, MutexInit, MutexNext, PTL DEF Spec

-----------------------------------------------------------------------------

FPlaces == {"none", "dense", "dense_busy", "merge", "merge_cs", "sparse",
            "recheck", "recheck_cs", "sparse_busy", "ret"}
Contribution == {Old} \cup {Dense(w) : w \in Worker} \cup {Sparse(w) : w \in Worker}

\* Where the worker is in the current product, once M has broadcast it.
Stage == [w \in Worker |->
            IF wpc[w] = "run" THEN fpc[w]
            ELSE IF w \in cond_in \/ wpc[w] \in {"finish", "finish_cs"} THEN "ret"
            ELSE "none"]

\* The workers that have added their dense blocks.
Merged == {w \in Worker :
             Stage[w] \in {"sparse", "recheck", "recheck_cs", "sparse_busy", "ret"}}

\* What the areas of dst hold, in the direct multiplication and in the slow one.
DirectArea(a) ==
    IF a = Top
    THEN IF dense_n = 0 \/ Merged = {} THEN {Old} ELSE {Dense(w) : w \in Merged}
    ELSE CASE Stage[a] = "sparse_busy" -> {}
           [] Stage[a] = "ret" -> {Sparse(a)}
           [] OTHER -> {Old}

SlowArea(a) ==
    CASE a = Top -> {Old}
      [] a # Top /\ dense_n = 0 ->
            IF Stage[Worker0] = "sparse_busy" THEN {}
            ELSE IF Stage[Worker0] = "ret" THEN {Sparse(Worker0)} ELSE {Old}
      [] a # Top /\ dense_n # 0 ->
            IF Stage[a] \in {"none", "dense"} THEN {Old}
            ELSE IF Stage[a] = "dense_busy" THEN {}
            ELSE {Dense(a)} \cup (IF Stage[Worker0] = "ret" THEN {Sparse(Worker0)} ELSE {})

AreaNow(a) == IF transposed THEN SlowArea(a) ELSE DirectArea(a)

WritingNow(w) ==
    IF transposed
    THEN CASE fpc[w] = "dense_busy" -> {Stripe(w)}
           [] fpc[w] = "sparse_busy" -> AllStripes
           [] OTHER -> {}
    ELSE CASE fpc[w] = "merge_cs" -> {Top}
           [] fpc[w] = "sparse_busy" -> {Stripe(w)}
           [] OTHER -> {}

(* A worker without dense blocks skips their places, only thread 0 waits   *)
(* for the others, and it does the sparse blocks of the slow direction     *)
(* after everybody's dense ones.                                           *)
StageRight(w) ==
    /\ dense_n = 0 =>
          Stage[w] \notin {"dense", "dense_busy", "merge", "merge_cs", "recheck", "recheck_cs"}
    /\ Stage[w] \in {"recheck", "recheck_cs"} => transposed /\ w = Worker0
    /\ transposed /\ Stage[w] = "sparse_busy" => w = Worker0
    /\ transposed /\ w = Worker0 /\ dense_n # 0 /\ Stage[w] \in {"sparse_busy", "ret"} =>
          Merged = Worker

FTyped ==
    /\ dense_n \in {0, 1} /\ transposed \in BOOLEAN
    /\ processed \in Nat
    /\ recheck \in SUBSET {Worker0}
    /\ fpc \in [Worker -> FPlaces]
    /\ \A w \in Worker : fpc[w] = "none" <=> wpc[w] # "run"
    /\ dst \in [Area -> SUBSET Contribution]
    /\ writing \in [Worker -> SUBSET Area]
    /\ \A w \in Worker : writing[w] = WritingNow(w)

Fresh ==
    mpc \in {"do_lock", "do_cs"} =>
        processed = 0 /\ \A a \in Area : dst[a] = {Old}

Progress ==
    mpc = "do_wait" =>
        /\ processed = IF dense_n = 0 THEN 0 ELSE Cardinality(Merged)
        /\ \A w \in Worker : StageRight(w)
        /\ \A a \in Area : dst[a] = AreaNow(a)

MMInv ==
    /\ GroupInv /\ spurious = 0
    /\ FTyped
    /\ Fresh
    /\ Progress
    /\ ProductComplete

-------------------------------------------------------------------------------
(* Steps inside f. *)

\* A worker inside f runs while M waits, and only its own stage changes.
LEMMA InsideF ==
    ASSUME MMInv, NEW w \in Worker, wpc[w] = "run",
           NEW l \in FPlaces, l # "none", FGoto(w, l), GroupUnchanged
    PROVE  /\ GroupInv' /\ spurious' = 0
           /\ mpc = "do_wait" /\ mpc' = "do_wait"
           /\ Stage[w] = fpc[w]
           /\ Stage' = [Stage EXCEPT ![w] = l]
           /\ fpc' = [fpc EXCEPT ![w] = l]
           /\ wpc' = wpc
           /\ \A v \in Worker : fpc'[v] = "none" <=> wpc'[v] # "run"
           /\ fpc' \in [Worker -> FPlaces]
           /\ Fresh' /\ ProductComplete'
  <1>1. GroupInv' /\ spurious' = 0
    BY GroupStutter DEF GroupUnchanged, MMInv
  <1>2. w \notin cond_in
    BY DEF MMInv, GroupInv, Typed
  <1>3. mpc = "do_wait"
    BY <1>2
    DEF MMInv, GroupInv, Phases, Starting, OnStandby, Finished, Ending, Typed, MainPlaces
  <1>4. /\ wpc' = wpc /\ cond_in' = cond_in /\ mpc' = mpc
        /\ fpc' = [fpc EXCEPT ![w] = l]
        /\ fpc \in [Worker -> FPlaces]
        /\ \A v \in Worker : fpc[v] = "none" <=> wpc[v] # "run"
    BY DEF GroupUnchanged, FGoto, MMInv, FTyped
  <1>5. Stage' = [Stage EXCEPT ![w] = l]
    BY <1>4 DEF Stage
  <1> QED
    BY <1>1, <1>3, <1>4, <1>5 DEF Stage, Fresh, ProductComplete

\* The invariant during a product, unfolded.
LEMMA During ==
    ASSUME MMInv, mpc = "do_wait"
    PROVE  /\ dense_n \in {0, 1} /\ transposed \in BOOLEAN
           /\ processed = IF dense_n = 0 THEN 0 ELSE Cardinality(Merged)
           /\ \A w \in Worker : StageRight(w)
           /\ \A a \in Area : dst[a] = AreaNow(a)
           /\ dst \in [Area -> SUBSET Contribution]
           /\ \A v \in Worker : writing[v] = WritingNow(v)
           /\ writing \in [Worker -> SUBSET Area]
           /\ Stage \in [Worker -> FPlaces]
           /\ Merged \in SUBSET Worker
           /\ Cardinality(Merged) \in Nat
           /\ Cardinality(Merged) = 0 <=> Merged = {}
           /\ Cardinality(Merged) = n <=> Merged = Worker
           /\ recheck \in SUBSET {Worker0}
  <1>1. Stage \in [Worker -> FPlaces]
    BY DEF MMInv, FTyped, Stage, FPlaces
  <1>2. Merged \in SUBSET Worker
    BY DEF Merged
  <1>3. Cardinality(Merged) = 0 <=> Merged = {}
    BY <1>2, Counting, FS_EmptySet
  <1> QED
    BY <1>1, <1>2, <1>3, Counting DEF MMInv, FTyped, Progress

\* One lemma per step of f: each says what the step changes, and then checks the
\* areas of dst, the writers and the counters against the new stage of w.
LEMMA DenseBeginKeeps ==
    ASSUME MMInv, NEW w \in Worker, DenseBegin(w)
    PROVE  MMInv'
  <1>1. /\ wpc[w] = "run" /\ fpc[w] = "dense"
        /\ writing' = [writing EXCEPT ![w] = IF transposed THEN {Stripe(w)} ELSE {}]
        /\ dst' = IF transposed THEN [dst EXCEPT ![Stripe(w)] = {}] ELSE dst
        /\ dense_n' = dense_n /\ transposed' = transposed /\ processed' = processed
        /\ recheck' = recheck
        /\ FGoto(w, "dense_busy") /\ GroupUnchanged
    BY DEF DenseBegin, InF
  <1>2. "dense_busy" \in FPlaces
    BY DEF FPlaces
  <1>3. /\ GroupInv' /\ spurious' = 0
        /\ mpc = "do_wait" /\ mpc' = "do_wait"
        /\ Stage[w] = fpc[w]
        /\ Stage' = [Stage EXCEPT ![w] = "dense_busy"]
        /\ fpc' = [fpc EXCEPT ![w] = "dense_busy"]
        /\ \A v \in Worker : fpc'[v] = "none" <=> wpc'[v] # "run"
        /\ fpc' \in [Worker -> FPlaces]
        /\ Fresh' /\ ProductComplete'
    BY <1>1, <1>2, InsideF
  <1>4. Merged' = Merged
    BY <1>1, <1>3, During DEF Merged
  <1>5. StageRight(w)
    BY <1>3, During
  <1>6. \A v \in Worker : StageRight(v)'
    BY <1>1, <1>3, <1>4, During, Worker0Assumption, SomeWorkers DEF StageRight
  <1>7. \A a \in Area : dst'[a] = AreaNow(a)'
    <2>1. dst'[Top] = AreaNow(Top)'
      BY <1>1, <1>3, <1>4, <1>5, During, TopAssumption
      DEF AreaNow, SlowArea, DirectArea, StageRight, Area, SparseAreas, AllStripes, Stripe
    <2>2. ASSUME NEW a \in Worker, ~transposed
          PROVE  dst'[a] = AreaNow(a)'
      <3>1. dst[a] = DirectArea(a) /\ a # Top
        BY <1>3, <2>2, During, TopAssumption DEF AreaNow, Area
      <3> QED
        BY <1>1, <1>3, <1>5, <2>2, <3>1, During, TopAssumption
        DEF AreaNow, DirectArea, StageRight, Area, Stripe, SparseAreas
    <2>3. ASSUME NEW a \in Worker, transposed
          PROVE  dst'[a] = AreaNow(a)'
      <3>1. dst[a] = SlowArea(a) /\ a # Top
        BY <1>3, <2>3, During, TopAssumption DEF AreaNow, Area
      <3>2. StageRight(a) /\ StageRight(Worker0)
        BY <1>3, During, Worker0Assumption
      <3> QED
        BY <1>1, <1>3, <1>5, <2>3, <3>1, <3>2, During, TopAssumption, Worker0Assumption
        DEF AreaNow, SlowArea, StageRight, Area, Stripe, SparseAreas, AllStripes, Merged
    <2> QED
      BY <2>1, <2>2, <2>3, <1>3, During DEF Area
  <1>8. writing' \in [Worker -> SUBSET Area] /\ \A v \in Worker : writing'[v] = WritingNow(v)'
    BY <1>1, <1>3, <1>5, During, Worker0Assumption
    DEF WritingNow, StageRight, SparseAreas, Area, Stripe, AllStripes
  <1>9. dst' \in [Area -> SUBSET Contribution]
    BY <1>1, <1>3, During DEF Area, Stripe, Contribution, SparseAreas, AllStripes
  <1>10. /\ processed' = IF dense_n' = 0 THEN 0 ELSE Cardinality(Merged')
         /\ processed' \in Nat
    BY <1>1, <1>3, <1>4, <1>5, During DEF StageRight
  <1>11. recheck' \in SUBSET {Worker0}
    BY <1>1, <1>3, <1>5, During DEF StageRight
  <1> QED
    BY <1>1, <1>3, <1>6, <1>7, <1>8, <1>9, <1>10, <1>11, During DEF MMInv, FTyped, Progress

LEMMA DenseEndKeeps ==
    ASSUME MMInv, NEW w \in Worker, DenseEnd(w)
    PROVE  MMInv'
  <1>1. /\ wpc[w] = "run" /\ fpc[w] = "dense_busy"
        /\ writing' = [writing EXCEPT ![w] = {}]
        /\ dst' = IF transposed
                  THEN [dst EXCEPT ![Stripe(w)] = dst[Stripe(w)] \cup {Dense(w)}] ELSE dst
        /\ dense_n' = dense_n /\ transposed' = transposed /\ processed' = processed
        /\ recheck' = recheck
        /\ FGoto(w, "merge") /\ GroupUnchanged
    BY DEF DenseEnd, InF
  <1>2. "merge" \in FPlaces
    BY DEF FPlaces
  <1>3. /\ GroupInv' /\ spurious' = 0
        /\ mpc = "do_wait" /\ mpc' = "do_wait"
        /\ Stage[w] = fpc[w]
        /\ Stage' = [Stage EXCEPT ![w] = "merge"]
        /\ fpc' = [fpc EXCEPT ![w] = "merge"]
        /\ \A v \in Worker : fpc'[v] = "none" <=> wpc'[v] # "run"
        /\ fpc' \in [Worker -> FPlaces]
        /\ Fresh' /\ ProductComplete'
    BY <1>1, <1>2, InsideF
  <1>4. Merged' = Merged
    BY <1>1, <1>3, During DEF Merged
  <1>5. StageRight(w)
    BY <1>3, During
  <1>6. \A v \in Worker : StageRight(v)'
    BY <1>1, <1>3, <1>4, During, Worker0Assumption, SomeWorkers DEF StageRight
  <1>7. \A a \in Area : dst'[a] = AreaNow(a)'
    <2>1. dst'[Top] = AreaNow(Top)'
      BY <1>1, <1>3, <1>4, <1>5, During, TopAssumption
      DEF AreaNow, SlowArea, DirectArea, StageRight, Area, SparseAreas, AllStripes, Stripe
    <2>2. ASSUME NEW a \in Worker, ~transposed
          PROVE  dst'[a] = AreaNow(a)'
      <3>1. dst[a] = DirectArea(a) /\ a # Top
        BY <1>3, <2>2, During, TopAssumption DEF AreaNow, Area
      <3> QED
        BY <1>1, <1>3, <1>5, <2>2, <3>1, During, TopAssumption
        DEF AreaNow, DirectArea, StageRight, Area, Stripe, SparseAreas
    <2>3. ASSUME NEW a \in Worker, transposed
          PROVE  dst'[a] = AreaNow(a)'
      <3>1. dst[a] = SlowArea(a) /\ a # Top
        BY <1>3, <2>3, During, TopAssumption DEF AreaNow, Area
      <3>2. StageRight(a) /\ StageRight(Worker0)
        BY <1>3, During, Worker0Assumption
      <3> QED
        BY <1>1, <1>3, <1>5, <2>3, <3>1, <3>2, During, TopAssumption, Worker0Assumption
        DEF AreaNow, SlowArea, StageRight, Area, Stripe, SparseAreas, AllStripes, Merged
    <2> QED
      BY <2>1, <2>2, <2>3, <1>3, During DEF Area
  <1>8. writing' \in [Worker -> SUBSET Area] /\ \A v \in Worker : writing'[v] = WritingNow(v)'
    BY <1>1, <1>3, <1>5, During, Worker0Assumption
    DEF WritingNow, StageRight, SparseAreas, Area, Stripe, AllStripes
  <1>9. dst' \in [Area -> SUBSET Contribution]
    BY <1>1, <1>3, During DEF Area, Stripe, Contribution, SparseAreas, AllStripes
  <1>10. /\ processed' = IF dense_n' = 0 THEN 0 ELSE Cardinality(Merged')
         /\ processed' \in Nat
    BY <1>1, <1>3, <1>4, <1>5, During DEF StageRight
  <1>11. recheck' \in SUBSET {Worker0}
    BY <1>1, <1>3, <1>5, During DEF StageRight
  <1> QED
    BY <1>1, <1>3, <1>6, <1>7, <1>8, <1>9, <1>10, <1>11, During DEF MMInv, FTyped, Progress

LEMMA MergeLockKeeps ==
    ASSUME MMInv, NEW w \in Worker, MergeLock(w)
    PROVE  MMInv'
  <1>1. /\ wpc[w] = "run" /\ fpc[w] = "merge"
        /\ writing' = [writing EXCEPT ![w] = IF transposed THEN {} ELSE {Top}]
        /\ dense_n' = dense_n /\ transposed' = transposed /\ processed' = processed
        /\ recheck' = recheck /\ dst' = dst
        /\ FGoto(w, "merge_cs") /\ GroupUnchanged
    BY DEF MergeLock, InF
  <1>2. "merge_cs" \in FPlaces
    BY DEF FPlaces
  <1>3. /\ GroupInv' /\ spurious' = 0
        /\ mpc = "do_wait" /\ mpc' = "do_wait"
        /\ Stage[w] = fpc[w]
        /\ Stage' = [Stage EXCEPT ![w] = "merge_cs"]
        /\ fpc' = [fpc EXCEPT ![w] = "merge_cs"]
        /\ \A v \in Worker : fpc'[v] = "none" <=> wpc'[v] # "run"
        /\ fpc' \in [Worker -> FPlaces]
        /\ Fresh' /\ ProductComplete'
    BY <1>1, <1>2, InsideF
  <1>4. Merged' = Merged
    BY <1>1, <1>3, During DEF Merged
  <1>5. StageRight(w)
    BY <1>3, During
  <1>6. \A v \in Worker : StageRight(v)'
    BY <1>1, <1>3, <1>4, During, Worker0Assumption, SomeWorkers DEF StageRight
  <1>7. \A a \in Area : dst'[a] = AreaNow(a)'
    <2>1. dst'[Top] = AreaNow(Top)'
      BY <1>1, <1>3, <1>4, <1>5, During, TopAssumption
      DEF AreaNow, SlowArea, DirectArea, StageRight, Area, SparseAreas, AllStripes, Stripe
    <2>2. ASSUME NEW a \in Worker, ~transposed
          PROVE  dst'[a] = AreaNow(a)'
      <3>1. dst[a] = DirectArea(a) /\ a # Top
        BY <1>3, <2>2, During, TopAssumption DEF AreaNow, Area
      <3> QED
        BY <1>1, <1>3, <1>5, <2>2, <3>1, During, TopAssumption
        DEF AreaNow, DirectArea, StageRight, Area, Stripe, SparseAreas
    <2>3. ASSUME NEW a \in Worker, transposed
          PROVE  dst'[a] = AreaNow(a)'
      <3>1. dst[a] = SlowArea(a) /\ a # Top
        BY <1>3, <2>3, During, TopAssumption DEF AreaNow, Area
      <3>2. StageRight(a) /\ StageRight(Worker0)
        BY <1>3, During, Worker0Assumption
      <3> QED
        BY <1>1, <1>3, <1>5, <2>3, <3>1, <3>2, During, TopAssumption, Worker0Assumption
        DEF AreaNow, SlowArea, StageRight, Area, Stripe, SparseAreas, AllStripes, Merged
    <2> QED
      BY <2>1, <2>2, <2>3, <1>3, During DEF Area
  <1>8. writing' \in [Worker -> SUBSET Area] /\ \A v \in Worker : writing'[v] = WritingNow(v)'
    BY <1>1, <1>3, <1>5, During, Worker0Assumption
    DEF WritingNow, StageRight, SparseAreas, Area, Stripe, AllStripes
  <1>9. dst' \in [Area -> SUBSET Contribution]
    BY <1>1, <1>3, During DEF Area, Stripe, Contribution, SparseAreas, AllStripes
  <1>10. /\ processed' = IF dense_n' = 0 THEN 0 ELSE Cardinality(Merged')
         /\ processed' \in Nat
    BY <1>1, <1>3, <1>4, <1>5, During DEF StageRight
  <1>11. recheck' \in SUBSET {Worker0}
    BY <1>1, <1>3, <1>5, During DEF StageRight
  <1> QED
    BY <1>1, <1>3, <1>6, <1>7, <1>8, <1>9, <1>10, <1>11, During DEF MMInv, FTyped, Progress

LEMMA MergeKeeps ==
    ASSUME MMInv, NEW w \in Worker, Merge(w)
    PROVE  MMInv'
  <1>1. /\ wpc[w] = "run" /\ fpc[w] = "merge_cs"
        /\ processed' = processed + 1
        /\ recheck' \in {{}, recheck}
        /\ dst' = IF transposed THEN dst
                  ELSE [dst EXCEPT ![Top] = IF processed = 0 THEN {Dense(w)} ELSE dst[Top] \cup {Dense(w)}]
        /\ writing' = [writing EXCEPT ![w] = {}]
        /\ dense_n' = dense_n /\ transposed' = transposed
        /\ FGoto(w, "sparse") /\ GroupUnchanged
    BY DEF Merge, InF
  <1>2. "sparse" \in FPlaces
    BY DEF FPlaces
  <1>3. /\ GroupInv' /\ spurious' = 0
        /\ mpc = "do_wait" /\ mpc' = "do_wait"
        /\ Stage[w] = fpc[w]
        /\ Stage' = [Stage EXCEPT ![w] = "sparse"]
        /\ fpc' = [fpc EXCEPT ![w] = "sparse"]
        /\ \A v \in Worker : fpc'[v] = "none" <=> wpc'[v] # "run"
        /\ fpc' \in [Worker -> FPlaces]
        /\ Fresh' /\ ProductComplete'
    BY <1>1, <1>2, InsideF
  <1>4. /\ Merged' = Merged \cup {w}
        /\ w \notin Merged
        /\ Cardinality(Merged') = Cardinality(Merged) + 1
    <2>1. Merged' = Merged \cup {w} /\ w \notin Merged
      BY <1>1, <1>3, During DEF Merged
    <2> QED
      BY <1>3, <2>1, During, OneMore
  <1>5. StageRight(w)
    BY <1>3, During
  <1>6. \A v \in Worker : StageRight(v)'
    BY <1>1, <1>3, <1>4, During, Worker0Assumption, SomeWorkers DEF StageRight
  <1>7. \A a \in Area : dst'[a] = AreaNow(a)'
    <2>1. dst'[Top] = AreaNow(Top)'
      <3>1. dense_n # 0 /\ (processed = 0 <=> Merged = {})
        BY <1>1, <1>3, <1>5, During DEF StageRight
      <3>2. {Dense(v) : v \in Merged'} = {Dense(v) : v \in Merged} \cup {Dense(w)}
        BY <1>4
      <3>3. CASE transposed
        BY <1>1, <1>3, <3>3, During DEF AreaNow, SlowArea, Area
      <3>4. CASE ~transposed
        <4>1. dst[Top] = DirectArea(Top)
          BY <1>3, <3>4, During DEF AreaNow, Area
        <4>2. dst'[Top] = {Dense(v) : v \in Merged'}
          BY <1>1, <1>3, <3>1, <3>2, <3>4, <4>1, During DEF DirectArea, Area
        <4> QED
          BY <1>1, <1>4, <3>1, <3>4, <4>2 DEF AreaNow, DirectArea
      <3> QED
        BY <3>3, <3>4
    <2>2. ASSUME NEW a \in Worker, ~transposed
          PROVE  dst'[a] = AreaNow(a)'
      <3>1. dst[a] = DirectArea(a) /\ a # Top
        BY <1>3, <2>2, During, TopAssumption DEF AreaNow, Area
      <3> QED
        BY <1>1, <1>3, <1>5, <2>2, <3>1, During, TopAssumption
        DEF AreaNow, DirectArea, StageRight, Area, Stripe, SparseAreas
    <2>3. ASSUME NEW a \in Worker, transposed
          PROVE  dst'[a] = AreaNow(a)'
      <3>1. dst[a] = SlowArea(a) /\ a # Top
        BY <1>3, <2>3, During, TopAssumption DEF AreaNow, Area
      <3>2. StageRight(a) /\ StageRight(Worker0)
        BY <1>3, During, Worker0Assumption
      <3> QED
        BY <1>1, <1>3, <1>5, <2>3, <3>1, <3>2, During, TopAssumption, Worker0Assumption
        DEF AreaNow, SlowArea, StageRight, Area, Stripe, SparseAreas, AllStripes, Merged
    <2> QED
      BY <2>1, <2>2, <2>3, <1>3, During DEF Area
  <1>8. writing' \in [Worker -> SUBSET Area] /\ \A v \in Worker : writing'[v] = WritingNow(v)'
    BY <1>1, <1>3, <1>5, During, Worker0Assumption
    DEF WritingNow, StageRight, SparseAreas, Area, Stripe, AllStripes
  <1>9. dst' \in [Area -> SUBSET Contribution]
    BY <1>1, <1>3, During DEF Area, Stripe, Contribution, SparseAreas, AllStripes
  <1>10. /\ processed' = IF dense_n' = 0 THEN 0 ELSE Cardinality(Merged')
         /\ processed' \in Nat
    BY <1>1, <1>3, <1>4, <1>5, During DEF StageRight
  <1>11. recheck' \in SUBSET {Worker0}
    BY <1>1, <1>3, <1>5, During DEF StageRight
  <1> QED
    BY <1>1, <1>3, <1>6, <1>7, <1>8, <1>9, <1>10, <1>11, During DEF MMInv, FTyped, Progress

LEMMA SparseClearKeeps ==
    ASSUME MMInv, NEW w \in Worker, SparseClear(w)
    PROVE  MMInv'
  <1>1. /\ wpc[w] = "run" /\ fpc[w] = "sparse"
        /\ ~transposed \/ (w = Worker0 /\ dense_n = 0)
        /\ dst' = [a \in Area |-> IF a \in SparseAreas(w) THEN {} ELSE dst[a]]
        /\ writing' = [writing EXCEPT ![w] = SparseAreas(w)]
        /\ dense_n' = dense_n /\ transposed' = transposed /\ processed' = processed
        /\ recheck' = recheck
        /\ FGoto(w, "sparse_busy") /\ GroupUnchanged
    BY DEF SparseClear, InF
  <1>2. "sparse_busy" \in FPlaces
    BY DEF FPlaces
  <1>3. /\ GroupInv' /\ spurious' = 0
        /\ mpc = "do_wait" /\ mpc' = "do_wait"
        /\ Stage[w] = fpc[w]
        /\ Stage' = [Stage EXCEPT ![w] = "sparse_busy"]
        /\ fpc' = [fpc EXCEPT ![w] = "sparse_busy"]
        /\ \A v \in Worker : fpc'[v] = "none" <=> wpc'[v] # "run"
        /\ fpc' \in [Worker -> FPlaces]
        /\ Fresh' /\ ProductComplete'
    BY <1>1, <1>2, InsideF
  <1>4. Merged' = Merged
    BY <1>1, <1>3, During DEF Merged
  <1>5. StageRight(w)
    BY <1>3, During
  <1>6. \A v \in Worker : StageRight(v)'
    BY <1>1, <1>3, <1>4, During, Worker0Assumption, SomeWorkers DEF StageRight
  <1>7. \A a \in Area : dst'[a] = AreaNow(a)'
    <2>1. dst'[Top] = AreaNow(Top)'
      BY <1>1, <1>3, <1>4, <1>5, During, TopAssumption
      DEF AreaNow, SlowArea, DirectArea, StageRight, Area, SparseAreas, AllStripes, Stripe
    <2>2. ASSUME NEW a \in Worker, ~transposed
          PROVE  dst'[a] = AreaNow(a)'
      <3>1. dst[a] = DirectArea(a) /\ a # Top
        BY <1>3, <2>2, During, TopAssumption DEF AreaNow, Area
      <3> QED
        BY <1>1, <1>3, <1>5, <2>2, <3>1, During, TopAssumption
        DEF AreaNow, DirectArea, StageRight, Area, Stripe, SparseAreas
    <2>3. ASSUME NEW a \in Worker, transposed
          PROVE  dst'[a] = AreaNow(a)'
      <3>1. dst[a] = SlowArea(a) /\ a # Top
        BY <1>3, <2>3, During, TopAssumption DEF AreaNow, Area
      <3>2. StageRight(a) /\ StageRight(Worker0)
        BY <1>3, During, Worker0Assumption
      <3> QED
        BY <1>1, <1>3, <1>5, <2>3, <3>1, <3>2, During, TopAssumption, Worker0Assumption
        DEF AreaNow, SlowArea, StageRight, Area, Stripe, SparseAreas, AllStripes, Merged
    <2> QED
      BY <2>1, <2>2, <2>3, <1>3, During DEF Area
  <1>8. writing' \in [Worker -> SUBSET Area] /\ \A v \in Worker : writing'[v] = WritingNow(v)'
    BY ZenonT(60), <1>1, <1>3, <1>5, During, Worker0Assumption
    DEF WritingNow, StageRight, SparseAreas, Area, Stripe, AllStripes
  <1>9. dst' \in [Area -> SUBSET Contribution]
    BY <1>1, <1>3, During DEF Area, Stripe, Contribution, SparseAreas, AllStripes
  <1>10. /\ processed' = IF dense_n' = 0 THEN 0 ELSE Cardinality(Merged')
         /\ processed' \in Nat
    BY <1>1, <1>3, <1>4, <1>5, During DEF StageRight
  <1>11. recheck' \in SUBSET {Worker0}
    BY <1>1, <1>3, <1>5, During DEF StageRight
  <1> QED
    BY <1>1, <1>3, <1>6, <1>7, <1>8, <1>9, <1>10, <1>11, During DEF MMInv, FTyped, Progress

LEMMA SparseSkipKeeps ==
    ASSUME MMInv, NEW w \in Worker, SparseSkip(w)
    PROVE  MMInv'
  <1>1. /\ wpc[w] = "run" /\ fpc[w] = "sparse"
        /\ transposed /\ w # Worker0
        /\ dense_n' = dense_n /\ transposed' = transposed /\ processed' = processed
        /\ recheck' = recheck /\ writing' = writing /\ dst' = dst
        /\ FGoto(w, "ret") /\ GroupUnchanged
    BY DEF SparseSkip, InF
  <1>2. "ret" \in FPlaces
    BY DEF FPlaces
  <1>3. /\ GroupInv' /\ spurious' = 0
        /\ mpc = "do_wait" /\ mpc' = "do_wait"
        /\ Stage[w] = fpc[w]
        /\ Stage' = [Stage EXCEPT ![w] = "ret"]
        /\ fpc' = [fpc EXCEPT ![w] = "ret"]
        /\ \A v \in Worker : fpc'[v] = "none" <=> wpc'[v] # "run"
        /\ fpc' \in [Worker -> FPlaces]
        /\ Fresh' /\ ProductComplete'
    BY <1>1, <1>2, InsideF
  <1>4. Merged' = Merged
    BY <1>1, <1>3, During DEF Merged
  <1>5. StageRight(w)
    BY <1>3, During
  <1>6. \A v \in Worker : StageRight(v)'
    BY <1>1, <1>3, <1>4, During, Worker0Assumption, SomeWorkers DEF StageRight
  <1>7. \A a \in Area : dst'[a] = AreaNow(a)'
    <2>1. dst'[Top] = AreaNow(Top)'
      BY <1>1, <1>3, <1>4, <1>5, During, TopAssumption
      DEF AreaNow, SlowArea, DirectArea, StageRight, Area, SparseAreas, AllStripes, Stripe
    <2>2. ASSUME NEW a \in Worker, ~transposed
          PROVE  dst'[a] = AreaNow(a)'
      <3>1. dst[a] = DirectArea(a) /\ a # Top
        BY <1>3, <2>2, During, TopAssumption DEF AreaNow, Area
      <3> QED
        BY <1>1, <1>3, <1>5, <2>2, <3>1, During, TopAssumption
        DEF AreaNow, DirectArea, StageRight, Area, Stripe, SparseAreas
    <2>3. ASSUME NEW a \in Worker, transposed
          PROVE  dst'[a] = AreaNow(a)'
      <3>1. dst[a] = SlowArea(a) /\ a # Top
        BY <1>3, <2>3, During, TopAssumption DEF AreaNow, Area
      <3>2. StageRight(a) /\ StageRight(Worker0)
        BY <1>3, During, Worker0Assumption
      <3> QED
        BY ZenonT(60), <1>1, <1>3, <1>5, <2>3, <3>1, <3>2, During, TopAssumption, Worker0Assumption
        DEF AreaNow, SlowArea, StageRight, Area, Stripe, SparseAreas, AllStripes, Merged
    <2> QED
      BY <2>1, <2>2, <2>3, <1>3, During DEF Area
  <1>8. writing' \in [Worker -> SUBSET Area] /\ \A v \in Worker : writing'[v] = WritingNow(v)'
    BY <1>1, <1>3, <1>5, During, Worker0Assumption
    DEF WritingNow, StageRight, SparseAreas, Area, Stripe, AllStripes
  <1>9. dst' \in [Area -> SUBSET Contribution]
    BY <1>1, <1>3, During DEF Area, Stripe, Contribution, SparseAreas, AllStripes
  <1>10. /\ processed' = IF dense_n' = 0 THEN 0 ELSE Cardinality(Merged')
         /\ processed' \in Nat
    BY <1>1, <1>3, <1>4, <1>5, During DEF StageRight
  <1>11. recheck' \in SUBSET {Worker0}
    BY <1>1, <1>3, <1>5, During DEF StageRight
  <1> QED
    BY <1>1, <1>3, <1>6, <1>7, <1>8, <1>9, <1>10, <1>11, During DEF MMInv, FTyped, Progress

LEMMA SparseTestDoneKeeps ==
    ASSUME MMInv, NEW w \in Worker, SparseTest(w), processed = n
    PROVE  MMInv'
  <1>1. /\ wpc[w] = "run" /\ fpc[w] = "sparse"
        /\ transposed /\ w = Worker0 /\ dense_n # 0
        /\ processed = n
        /\ writing' = [writing EXCEPT ![w] = AllStripes]
        /\ dense_n' = dense_n /\ transposed' = transposed /\ processed' = processed
        /\ recheck' = recheck /\ dst' = dst
        /\ FGoto(w, "sparse_busy") /\ GroupUnchanged
    BY DEF SparseTest, InF
  <1>2. "sparse_busy" \in FPlaces
    BY DEF FPlaces
  <1>3. /\ GroupInv' /\ spurious' = 0
        /\ mpc = "do_wait" /\ mpc' = "do_wait"
        /\ Stage[w] = fpc[w]
        /\ Stage' = [Stage EXCEPT ![w] = "sparse_busy"]
        /\ fpc' = [fpc EXCEPT ![w] = "sparse_busy"]
        /\ \A v \in Worker : fpc'[v] = "none" <=> wpc'[v] # "run"
        /\ fpc' \in [Worker -> FPlaces]
        /\ Fresh' /\ ProductComplete'
    BY <1>1, <1>2, InsideF
  <1>4. Merged' = Merged
    BY <1>1, <1>3, During DEF Merged
  <1>5. StageRight(w)
    BY <1>3, During
  <1>6. \A v \in Worker : StageRight(v)'
    BY <1>1, <1>3, <1>4, During, Worker0Assumption, SomeWorkers DEF StageRight
  <1>7. \A a \in Area : dst'[a] = AreaNow(a)'
    <2>1. dst'[Top] = AreaNow(Top)'
      BY <1>1, <1>3, <1>4, <1>5, During, TopAssumption
      DEF AreaNow, SlowArea, DirectArea, StageRight, Area, SparseAreas, AllStripes, Stripe
    <2>2. ASSUME NEW a \in Worker, ~transposed
          PROVE  dst'[a] = AreaNow(a)'
      <3>1. dst[a] = DirectArea(a) /\ a # Top
        BY <1>3, <2>2, During, TopAssumption DEF AreaNow, Area
      <3> QED
        BY <1>1, <1>3, <1>5, <2>2, <3>1, During, TopAssumption
        DEF AreaNow, DirectArea, StageRight, Area, Stripe, SparseAreas
    <2>3. ASSUME NEW a \in Worker, transposed
          PROVE  dst'[a] = AreaNow(a)'
      <3>1. dst[a] = SlowArea(a) /\ a # Top
        BY <1>3, <2>3, During, TopAssumption DEF AreaNow, Area
      <3>2. StageRight(a) /\ StageRight(Worker0)
        BY <1>3, During, Worker0Assumption
      <3> QED
        BY <1>1, <1>3, <1>5, <2>3, <3>1, <3>2, During, TopAssumption, Worker0Assumption
        DEF AreaNow, SlowArea, StageRight, Area, Stripe, SparseAreas, AllStripes, Merged
    <2> QED
      BY <2>1, <2>2, <2>3, <1>3, During DEF Area
  <1>8. writing' \in [Worker -> SUBSET Area] /\ \A v \in Worker : writing'[v] = WritingNow(v)'
    BY <1>1, <1>3, <1>5, During, Worker0Assumption
    DEF WritingNow, StageRight, SparseAreas, Area, Stripe, AllStripes
  <1>9. dst' \in [Area -> SUBSET Contribution]
    BY <1>1, <1>3, During DEF Area, Stripe, Contribution, SparseAreas, AllStripes
  <1>10. /\ processed' = IF dense_n' = 0 THEN 0 ELSE Cardinality(Merged')
         /\ processed' \in Nat
    BY <1>1, <1>3, <1>4, <1>5, During DEF StageRight
  <1>11. recheck' \in SUBSET {Worker0}
    BY <1>1, <1>3, <1>5, During DEF StageRight
  <1> QED
    BY <1>1, <1>3, <1>6, <1>7, <1>8, <1>9, <1>10, <1>11, During DEF MMInv, FTyped, Progress

LEMMA SparseTestWaitKeeps ==
    ASSUME MMInv, NEW w \in Worker, SparseTest(w), processed # n
    PROVE  MMInv'
  <1>1. /\ wpc[w] = "run" /\ fpc[w] = "sparse"
        /\ transposed /\ w = Worker0 /\ dense_n # 0
        /\ dense_n' = dense_n /\ transposed' = transposed /\ processed' = processed
        /\ recheck' = recheck /\ dst' = dst /\ writing' = writing
        /\ FGoto(w, "recheck") /\ GroupUnchanged
    BY DEF SparseTest, InF
  <1>2. "recheck" \in FPlaces
    BY DEF FPlaces
  <1>3. /\ GroupInv' /\ spurious' = 0
        /\ mpc = "do_wait" /\ mpc' = "do_wait"
        /\ Stage[w] = fpc[w]
        /\ Stage' = [Stage EXCEPT ![w] = "recheck"]
        /\ fpc' = [fpc EXCEPT ![w] = "recheck"]
        /\ \A v \in Worker : fpc'[v] = "none" <=> wpc'[v] # "run"
        /\ fpc' \in [Worker -> FPlaces]
        /\ Fresh' /\ ProductComplete'
    BY <1>1, <1>2, InsideF
  <1>4. Merged' = Merged
    BY <1>1, <1>3, During DEF Merged
  <1>5. StageRight(w)
    BY <1>3, During
  <1>6. \A v \in Worker : StageRight(v)'
    BY <1>1, <1>3, <1>4, During, Worker0Assumption, SomeWorkers DEF StageRight
  <1>7. \A a \in Area : dst'[a] = AreaNow(a)'
    <2>1. dst'[Top] = AreaNow(Top)'
      BY <1>1, <1>3, <1>4, <1>5, During, TopAssumption
      DEF AreaNow, SlowArea, DirectArea, StageRight, Area, SparseAreas, AllStripes, Stripe
    <2>2. ASSUME NEW a \in Worker, ~transposed
          PROVE  dst'[a] = AreaNow(a)'
      <3>1. dst[a] = DirectArea(a) /\ a # Top
        BY <1>3, <2>2, During, TopAssumption DEF AreaNow, Area
      <3> QED
        BY <1>1, <1>3, <1>5, <2>2, <3>1, During, TopAssumption
        DEF AreaNow, DirectArea, StageRight, Area, Stripe, SparseAreas
    <2>3. ASSUME NEW a \in Worker, transposed
          PROVE  dst'[a] = AreaNow(a)'
      <3>1. dst[a] = SlowArea(a) /\ a # Top
        BY <1>3, <2>3, During, TopAssumption DEF AreaNow, Area
      <3>2. StageRight(a) /\ StageRight(Worker0)
        BY <1>3, During, Worker0Assumption
      <3> QED
        BY <1>1, <1>3, <1>5, <2>3, <3>1, <3>2, During, TopAssumption, Worker0Assumption
        DEF AreaNow, SlowArea, StageRight, Area, Stripe, SparseAreas, AllStripes, Merged
    <2> QED
      BY <2>1, <2>2, <2>3, <1>3, During DEF Area
  <1>8. writing' \in [Worker -> SUBSET Area] /\ \A v \in Worker : writing'[v] = WritingNow(v)'
    BY <1>1, <1>3, <1>5, During, Worker0Assumption
    DEF WritingNow, StageRight, SparseAreas, Area, Stripe, AllStripes
  <1>9. dst' \in [Area -> SUBSET Contribution]
    BY <1>1, <1>3, During DEF Area, Stripe, Contribution, SparseAreas, AllStripes
  <1>10. /\ processed' = IF dense_n' = 0 THEN 0 ELSE Cardinality(Merged')
         /\ processed' \in Nat
    BY <1>1, <1>3, <1>4, <1>5, During DEF StageRight
  <1>11. recheck' \in SUBSET {Worker0}
    BY <1>1, <1>3, <1>5, During DEF StageRight
  <1> QED
    BY <1>1, <1>3, <1>6, <1>7, <1>8, <1>9, <1>10, <1>11, During DEF MMInv, FTyped, Progress

LEMMA RecheckLockKeeps ==
    ASSUME MMInv, NEW w \in Worker, RecheckLock(w)
    PROVE  MMInv'
  <1>1. /\ wpc[w] = "run" /\ fpc[w] = "recheck"
        /\ dense_n' = dense_n /\ transposed' = transposed /\ processed' = processed
        /\ recheck' = recheck /\ dst' = dst /\ writing' = writing
        /\ FGoto(w, "recheck_cs") /\ GroupUnchanged
    BY DEF RecheckLock, InF
  <1>2. "recheck_cs" \in FPlaces
    BY DEF FPlaces
  <1>3. /\ GroupInv' /\ spurious' = 0
        /\ mpc = "do_wait" /\ mpc' = "do_wait"
        /\ Stage[w] = fpc[w]
        /\ Stage' = [Stage EXCEPT ![w] = "recheck_cs"]
        /\ fpc' = [fpc EXCEPT ![w] = "recheck_cs"]
        /\ \A v \in Worker : fpc'[v] = "none" <=> wpc'[v] # "run"
        /\ fpc' \in [Worker -> FPlaces]
        /\ Fresh' /\ ProductComplete'
    BY <1>1, <1>2, InsideF
  <1>4. Merged' = Merged
    BY <1>1, <1>3, During DEF Merged
  <1>5. StageRight(w)
    BY <1>3, During
  <1>6. \A v \in Worker : StageRight(v)'
    BY <1>1, <1>3, <1>4, During, Worker0Assumption, SomeWorkers DEF StageRight
  <1>7. \A a \in Area : dst'[a] = AreaNow(a)'
    <2>1. dst'[Top] = AreaNow(Top)'
      BY <1>1, <1>3, <1>4, <1>5, During, TopAssumption
      DEF AreaNow, SlowArea, DirectArea, StageRight, Area, SparseAreas, AllStripes, Stripe
    <2>2. ASSUME NEW a \in Worker, ~transposed
          PROVE  dst'[a] = AreaNow(a)'
      <3>1. dst[a] = DirectArea(a) /\ a # Top
        BY <1>3, <2>2, During, TopAssumption DEF AreaNow, Area
      <3> QED
        BY <1>1, <1>3, <1>5, <2>2, <3>1, During, TopAssumption
        DEF AreaNow, DirectArea, StageRight, Area, Stripe, SparseAreas
    <2>3. ASSUME NEW a \in Worker, transposed
          PROVE  dst'[a] = AreaNow(a)'
      <3>1. dst[a] = SlowArea(a) /\ a # Top
        BY <1>3, <2>3, During, TopAssumption DEF AreaNow, Area
      <3>2. StageRight(a) /\ StageRight(Worker0)
        BY <1>3, During, Worker0Assumption
      <3> QED
        BY <1>1, <1>3, <1>5, <2>3, <3>1, <3>2, During, TopAssumption, Worker0Assumption
        DEF AreaNow, SlowArea, StageRight, Area, Stripe, SparseAreas, AllStripes, Merged
    <2> QED
      BY <2>1, <2>2, <2>3, <1>3, During DEF Area
  <1>8. writing' \in [Worker -> SUBSET Area] /\ \A v \in Worker : writing'[v] = WritingNow(v)'
    BY <1>1, <1>3, <1>5, During, Worker0Assumption
    DEF WritingNow, StageRight, SparseAreas, Area, Stripe, AllStripes
  <1>9. dst' \in [Area -> SUBSET Contribution]
    BY <1>1, <1>3, During DEF Area, Stripe, Contribution, SparseAreas, AllStripes
  <1>10. /\ processed' = IF dense_n' = 0 THEN 0 ELSE Cardinality(Merged')
         /\ processed' \in Nat
    BY <1>1, <1>3, <1>4, <1>5, During DEF StageRight
  <1>11. recheck' \in SUBSET {Worker0}
    BY <1>1, <1>3, <1>5, During DEF StageRight
  <1> QED
    BY <1>1, <1>3, <1>6, <1>7, <1>8, <1>9, <1>10, <1>11, During DEF MMInv, FTyped, Progress

LEMMA RecheckSleepKeeps ==
    ASSUME MMInv, NEW w \in Worker, RecheckSleep(w)
    PROVE  MMInv'
  <1>1. /\ wpc[w] = "run" /\ fpc[w] = "recheck_cs"
        /\ recheck' = recheck \cup {w}
        /\ dense_n' = dense_n /\ transposed' = transposed /\ processed' = processed
        /\ dst' = dst /\ writing' = writing
        /\ FGoto(w, "recheck") /\ GroupUnchanged
    BY DEF RecheckSleep, InF
  <1>2. "recheck" \in FPlaces
    BY DEF FPlaces
  <1>3. /\ GroupInv' /\ spurious' = 0
        /\ mpc = "do_wait" /\ mpc' = "do_wait"
        /\ Stage[w] = fpc[w]
        /\ Stage' = [Stage EXCEPT ![w] = "recheck"]
        /\ fpc' = [fpc EXCEPT ![w] = "recheck"]
        /\ \A v \in Worker : fpc'[v] = "none" <=> wpc'[v] # "run"
        /\ fpc' \in [Worker -> FPlaces]
        /\ Fresh' /\ ProductComplete'
    BY <1>1, <1>2, InsideF
  <1>4. Merged' = Merged
    BY <1>1, <1>3, During DEF Merged
  <1>5. StageRight(w)
    BY <1>3, During
  <1>6. \A v \in Worker : StageRight(v)'
    BY <1>1, <1>3, <1>4, During, Worker0Assumption, SomeWorkers DEF StageRight
  <1>7. \A a \in Area : dst'[a] = AreaNow(a)'
    <2>1. dst'[Top] = AreaNow(Top)'
      BY <1>1, <1>3, <1>4, <1>5, During, TopAssumption
      DEF AreaNow, SlowArea, DirectArea, StageRight, Area, SparseAreas, AllStripes, Stripe
    <2>2. ASSUME NEW a \in Worker, ~transposed
          PROVE  dst'[a] = AreaNow(a)'
      <3>1. dst[a] = DirectArea(a) /\ a # Top
        BY <1>3, <2>2, During, TopAssumption DEF AreaNow, Area
      <3> QED
        BY <1>1, <1>3, <1>5, <2>2, <3>1, During, TopAssumption
        DEF AreaNow, DirectArea, StageRight, Area, Stripe, SparseAreas
    <2>3. ASSUME NEW a \in Worker, transposed
          PROVE  dst'[a] = AreaNow(a)'
      <3>1. dst[a] = SlowArea(a) /\ a # Top
        BY <1>3, <2>3, During, TopAssumption DEF AreaNow, Area
      <3>2. StageRight(a) /\ StageRight(Worker0)
        BY <1>3, During, Worker0Assumption
      <3> QED
        BY <1>1, <1>3, <1>5, <2>3, <3>1, <3>2, During, TopAssumption, Worker0Assumption
        DEF AreaNow, SlowArea, StageRight, Area, Stripe, SparseAreas, AllStripes, Merged
    <2> QED
      BY <2>1, <2>2, <2>3, <1>3, During DEF Area
  <1>8. writing' \in [Worker -> SUBSET Area] /\ \A v \in Worker : writing'[v] = WritingNow(v)'
    BY <1>1, <1>3, <1>5, During, Worker0Assumption
    DEF WritingNow, StageRight, SparseAreas, Area, Stripe, AllStripes
  <1>9. dst' \in [Area -> SUBSET Contribution]
    BY <1>1, <1>3, During DEF Area, Stripe, Contribution, SparseAreas, AllStripes
  <1>10. /\ processed' = IF dense_n' = 0 THEN 0 ELSE Cardinality(Merged')
         /\ processed' \in Nat
    BY <1>1, <1>3, <1>4, <1>5, During DEF StageRight
  <1>11. recheck' \in SUBSET {Worker0}
    BY <1>1, <1>3, <1>5, During DEF StageRight
  <1> QED
    BY <1>1, <1>3, <1>6, <1>7, <1>8, <1>9, <1>10, <1>11, During DEF MMInv, FTyped, Progress

LEMMA RecheckDoneKeeps ==
    ASSUME MMInv, NEW w \in Worker, RecheckDone(w)
    PROVE  MMInv'
  <1>1. /\ wpc[w] = "run" /\ fpc[w] = "recheck_cs"
        /\ processed = n
        /\ writing' = [writing EXCEPT ![w] = AllStripes]
        /\ dense_n' = dense_n /\ transposed' = transposed /\ processed' = processed
        /\ recheck' = recheck /\ dst' = dst
        /\ FGoto(w, "sparse_busy") /\ GroupUnchanged
    BY DEF RecheckDone, InF
  <1>2. "sparse_busy" \in FPlaces
    BY DEF FPlaces
  <1>3. /\ GroupInv' /\ spurious' = 0
        /\ mpc = "do_wait" /\ mpc' = "do_wait"
        /\ Stage[w] = fpc[w]
        /\ Stage' = [Stage EXCEPT ![w] = "sparse_busy"]
        /\ fpc' = [fpc EXCEPT ![w] = "sparse_busy"]
        /\ \A v \in Worker : fpc'[v] = "none" <=> wpc'[v] # "run"
        /\ fpc' \in [Worker -> FPlaces]
        /\ Fresh' /\ ProductComplete'
    BY <1>1, <1>2, InsideF
  <1>4. Merged' = Merged
    BY <1>1, <1>3, During DEF Merged
  <1>5. StageRight(w)
    BY <1>3, During
  <1>6. \A v \in Worker : StageRight(v)'
    BY <1>1, <1>3, <1>4, During, Worker0Assumption, SomeWorkers DEF StageRight
  <1>7. \A a \in Area : dst'[a] = AreaNow(a)'
    <2>1. dst'[Top] = AreaNow(Top)'
      BY <1>1, <1>3, <1>4, <1>5, During, TopAssumption
      DEF AreaNow, SlowArea, DirectArea, StageRight, Area, SparseAreas, AllStripes, Stripe
    <2>2. ASSUME NEW a \in Worker, ~transposed
          PROVE  dst'[a] = AreaNow(a)'
      <3>1. dst[a] = DirectArea(a) /\ a # Top
        BY <1>3, <2>2, During, TopAssumption DEF AreaNow, Area
      <3> QED
        BY <1>1, <1>3, <1>5, <2>2, <3>1, During, TopAssumption
        DEF AreaNow, DirectArea, StageRight, Area, Stripe, SparseAreas
    <2>3. ASSUME NEW a \in Worker, transposed
          PROVE  dst'[a] = AreaNow(a)'
      <3>1. dst[a] = SlowArea(a) /\ a # Top
        BY <1>3, <2>3, During, TopAssumption DEF AreaNow, Area
      <3>2. StageRight(a) /\ StageRight(Worker0)
        BY <1>3, During, Worker0Assumption
      <3> QED
        BY <1>1, <1>3, <1>5, <2>3, <3>1, <3>2, During, TopAssumption, Worker0Assumption
        DEF AreaNow, SlowArea, StageRight, Area, Stripe, SparseAreas, AllStripes, Merged
    <2> QED
      BY <2>1, <2>2, <2>3, <1>3, During DEF Area
  <1>8. writing' \in [Worker -> SUBSET Area] /\ \A v \in Worker : writing'[v] = WritingNow(v)'
    BY <1>1, <1>3, <1>5, During, Worker0Assumption
    DEF WritingNow, StageRight, SparseAreas, Area, Stripe, AllStripes
  <1>9. dst' \in [Area -> SUBSET Contribution]
    BY <1>1, <1>3, During DEF Area, Stripe, Contribution, SparseAreas, AllStripes
  <1>10. /\ processed' = IF dense_n' = 0 THEN 0 ELSE Cardinality(Merged')
         /\ processed' \in Nat
    BY <1>1, <1>3, <1>4, <1>5, During DEF StageRight
  <1>11. recheck' \in SUBSET {Worker0}
    BY <1>1, <1>3, <1>5, During DEF StageRight
  <1> QED
    BY <1>1, <1>3, <1>6, <1>7, <1>8, <1>9, <1>10, <1>11, During DEF MMInv, FTyped, Progress

LEMMA SparseEndKeeps ==
    ASSUME MMInv, NEW w \in Worker, SparseEnd(w)
    PROVE  MMInv'
  <1>1. /\ wpc[w] = "run" /\ fpc[w] = "sparse_busy"
        /\ dst' = [a \in Area |-> IF a \in SparseAreas(w)
                                 THEN dst[a] \cup {Sparse(w)} ELSE dst[a]]
        /\ writing' = [writing EXCEPT ![w] = {}]
        /\ dense_n' = dense_n /\ transposed' = transposed /\ processed' = processed
        /\ recheck' = recheck
        /\ FGoto(w, "ret") /\ GroupUnchanged
    BY DEF SparseEnd, InF
  <1>2. "ret" \in FPlaces
    BY DEF FPlaces
  <1>3. /\ GroupInv' /\ spurious' = 0
        /\ mpc = "do_wait" /\ mpc' = "do_wait"
        /\ Stage[w] = fpc[w]
        /\ Stage' = [Stage EXCEPT ![w] = "ret"]
        /\ fpc' = [fpc EXCEPT ![w] = "ret"]
        /\ \A v \in Worker : fpc'[v] = "none" <=> wpc'[v] # "run"
        /\ fpc' \in [Worker -> FPlaces]
        /\ Fresh' /\ ProductComplete'
    BY <1>1, <1>2, InsideF
  <1>4. Merged' = Merged
    BY <1>1, <1>3, During DEF Merged
  <1>5. StageRight(w)
    BY <1>3, During
  <1>6. \A v \in Worker : StageRight(v)'
    BY <1>1, <1>3, <1>4, During, Worker0Assumption, SomeWorkers DEF StageRight
  <1>7. \A a \in Area : dst'[a] = AreaNow(a)'
    <2>1. dst'[Top] = AreaNow(Top)'
      BY <1>1, <1>3, <1>4, <1>5, During, TopAssumption
      DEF AreaNow, SlowArea, DirectArea, StageRight, Area, SparseAreas, AllStripes, Stripe
    <2>2. ASSUME NEW a \in Worker, ~transposed
          PROVE  dst'[a] = AreaNow(a)'
      <3>1. dst[a] = DirectArea(a) /\ a # Top
        BY <1>3, <2>2, During, TopAssumption DEF AreaNow, Area
      <3> QED
        BY <1>1, <1>3, <1>5, <2>2, <3>1, During, TopAssumption
        DEF AreaNow, DirectArea, StageRight, Area, Stripe, SparseAreas
    <2>3. ASSUME NEW a \in Worker, transposed
          PROVE  dst'[a] = AreaNow(a)'
      <3>1. dst[a] = SlowArea(a) /\ a # Top
        BY <1>3, <2>3, During, TopAssumption DEF AreaNow, Area
      <3>2. StageRight(a) /\ StageRight(Worker0)
        BY <1>3, During, Worker0Assumption
      <3> QED
        BY <1>1, <1>3, <1>5, <2>3, <3>1, <3>2, During, TopAssumption, Worker0Assumption
        DEF AreaNow, SlowArea, StageRight, Area, Stripe, SparseAreas, AllStripes, Merged
    <2> QED
      BY <2>1, <2>2, <2>3, <1>3, During DEF Area
  <1>8. writing' \in [Worker -> SUBSET Area] /\ \A v \in Worker : writing'[v] = WritingNow(v)'
    BY <1>1, <1>3, <1>5, During, Worker0Assumption
    DEF WritingNow, StageRight, SparseAreas, Area, Stripe, AllStripes
  <1>9. dst' \in [Area -> SUBSET Contribution]
    BY <1>1, <1>3, During DEF Area, Stripe, Contribution, SparseAreas, AllStripes
  <1>10. /\ processed' = IF dense_n' = 0 THEN 0 ELSE Cardinality(Merged')
         /\ processed' \in Nat
    BY <1>1, <1>3, <1>4, <1>5, During DEF StageRight
  <1>11. recheck' \in SUBSET {Worker0}
    BY <1>1, <1>3, <1>5, During DEF StageRight
  <1> QED
    BY <1>1, <1>3, <1>6, <1>7, <1>8, <1>9, <1>10, <1>11, During DEF MMInv, FTyped, Progress

-------------------------------------------------------------------------------
(* Steps of the group around f. *)

LEMMA MMInitHolds == MMInit => MMInv
  <1> SUFFICES ASSUME MMInit PROVE MMInv
    OBVIOUS
  <1>1. GroupInv /\ spurious = 0
    BY GroupInit DEF MMInit, Init
  <1>2. FTyped
    BY DEF MMInit, Init, FTyped, FPlaces, Contribution, WritingNow
  <1>3. Fresh /\ Progress /\ ProductComplete
    BY DEF MMInit, Init, Fresh, Progress, ProductComplete
  <1> QED
    BY <1>1, <1>2, <1>3 DEF MMInv

\* What stays when only the group moves, and nobody enters or leaves f.
LEMMA OutsideF ==
    ASSUME MMInv, UNCHANGED mmvars,
           \A v \in Worker : wpc'[v] = "run" <=> wpc[v] = "run"
    PROVE  FTyped'
  <1>1. /\ dense_n' = dense_n /\ transposed' = transposed /\ processed' = processed
        /\ recheck' = recheck /\ fpc' = fpc /\ writing' = writing /\ dst' = dst
    BY DEF mmvars
  <1>2. \A v \in Worker : WritingNow(v)' = WritingNow(v)
    BY <1>1 DEF WritingNow
  <1> QED
    BY <1>1, <1>2 DEF MMInv, FTyped

\* Whatever is a function of the stages stays with them.
LEMMA SameStages ==
    ASSUME MMInv, UNCHANGED mmvars, Stage' = Stage, mpc = "do_wait"
    PROVE  Progress'
  <1>1. /\ dense_n' = dense_n /\ transposed' = transposed /\ processed' = processed
        /\ dst' = dst
    BY DEF mmvars
  <1>2. Merged' = Merged
    BY DEF Merged
  <1>3. \A w \in Worker : StageRight(w)' <=> StageRight(w)
    BY <1>1, <1>2 DEF StageRight
  <1>4. \A a \in Area : AreaNow(a)' = AreaNow(a)
    BY <1>1, <1>2 DEF AreaNow, SlowArea, DirectArea
  <1> QED
    BY <1>1, <1>2, <1>3, <1>4 DEF MMInv, Progress

LEMMA JobStepKeepsMM ==
    ASSUME MMInv, NEW w \in Worker, JobStep(w), UNCHANGED mmvars
    PROVE  MMInv'
  <1>1. GroupInv'
    BY JobStepKeeps DEF MMInv
  <1>2. /\ mpc' = mpc /\ jobs' = jobs /\ spurious' = spurious
        /\ \E l : wpc' = [wpc EXCEPT ![w] = l] /\ l # "run"
        /\ wpc[w] # "run"
    BY DEF JobStep, StartLock, StartStandby, Wake, WakeUnlock, Break, FinishLock,
           FinishStandby, Exit, WGoto, tgvars
  <1>3. wpc \in [Worker -> WorkerPlaces] /\ cond_in \in SUBSET Worker
    BY DEF MMInv, GroupInv, Typed
  <1>4. FTyped'
    BY <1>2, <1>3, OutsideF
  <1>5. /\ processed' = processed /\ dst' = dst
        /\ dense_n' = dense_n /\ transposed' = transposed
    BY DEF mmvars
  <1>6. Fresh'
    BY <1>2, <1>5 DEF MMInv, Fresh
  <1>7. ProductComplete'
    BY <1>2, <1>5 DEF MMInv, ProductComplete, Product
  <1>8. ASSUME mpc = "do_wait" PROVE Progress'
    <2>1. wpc[w] \notin {"start_cs"}
      BY <1>8 DEF MMInv, GroupInv, Phases, Doing, Finished, Typed
    <2>2. /\ wpc[w] # "standby" => w \notin cond_in
      BY DEF MMInv, GroupInv, Typed
    <2>3. fpc' = fpc
      BY DEF mmvars
    <2>4. Stage' = Stage
      <3>1. CASE StartLock(w) \/ Wake(w) \/ WakeUnlock(w) \/ Break(w) \/ Exit(w)
        BY <3>1, <1>3, <2>2, <2>3
        DEF StartLock, Wake, WakeUnlock, Break, Exit, WGoto, tgvars, Stage
      <3>2. CASE FinishLock(w)
        BY <3>2, <1>3, <2>2, <2>3 DEF FinishLock, WGoto, Stage
      <3>3. CASE FinishStandby(w)
        BY <3>3, <1>3, <2>2, <2>3 DEF FinishStandby, SleepIn, WGoto, Stage
      <3> QED
        BY <2>1, <3>1, <3>2, <3>3 DEF JobStep, StartStandby
    <2> QED
      BY <1>8, <2>4, SameStages
  <1>9. Progress'
    BY <1>2, <1>8 DEF Progress
  <1> QED
    BY <1>1, <1>2, <1>4, <1>6, <1>7, <1>9 DEF MMInv

LEMMA CallKeeps ==
    ASSUME MMInv, NEW w \in Worker, Call(w)
    PROVE  MMInv'
  <1>1. GroupInv' /\ spurious' = 0
    BY CallFKeeps DEF MMInv, Call, CallF
  <1>2. /\ wpc[w] = "check" /\ wpc' = [wpc EXCEPT ![w] = "run"] /\ f # NULL
        /\ mpc' = mpc /\ jobs' = jobs /\ cond_in' = cond_in
        /\ fpc' = [fpc EXCEPT ![w] = IF dense_n = 0 THEN "sparse" ELSE "dense"]
        /\ dense_n' = dense_n /\ transposed' = transposed /\ processed' = processed
        /\ recheck' = recheck /\ writing' = writing /\ dst' = dst
    BY DEF Call, CallF, WGoto, FGoto, tgvars
  <1>3. wpc \in [Worker -> WorkerPlaces] /\ w \notin cond_in
    BY <1>2 DEF MMInv, GroupInv, Typed
  <1>4. mpc = "do_wait"
    BY <1>2, <1>3
    DEF MMInv, GroupInv, Phases, Starting, OnStandby, Finished, Ending, Typed, MainPlaces
  <1>5. fpc[w] = "none" /\ fpc \in [Worker -> FPlaces]
    BY <1>2 DEF MMInv, FTyped
  <1>6. FTyped'
    <2>1. fpc' \in [Worker -> FPlaces] /\ \A v \in Worker : fpc'[v] = "none" <=> wpc'[v] # "run"
      BY <1>2, <1>3, <1>5 DEF MMInv, FTyped, FPlaces
    <2>2. \A v \in Worker : WritingNow(v)' = WritingNow(v)
      BY <1>2, <1>5 DEF WritingNow
    <2> QED
      BY <1>2, <2>1, <2>2 DEF MMInv, FTyped
  <1>7. Stage[w] = "none" /\ Stage' = [Stage EXCEPT ![w] = IF dense_n = 0 THEN "sparse" ELSE "dense"]
    BY <1>2, <1>3, <1>5 DEF Stage
  <1>8. CASE dense_n # 0
    <2>1. Merged' = Merged
      BY <1>4, <1>7, <1>8, During DEF Merged
    <2>2. \A v \in Worker : StageRight(v)'
      BY <1>2, <1>4, <1>7, <1>8, <2>1, During DEF StageRight
    <2>3. ASSUME NEW a \in Area PROVE dst'[a] = AreaNow(a)'
      BY <1>2, <1>4, <1>7, <1>8, <2>1, During, Worker0Assumption
      DEF AreaNow, SlowArea, DirectArea, Area
    <2>4. Progress'
      BY <1>2, <1>4, <2>1, <2>2, <2>3, During DEF Progress
    <2> QED
      BY <1>1, <1>2, <1>4, <1>6, <2>4 DEF MMInv, Fresh, ProductComplete
  <1>9. CASE dense_n = 0
    <2>1. \A v \in Worker : StageRight(v)'
      BY <1>2, <1>4, <1>7, <1>9, During DEF StageRight
    <2>2. ASSUME NEW a \in Area PROVE dst'[a] = AreaNow(a)'
      BY <1>2, <1>4, <1>7, <1>9, During, Worker0Assumption
      DEF AreaNow, SlowArea, DirectArea, Area
    <2>3. Progress'
      BY <1>2, <1>4, <1>9, <2>1, <2>2, During DEF Progress
    <2> QED
      BY <1>1, <1>2, <1>4, <1>6, <2>3 DEF MMInv, Fresh, ProductComplete
  <1> QED
    BY <1>8, <1>9

LEMMA ReturnKeeps ==
    ASSUME MMInv, NEW w \in Worker, Return(w)
    PROVE  MMInv'
  <1>1. GroupInv' /\ spurious' = 0
    BY ReturnFKeeps DEF MMInv, Return, ReturnF
  <1>2. /\ wpc[w] = "run" /\ wpc' = [wpc EXCEPT ![w] = "finish"] /\ fpc[w] = "ret"
        /\ mpc' = mpc /\ jobs' = jobs /\ cond_in' = cond_in
        /\ fpc' = [fpc EXCEPT ![w] = "none"]
        /\ dense_n' = dense_n /\ transposed' = transposed /\ processed' = processed
        /\ recheck' = recheck /\ writing' = writing /\ dst' = dst
    BY DEF Return, ReturnF, WGoto, FGoto, tgvars
  <1>3. wpc \in [Worker -> WorkerPlaces] /\ w \notin cond_in
    BY <1>2 DEF MMInv, GroupInv, Typed
  <1>4. mpc = "do_wait"
    BY <1>2, <1>3
    DEF MMInv, GroupInv, Phases, Starting, OnStandby, Finished, Ending, Typed, MainPlaces
  <1>5. fpc \in [Worker -> FPlaces]
    BY DEF MMInv, FTyped
  <1>6. FTyped'
    <2>1. fpc' \in [Worker -> FPlaces] /\ \A v \in Worker : fpc'[v] = "none" <=> wpc'[v] # "run"
      BY <1>2, <1>3, <1>5 DEF MMInv, FTyped, FPlaces
    <2>2. \A v \in Worker : WritingNow(v)' = WritingNow(v)
      BY <1>2, <1>5 DEF WritingNow
    <2> QED
      BY <1>2, <2>1, <2>2 DEF MMInv, FTyped
  <1>7. Stage' = Stage
    BY <1>2, <1>3, <1>5 DEF Stage
  <1>8. Progress'
    <2>1. Merged' = Merged
      BY <1>7 DEF Merged
    <2>2. \A v \in Worker : StageRight(v)' <=> StageRight(v)
      BY <1>2, <1>7, <2>1 DEF StageRight
    <2>3. \A a \in Area : AreaNow(a)' = AreaNow(a)
      BY <1>2, <1>7, <2>1 DEF AreaNow, SlowArea, DirectArea
    <2> QED
      BY <1>2, <1>4, <2>1, <2>2, <2>3 DEF MMInv, Progress
  <1> QED
    BY <1>1, <1>2, <1>4, <1>6, <1>8 DEF MMInv, Fresh, ProductComplete

\* The controlling thread moves, outside of worker_threads_do.
LEMMA MainKeepsMM ==
    ASSUME MMInv, UNCHANGED mmvars,
           \/ \E w \in Worker : Create(w)
           \/ InitLock \/ InitWait \/ InitWake \/ InitReturn
           \/ DoLock \/ ClearSetF \/ ClearLock \/ ClearBroadcast \/ Join
    PROVE  MMInv'
  <1>1. GroupInv'
    BY CreateKeeps, InitLockKeeps, InitWaitKeeps, InitWakeKeeps, InitReturnKeeps,
       DoLockKeeps, ClearSetFKeeps, ClearLockKeeps, ClearBroadcastKeeps, JoinKeeps
    DEF MMInv
  <1>2. /\ mpc' # "do_wait" /\ spurious' = spurious /\ jobs' = jobs
        /\ \A v \in Worker : wpc'[v] = "run" <=> wpc[v] = "run"
    BY DEF Create, InitLock, InitWait, InitWake, InitReturn, DoLock, ClearSetF,
       ClearLock, ClearBroadcast, Join, MGoto, WGoto, tgvars, MMInv, GroupInv, Typed
  <1>3. mpc' \in {"do_lock", "do_cs"} => mpc = "do_lock"
    BY DEF Create, InitLock, InitWait, InitWake, InitReturn, DoLock, ClearSetF,
       ClearLock, ClearBroadcast, Join, MGoto
  <1>4. mpc' = "ready" => jobs = 0
    BY DEF Create, InitLock, InitWait, InitWake, InitReturn, DoLock, ClearSetF,
       ClearLock, ClearBroadcast, Join, MGoto, MMInv, GroupInv, Phases, Starting
  <1>5. processed' = processed /\ dst' = dst
    BY DEF mmvars
  <1>6. Fresh'
    BY <1>3, <1>5 DEF MMInv, Fresh
  <1>7. Progress' /\ ProductComplete'
    BY <1>2, <1>4 DEF Progress, ProductComplete
  <1> QED
    BY <1>1, <1>2, <1>6, <1>7, OutsideF DEF MMInv

\* matmul_threaded_mul: a new destination, and possibly the other direction.
LEMMA MulKeeps ==
    ASSUME MMInv, Mul
    PROVE  MMInv'
  <1>1. GroupInv'
    BY DoSetFKeeps DEF MMInv, Mul
  <1>2. /\ mpc = "ready" /\ mpc' = "do_lock" /\ spurious' = spurious /\ wpc' = wpc
        /\ processed' = 0 /\ transposed' \in BOOLEAN /\ dst' = [a \in Area |-> {Old}]
        /\ dense_n' = dense_n /\ recheck' = recheck /\ fpc' = fpc /\ writing' = writing
    BY DEF Mul, DoSetF, MGoto
  <1>3. \A w \in Worker : fpc[w] = "none"
    BY <1>2 DEF MMInv, FTyped, GroupInv, Phases, OnStandby, Typed
  <1>4. FTyped'
    <2>1. \A w \in Worker : WritingNow(w) = {} /\ WritingNow(w)' = {}
      BY <1>2, <1>3 DEF WritingNow
    <2>2. dst' \in [Area -> SUBSET Contribution]
      BY <1>2 DEF Contribution
    <2> QED
      BY <1>2, <2>1, <2>2 DEF MMInv, FTyped
  <1>5. Fresh' /\ Progress' /\ ProductComplete'
    BY <1>2 DEF Fresh, Progress, ProductComplete
  <1> QED
    BY <1>1, <1>2, <1>4, <1>5 DEF MMInv

\* The broadcast finds everybody asleep and nothing done.
LEMMA DoBroadcastKeepsMM ==
    ASSUME MMInv, DoBroadcast, UNCHANGED mmvars
    PROVE  MMInv'
  <1>1. GroupInv'
    BY DoBroadcastKeeps DEF MMInv
  <1>2. /\ mpc = "do_cs" /\ mpc' = "do_wait" /\ spurious' = spurious /\ wpc' = wpc
        /\ cond_in' = {}
    BY DEF DoBroadcast, MGoto
  <1>3. \A w \in Worker : wpc[w] = "standby"
    BY <1>2 DEF MMInv, GroupInv, Phases, OnStandby, Typed
  <1>4. Stage' = [w \in Worker |-> "none"]
    BY <1>2, <1>3 DEF Stage
  <1>5. Merged' = {} /\ Cardinality(Merged') = 0
    BY <1>4, NoneCounted DEF Merged
  <1>6. /\ dense_n' = dense_n /\ transposed' = transposed
        /\ processed' = 0 /\ \A a \in Area : dst'[a] = {Old}
    BY <1>2 DEF MMInv, Fresh, mmvars
  <1>7. Progress'
    <2>1. \A w \in Worker : StageRight(w)'
      BY <1>4 DEF StageRight
    <2>2. ASSUME NEW a \in Area PROVE AreaNow(a)' = {Old}
      BY <1>4, <1>5, Worker0Assumption DEF AreaNow, SlowArea, DirectArea, Area
    <2> QED
      BY <1>5, <1>6, <2>1, <2>2 DEF Progress
  <1>8. FTyped'
    BY <1>2, OutsideF
  <1> QED
    BY <1>1, <1>2, <1>7, <1>8 DEF MMInv, Fresh, ProductComplete

\* worker_threads_do returns when everybody is back, and so has done its share.
LEMMA DoReturnKeepsMM ==
    ASSUME MMInv, DoReturn, UNCHANGED mmvars
    PROVE  MMInv'
  <1>1. GroupInv'
    BY DoReturnKeeps DEF MMInv
  <1>2. /\ mpc = "do_wait" /\ mpc' = "ready" /\ spurious' = spurious /\ wpc' = wpc
        /\ cond_out = {}
    BY DEF DoReturn, MGoto
  <1>3. \A w \in Worker : w \in cond_in /\ wpc[w] = "standby"
    BY <1>2 DEF MMInv, GroupInv, Phases, Finished, Typed
  <1>4. \A w \in Worker : Stage[w] = "ret"
    BY <1>3 DEF Stage
  <1>5. Merged = Worker
    BY <1>4 DEF Merged
  <1>6. \A a \in Area : AreaNow(a) = Product(a)
    <2>1. AreaNow(Top) = Product(Top)
      BY <1>2, <1>5, During, WorkerAssumption DEF AreaNow, SlowArea, DirectArea, Product
    <2>2. ASSUME NEW a \in Worker, ~transposed PROVE AreaNow(a) = Product(a)
      BY <1>4, <2>2, TopAssumption DEF AreaNow, DirectArea, Product
    <2>3. ASSUME NEW a \in Worker, transposed, dense_n = 0 PROVE AreaNow(a) = Product(a)
      <3>1. {Dense(w) : w \in {v \in {a} : dense_n # 0}} = {}
        BY <2>3
      <3> QED
        BY <1>4, <2>3, <3>1, TopAssumption, Worker0Assumption DEF AreaNow, SlowArea, Product
    <2>4. ASSUME NEW a \in Worker, transposed, dense_n # 0 PROVE AreaNow(a) = Product(a)
      <3>1. {Dense(w) : w \in {v \in {a} : dense_n # 0}} = {Dense(a)}
        BY <2>4
      <3> QED
        BY <1>4, <2>4, <3>1, TopAssumption, Worker0Assumption DEF AreaNow, SlowArea, Product
    <2> QED
      BY <2>1, <2>2, <2>3, <2>4 DEF Area
  <1>7. /\ dense_n' = dense_n /\ transposed' = transposed /\ dst' = dst
    BY DEF mmvars
  <1>8. ProductComplete'
    BY <1>2, <1>6, <1>7, During DEF ProductComplete, Product
  <1>9. FTyped'
    BY <1>2, OutsideF
  <1> QED
    BY <1>1, <1>2, <1>8, <1>9 DEF MMInv, Fresh, Progress

LEMMA FStepKeeps ==
    ASSUME MMInv, NEW w \in Worker, FStep(w)
    PROVE  MMInv'
  BY DenseBeginKeeps, DenseEndKeeps, MergeLockKeeps, MergeKeeps, SparseClearKeeps,
     SparseSkipKeeps, SparseTestDoneKeeps, SparseTestWaitKeeps, RecheckLockKeeps,
     RecheckSleepKeeps, RecheckDoneKeeps, SparseEndKeeps DEF FStep

LEMMA MMStutter ==
    ASSUME MMInv, UNCHANGED allvars
    PROVE  MMInv'
  <1>1. UNCHANGED vars /\ UNCHANGED mmvars
    BY DEF allvars
  <1>2. GroupInv'
    BY <1>1, GroupStutter DEF MMInv, vars
  <1>3. /\ wpc' = wpc /\ cond_in' = cond_in /\ mpc' = mpc /\ jobs' = jobs /\ spurious' = spurious
        /\ dense_n' = dense_n /\ transposed' = transposed /\ processed' = processed
        /\ fpc' = fpc /\ dst' = dst
    BY <1>1 DEF vars, mmvars
  <1>4. Stage' = Stage
    BY <1>3 DEF Stage
  <1>5. Progress'
    BY <1>1, <1>3, <1>4, SameStages DEF Progress
  <1> QED
    BY <1>1, <1>2, <1>3, <1>5, OutsideF DEF MMInv, Fresh, ProductComplete, Product

LEMMA MMNextKeeps == MMInv /\ [MMNext]_allvars => MMInv'
  <1> SUFFICES ASSUME MMInv, [MMNext]_allvars PROVE MMInv'
    OBVIOUS
  <1>1. CASE MMMainStep
    BY <1>1, MulKeeps, MainKeepsMM, DoBroadcastKeepsMM, DoReturnKeepsMM DEF MMMainStep
  <1>2. CASE \E w \in Worker : MMWorkerStep(w)
    BY <1>2, JobStepKeepsMM, CallKeeps, FStepKeeps, ReturnKeeps DEF MMWorkerStep
  <1>3. CASE UNCHANGED allvars
    BY <1>3, MMStutter
  <1> QED
    BY <1>1, <1>2, <1>3 DEF MMNext, Cleared, allvars

-------------------------------------------------------------------------------
(* The mutex, which f locks too. *)

MMCriticalSection ==
    InCriticalSection
    \cup {w \in Worker : wpc[w] = "run" /\ fpc[w] \in {"merge_cs", "recheck_cs"}}

MMMutexInv ==
    /\ mu \in {Free, M} \cup Worker
    /\ wpc \in [Worker -> WorkerPlaces]
    /\ fpc \in [Worker -> FPlaces]
    /\ (\A w \in Worker : wpc[w] # "gone") =>
          MMCriticalSection = IF mu = Free THEN {} ELSE {mu}

LEMMA MMMutexInit == MMInit => MMMutexInv
  BY DEF MMInit, Init, MMMutexInv, WorkerPlaces, FPlaces, MMCriticalSection, InCriticalSection

LEMMA MMMutexNext == MMMutexInv /\ [MMNext]_allvars => MMMutexInv'
  <1> SUFFICES ASSUME MMMutexInv, [MMNext]_allvars PROVE MMMutexInv'
    OBVIOUS
  <1> USE NamesAssumption DEF MMMutexInv, WorkerPlaces, FPlaces, MMCriticalSection,
      InCriticalSection, Lock, Unlock, WGoto, MGoto, FGoto, InF, tgvars, mmvars
  <1>0. M # Free
    BY DEF M, Free
  <1>1. ASSUME NEW w \in Worker, StartLock(w) \/ Wake(w) \/ FinishLock(w), UNCHANGED mmvars
        PROVE  MMMutexInv'
    BY <1>1 DEF StartLock, Wake, FinishLock
  <1>2. ASSUME NEW w \in Worker, StartStandby(w) \/ WakeUnlock(w) \/ FinishStandby(w), UNCHANGED mmvars
        PROVE  MMMutexInv'
    BY <1>2 DEF StartStandby, WakeUnlock, FinishStandby, SleepIn
  <1>3. ASSUME NEW w \in Worker, Break(w) \/ Create(w), UNCHANGED mmvars
        PROVE  MMMutexInv'
    BY <1>3 DEF Break, Create
  <1>4. ASSUME NEW w \in Worker, Call(w) \/ Return(w)
        PROVE  MMMutexInv'
    BY <1>4 DEF Call, Return, CallF, ReturnF
  <1>5. ASSUME NEW w \in Worker, Exit(w), UNCHANGED mmvars
        PROVE  MMMutexInv'
    BY <1>5 DEF Exit
  <1>6. ASSUME InitLock \/ InitWake \/ DoLock \/ ClearLock, UNCHANGED mmvars
        PROVE  MMMutexInv'
    <2>1. mu = Free /\ mu' = M /\ wpc' = wpc /\ fpc' = fpc
      BY <1>6 DEF InitLock, InitWake, DoLock, ClearLock
    <2>2. /\ mpc \notin {"init_cs", "do_cs", "clear_cs"}
          /\ mpc' \in {"init_cs", "do_cs", "clear_cs"}
      BY <1>6 DEF InitLock, InitWake, DoLock, ClearLock
    <2> QED
      BY <1>0, <2>1, <2>2
  <1>7. ASSUME InitWait \/ InitReturn \/ DoBroadcast \/ ClearBroadcast, UNCHANGED mmvars
        PROVE  MMMutexInv'
    BY <1>7 DEF InitWait, InitReturn, DoBroadcast, ClearBroadcast, SleepOut
  <1>8. ASSUME DoReturn \/ ClearSetF \/ Join, UNCHANGED mmvars
        PROVE  MMMutexInv'
    BY <1>8 DEF DoReturn, ClearSetF, Join
  <1>9. CASE Mul
    BY <1>9 DEF Mul, DoSetF
  <1>10. ASSUME NEW w \in Worker, MergeLock(w) \/ RecheckLock(w)
         PROVE  MMMutexInv'
    BY <1>10 DEF MergeLock, RecheckLock, GroupUnchanged
  <1>11. ASSUME NEW w \in Worker, Merge(w) \/ RecheckSleep(w) \/ RecheckDone(w)
         PROVE  MMMutexInv'
    BY <1>11 DEF Merge, RecheckSleep, RecheckDone, GroupUnchanged
  <1>12. ASSUME NEW w \in Worker,
                \/ DenseBegin(w) \/ DenseEnd(w) \/ SparseClear(w) \/ SparseSkip(w)
                \/ SparseTest(w) \/ SparseEnd(w)
         PROVE  MMMutexInv'
    BY <1>12
    DEF DenseBegin, DenseEnd, SparseClear, SparseSkip, SparseTest, SparseEnd, GroupUnchanged
  <1>13. CASE UNCHANGED allvars
    BY <1>13 DEF allvars, vars
  <1>14. CASE MMMainStep
    BY <1>3, <1>6, <1>7, <1>8, <1>9, <1>14 DEF MMMainStep
  <1>15. ASSUME NEW w \in Worker, MMWorkerStep(w)
         PROVE  MMMutexInv'
    BY <1>1, <1>2, <1>3, <1>4, <1>5, <1>10, <1>11, <1>12, <1>15 DEF MMWorkerStep, JobStep, FStep
  <1> QED
    BY <1>13, <1>14, <1>15 DEF MMNext, Cleared, allvars

-------------------------------------------------------------------------------
(* The theorems. *)

\* Two merges exclude each other by the mutex, the stripes are disjoint, and
\* thread 0 writes them all only when nobody is left in the dense blocks.
LEMMA WritesDisjoint == MMInv /\ MMMutexInv => NoConcurrentWrites
  <1> SUFFICES ASSUME MMInv, MMMutexInv,
                      NEW v \in Worker, NEW w \in Worker, v # w
               PROVE  writing[v] \cap writing[w] = {}
    BY DEF NoConcurrentWrites
  <1>1. CASE writing[v] = {} \/ writing[w] = {}
    BY <1>1
  <1>2. CASE writing[v] # {} /\ writing[w] # {}
    <2>1. writing[v] = WritingNow(v) /\ writing[w] = WritingNow(w)
      BY DEF MMInv, FTyped
    <2>2. wpc[v] = "run" /\ wpc[w] = "run"
      BY <1>2, <2>1 DEF MMInv, FTyped, WritingNow
    <2>3. mpc = "do_wait"
      <3>1. v \notin cond_in
        BY <2>2 DEF MMInv, GroupInv, Typed
      <3> QED
        BY <2>2, <3>1
        DEF MMInv, GroupInv, Phases, Starting, OnStandby, Finished, Ending, Typed, MainPlaces
    <2>4. Stage[v] = fpc[v] /\ Stage[w] = fpc[w]
      BY <2>2 DEF Stage
    <2>5. \A u \in Worker : wpc[u] # "gone"
      BY <2>2, <2>3 DEF MMInv, GroupInv, Phases, Doing, Finished, Typed
    <2>6. CASE ~transposed
      <3>1. ~(fpc[v] = "merge_cs" /\ fpc[w] = "merge_cs")
        BY <2>2, <2>5 DEF MMMutexInv, MMCriticalSection
      <3> QED
        BY <1>2, <2>1, <2>6, <3>1, TopAssumption DEF WritingNow, Stripe
    <2>7. CASE transposed
      <3>1. StageRight(v) /\ StageRight(w)
        BY <2>3, During
      <3>2. ~(fpc[v] = "sparse_busy" /\ fpc[w] = "sparse_busy")
        BY <2>4, <2>7, <3>1 DEF StageRight
      <3>3. ~(fpc[v] = "dense_busy" /\ fpc[w] = "sparse_busy")
        BY <2>4, <2>7, <3>1 DEF StageRight, Merged
      <3>4. ~(fpc[v] = "sparse_busy" /\ fpc[w] = "dense_busy")
        BY <2>4, <2>7, <3>1 DEF StageRight, Merged
      <3> QED
        BY <1>2, <2>1, <2>7, <3>2, <3>3, <3>4 DEF WritingNow, Stripe
    <2> QED
      BY <2>6, <2>7
  <1> QED
    BY <1>1, <1>2

\* No two workers are ever in the middle of writing the same part of dst, in
\* either direction of the product, with or without dense blocks.
THEOREM WritesExclude == MMSpec => []NoConcurrentWrites
  BY MMInitHolds, MMNextKeeps, MMMutexInit, MMMutexNext, WritesDisjoint, PTL DEF MMSpec

\* When matmul_threaded_mul returns, each area of dst holds the contributions
\* of all the blocks that cover it and nothing else.
THEOREM ProductsComplete == MMSpec => []ProductComplete
  <1>1. MMInv => ProductComplete
    BY DEF MMInv
  <1> QED
    BY <1>1, MMInitHolds, MMNextKeeps, PTL DEF MMSpec

===============================================================================
