-------------------------------- MODULE Barrier --------------------------------
(***************************************************************************)
(* The reusable barrier of utils/barrier.c, driven the way                 *)
(* thread_broadcast of linalg/bwc/parallelizing_info.c drives it: every    *)
(* thread calls barrier_wait MaxRounds times, with the callbacks           *)
(* thread_broadcast_in and thread_broadcast_out, then the creator of the   *)
(* barrier joins the threads and calls barrier_destroy.                    *)
(*                                                                         *)
(* All of barrier_wait runs with barrier->lock held except inside          *)
(* pthread_cond_wait, so one action is one stretch of code between two     *)
(* places where the lock is not held.  asleep is the set of threads        *)
(* blocked in pthread_cond_wait on barrier->cv; a thread whose pc is not   *)
(* "idle" and which is not asleep is competing for the lock.               *)
(***************************************************************************)
EXTENDS Integers, FiniteSets

CONSTANTS
    Thread,     \* the threads sharing the barrier
    MaxRounds,  \* bound: number of barrier_wait calls each thread makes
    Root,       \* Root[k]: argument i of the k-th thread_broadcast
    EventMod    \* number of values of the int barrier->event, which wraps

ASSUME ThreadAssumption == IsFiniteSet(Thread) /\ Thread # {}
ASSUME RoundsAssumption == MaxRounds \in Nat
ASSUME RootAssumption   == Root \in [1 .. MaxRounds -> Thread]
ASSUME EventAssumption  == EventMod \in Nat /\ EventMod >= 2 /\ EventMod % 2 = 0

VARIABLES
    left,         \* barrier->left
    event,        \* barrier->event
    asleep,       \* threads blocked on barrier->cv
    pc,           \* where each thread is in barrier_wait
    ev,           \* the local variable "event" of barrier_wait
    round,        \* number of barrier_wait calls each thread returned from
    ordinal,      \* the int last passed to the thread's in() callback
    rc,           \* the last return value of barrier_wait
    utility_ptr,  \* wr->th->utility_ptr, shared by the threads
    got,          \* *ptr of each thread after its last thread_broadcast
    status        \* "live", then the outcome of barrier_destroy

shared == <<left, event, asleep, utility_ptr>>
local  == <<pc, ev, round, ordinal, rc, got>>
vars   == <<left, event, asleep, pc, ev, round, ordinal, rc, utility_ptr, got,
            status>>

count == Cardinality(Thread)
BARRIER_SERIAL_THREAD == -1

(* The pointer thread t passes to its k-th thread_broadcast. *)
Own(t, k) == <<t, k>>
NoPtr == <<>>

NextEvent(e) == IF e + 1 = EventMod THEN 0 ELSE e + 1

Odd(e) == e % 2 = 1

(***************************************************************************)
(* barrier_init: left = count = n, event = 0, nobody waiting.              *)
(***************************************************************************)
Init ==
    /\ left = count
    /\ event = 0
    /\ asleep = {}
    /\ pc = [t \in Thread |-> "idle"]
    /\ ev = [t \in Thread |-> 0]
    /\ round = [t \in Thread |-> 0]
    /\ ordinal = [t \in Thread |-> 0]
    /\ rc = [t \in Thread |-> 0]
    /\ utility_ptr = NoPtr
    /\ got = [t \in Thread |-> Own(t, 0)]
    /\ status = "live"

(* thread_broadcast_in: the root publishes its pointer, the others do nothing. *)
BroadcastIn(t) ==
    IF t = Root[round[t] + 1] THEN Own(t, round[t] + 1) ELSE utility_ptr

(* Mutant of Leave: the last thread to leave does not broadcast. *)
LeaveSilently(t, l, e, a, u, r) ==
    /\ got' = [got EXCEPT ![t] = u]
    /\ left' = l + 1
    /\ event' = IF l + 1 = count THEN NextEvent(e) ELSE e
    /\ asleep' = a
    /\ utility_ptr' = u
    /\ pc' = [pc EXCEPT ![t] = "idle"]
    /\ round' = [round EXCEPT ![t] = @ + 1]
    /\ rc' = [rc EXCEPT ![t] = r]

(* Mutant of Leave: the last thread to leave is elected as well. *)
LeaveElecting(t, l, e, a, u, r) ==
    /\ got' = [got EXCEPT ![t] = u]
    /\ left' = l + 1
    /\ event' = IF l + 1 = count THEN NextEvent(e) ELSE e
    /\ asleep' = IF l + 1 = count THEN {} ELSE a
    /\ utility_ptr' = u
    /\ pc' = [pc EXCEPT ![t] = "idle"]
    /\ round' = [round EXCEPT ![t] = @ + 1]
    /\ rc' = [rc EXCEPT ![t] = IF l + 1 = count THEN BARRIER_SERIAL_THREAD ELSE r]

(***************************************************************************)
(* The tail of barrier_wait, from the out() callback on.  l, e, a and u   *)
(* are left, event, the sleepers and utility_ptr when the tail starts,     *)
(* r is the value the call returns.  The thread that brings left back to   *)
(* count moves event to an even value again and wakes up the gate.         *)
(***************************************************************************)
Leave(t, l, e, a, u, r) ==
    /\ got' = [got EXCEPT ![t] = u]
    /\ left' = l + 1
    /\ event' = IF l + 1 = count THEN NextEvent(e) ELSE e
    /\ asleep' = IF l + 1 = count THEN {} ELSE a
    /\ utility_ptr' = u
    /\ pc' = [pc EXCEPT ![t] = "idle"]
    /\ round' = [round EXCEPT ![t] = @ + 1]
    /\ rc' = [rc EXCEPT ![t] = r]

(***************************************************************************)
(* The middle of barrier_wait, reached with event even: decrement left,    *)
(* call in(), then sleep, or, for the last thread to arrive, bump event,  *)
(* wake everybody and leave at once.                                       *)
(***************************************************************************)
Arrive(t) ==
    /\ ordinal' = [ordinal EXCEPT ![t] = left - 1]
    /\ \/ /\ left - 1 # 0
          /\ left' = left - 1
          /\ utility_ptr' = BroadcastIn(t)
          /\ ev' = [ev EXCEPT ![t] = event]
          /\ pc' = [pc EXCEPT ![t] = "wait"]
          /\ asleep' = asleep \cup {t}
          /\ UNCHANGED <<event, round, rc, got>>
       \/ /\ left - 1 = 0
          /\ Leave(t, left - 1, NextEvent(event), {}, BroadcastIn(t),
                   BARRIER_SERIAL_THREAD)
          /\ UNCHANGED ev

(* Mutant of Gate: the loop on the low bit of event is dropped. *)
GateDropped(t) == Arrive(t)

(* Mutant of Gate: in() is called before the loop, the "flawed design" the *)
(* disabled code of thread_broadcast describes.                            *)
GateAfterIn(t) ==
    \/ /\ Odd(event)
       /\ pc' = [pc EXCEPT ![t] = "gate"]
       /\ asleep' = asleep \cup {t}
       /\ utility_ptr' = BroadcastIn(t)
       /\ UNCHANGED <<left, event, ev, round, ordinal, rc, got>>
    \/ /\ ~Odd(event)
       /\ Arrive(t)

(* The head of barrier_wait: a thread which finds event odd is held at the *)
(* gate, because the previous round is not over.                           *)
Gate(t) ==
    \/ /\ Odd(event)
       /\ pc' = [pc EXCEPT ![t] = "gate"]
       /\ asleep' = asleep \cup {t}
       /\ UNCHANGED <<left, event, ev, round, ordinal, rc, utility_ptr, got>>
    \/ /\ ~Odd(event)
       /\ Arrive(t)

(* A thread calls barrier_wait and gets the lock. *)
Enter(t) ==
    /\ status = "live"
    /\ pc[t] = "idle"
    /\ round[t] < MaxRounds
    /\ Gate(t)
    /\ UNCHANGED status

(* A thread returns from the pthread_cond_wait of the gate. *)
GateResume(t) ==
    /\ pc[t] = "gate"
    /\ t \notin asleep
    /\ Gate(t)
    /\ UNCHANGED status

(* A thread returns from the pthread_cond_wait of the do-while loop. *)
WaitResume(t) ==
    /\ pc[t] = "wait"
    /\ t \notin asleep
    /\ \/ /\ ev[t] = event
          /\ asleep' = asleep \cup {t}
          /\ UNCHANGED <<left, event, utility_ptr, local>>
       \/ /\ ev[t] # event
          /\ Leave(t, left, event, asleep, utility_ptr, 0)
          /\ UNCHANGED <<ev, ordinal>>
    /\ UNCHANGED status

(* POSIX allows pthread_cond_wait to return without any broadcast. *)
SpuriousWakeup(t) ==
    /\ t \in asleep
    /\ asleep' = asleep \ {t}
    /\ UNCHANGED <<left, event, utility_ptr, local, status>>

(* The creator has joined every thread; barrier_destroy refuses a busy     *)
(* barrier.                                                                *)
Destroy ==
    /\ status = "live"
    /\ \A t \in Thread : pc[t] = "idle" /\ round[t] = MaxRounds
    /\ status' = IF left = count THEN "destroyed" ELSE "EBUSY"
    /\ UNCHANGED <<shared, local>>

Finished == status # "live" /\ UNCHANGED vars

Step(t) == Enter(t) \/ GateResume(t) \/ WaitResume(t)

Next ==
    \/ \E t \in Thread : Step(t) \/ SpuriousWakeup(t)
    \/ Destroy
    \/ Finished

Spec == Init /\ [][Next]_vars

(* A thread that can get the lock and make progress eventually does.       *)
(* Spurious wakeups carry no fairness: nothing relies on them.             *)
FairSpec == Spec /\ (\A t \in Thread : WF_vars(Step(t))) /\ WF_vars(Destroy)

-------------------------------------------------------------------------------
(* Properties. *)

Waiting == {t \in Thread : pc[t] = "wait"}

Ptr == {NoPtr} \cup (Thread \X (0 .. MaxRounds))

TypeOK ==
    /\ left \in 0 .. count
    /\ event \in 0 .. EventMod - 1
    /\ asleep \subseteq Thread
    /\ pc \in [Thread -> {"idle", "gate", "wait"}]
    /\ ev \in [Thread -> 0 .. EventMod - 1]
    /\ round \in [Thread -> 0 .. MaxRounds]
    /\ ordinal \in [Thread -> 0 .. count]
    /\ rc \in [Thread -> {0, BARRIER_SERIAL_THREAD}]
    /\ utility_ptr \in Ptr
    /\ got \in [Thread -> Ptr]
    /\ status \in {"live", "destroyed", "EBUSY"}

(***************************************************************************)
(* "The function only returns when all the threads have reached it", over  *)
(* reuse: a thread that has returned k times was preceded by every other   *)
(* thread arriving for the k-th time.                                      *)
(***************************************************************************)
Rendezvous ==
    \A t, u \in Thread :
        round[t] <= round[u] + (IF pc[u] = "wait" THEN 1 ELSE 0)

(***************************************************************************)
(* Every thread leaves its k-th thread_broadcast with the pointer of that  *)
(* round's root, even when a fast root is already back in barrier_wait for *)
(* round k + 1 with a new pointer.                                         *)
(***************************************************************************)
BroadcastDelivers ==
    \A t \in Thread : round[t] > 0 => got[t] = Own(Root[round[t]], round[t])

(***************************************************************************)
(* Nobody sleeps through its wakeup: a thread blocked on barrier->cv is at *)
(* the gate of a round that is still being left, or is waiting for an      *)
(* event that has not changed yet.                                         *)
(***************************************************************************)
NoLostWakeup ==
    \A t \in asleep :
        \/ pc[t] = "gate" /\ Odd(event)
        \/ pc[t] = "wait" /\ ev[t] = event

(***************************************************************************)
(* crtalgsqrt elects the thread which gets BARRIER_SERIAL_THREAD: between  *)
(* two rounds exactly one thread has that return value.                    *)
(***************************************************************************)
OneSerialThread ==
    \A k \in 1 .. MaxRounds :
        (\A t \in Thread : round[t] = k) =>
            Cardinality({t \in Thread : rc[t] = BARRIER_SERIAL_THREAD}) = 1

(***************************************************************************)
(* The in() callbacks of one round receive each ordinal once: "Call the   *)
(* in() function with mutex locked, and sequential value, in order".      *)
(***************************************************************************)
OrdinalsDistinct ==
    \A t, u \in Thread :
        t # u /\ pc[t] = "wait" /\ (pc[u] = "wait" \/ round[u] > round[t])
            => ordinal[t] # ordinal[u]

(* barrier_destroy, called after the threads are joined, never sees a busy *)
(* barrier.                                                                *)
DestroyNotBusy == status # "EBUSY"

(* Every thread gets through all its rounds, and the barrier is destroyed. *)
AllRoundsComplete == <>(status = "destroyed")

(***************************************************************************)
(* The detailed barrier implements the abstract rendez-vous: a thread has  *)
(* arrived in the round after its last return exactly while pc = "wait".   *)
(***************************************************************************)
Abs == INSTANCE BarrierAbs WITH
    entered <- [t \in Thread |-> round[t] + (IF pc[t] = "wait" THEN 1 ELSE 0)]

RefinesAbs == Abs!Spec

\* What the callers get besides the rendez-vous, over reuse: each round elects
\* one thread, hands out each ordinal once, and leaves a barrier that can be
\* destroyed.
SerialAndTeardown == OneSerialThread /\ OrdinalsDistinct /\ DestroyNotBusy

===============================================================================
