------------------------------ MODULE BarrierAbs ------------------------------
(***************************************************************************)
(* What utils/barrier.h promises: a reusable rendez-vous with a broadcast. *)
(* No thread returns from its k-th barrier_wait before every thread has    *)
(* arrived in its own k-th call, and every thread leaves round k of a      *)
(* thread_broadcast with the pointer of that round's root.  Locks,         *)
(* condition variables, the event counter and the gate are left out.       *)
(***************************************************************************)
EXTENDS Integers, FiniteSets

CONSTANTS
    Thread,     \* the threads sharing the barrier (barrier->count of them)
    MaxRounds,  \* number of barrier_wait calls each thread makes
    Root        \* Root[k]: the thread whose pointer round k broadcasts


VARIABLES
    entered,    \* entered[t]: number of rounds thread t has arrived in
    round,      \* round[t]: number of rounds thread t has returned from
    got         \* got[t]: the pointer t holds after its last return

absVars == <<entered, round, got>>

(* The pointer thread t brings into round k. *)
Own(t, k) == <<t, k>>

Init ==
    /\ entered = [t \in Thread |-> 0]
    /\ round   = [t \in Thread |-> 0]
    /\ got     = [t \in Thread |-> Own(t, 0)]

Arrive(t) ==
    /\ entered[t] = round[t]
    /\ round[t] < MaxRounds
    /\ entered' = [entered EXCEPT ![t] = @ + 1]
    /\ UNCHANGED <<round, got>>

(* Everybody has arrived in the round t is in: t may return. *)
Depart(t) ==
    /\ entered[t] = round[t] + 1
    /\ \A u \in Thread : entered[u] >= entered[t]
    /\ round' = [round EXCEPT ![t] = @ + 1]
    /\ got'   = [got EXCEPT ![t] = Own(Root[entered[t]], entered[t])]
    /\ UNCHANGED entered

(* The last thread to arrive returns without waiting for anybody. *)
ArriveDepart(t) ==
    /\ entered[t] = round[t]
    /\ round[t] < MaxRounds
    /\ \A u \in Thread \ {t} : entered[u] >= entered[t] + 1
    /\ entered' = [entered EXCEPT ![t] = @ + 1]
    /\ round'   = [round EXCEPT ![t] = @ + 1]
    /\ got'     = [got EXCEPT ![t] = Own(Root[entered[t] + 1], entered[t] + 1)]

Next == \E t \in Thread : Arrive(t) \/ Depart(t) \/ ArriveDepart(t)

Spec == Init /\ [][Next]_absVars

===============================================================================
