---------------------------- MODULE BarrierProofs ----------------------------
(***************************************************************************)
(* TLAPS proofs about Barrier, for every finite set of threads, every      *)
(* number of rounds, every choice of roots and every even EventMod.        *)
(***************************************************************************)
EXTENDS Barrier, FiniteSetTheorems, TLAPS

(* left counts the threads that are not inside the current round. *)
LeftCounts == left = count - Cardinality(Waiting)

(* While threads are arriving (event even) all of them have returned       *)
(* equally often, the waiters remember the current event, somebody is      *)
(* still to come, and the root's pointer is there once the root is.        *)
Arriving ==
    ~Odd(event) =>
        /\ \A t, u \in Thread : round[t] = round[u]
        /\ \A t \in Waiting : ev[t] = event
        /\ Waiting # Thread
        /\ \A t \in Waiting :
              t = Root[round[t] + 1] => utility_ptr = Own(t, round[t] + 1)

(* While threads are leaving (event odd) the waiters are one round behind  *)
(* the others, there is at least one, none of them will go back to sleep,  *)
(* and utility_ptr is the pointer of the round they are leaving.           *)
Leaving ==
    Odd(event) =>
        /\ Waiting # {}
        /\ \A t \in Waiting :
              /\ ev[t] # event
              /\ utility_ptr = Own(Root[round[t] + 1], round[t] + 1)
              /\ \A u \in Thread :
                    round[u] = IF u \in Waiting THEN round[t] ELSE round[t] + 1

(* A thread inside barrier_wait is in one of its MaxRounds calls. *)
InRange == \A t \in Thread : pc[t] # "idle" => round[t] < MaxRounds

IndInv ==
    /\ TypeOK
    /\ LeftCounts
    /\ Arriving
    /\ Leaving
    /\ InRange
    /\ BroadcastDelivers
    /\ NoLostWakeup

------------------------------------------------------------------------------
(* Facts about the helpers. *)

(* event++ flips the low bit, also where the counter wraps. *)
LEMMA NextEventFlips ==
    ASSUME NEW e \in 0 .. EventMod - 1
    PROVE  /\ NextEvent(e) \in 0 .. EventMod - 1
           /\ Odd(NextEvent(e)) <=> ~Odd(e)
           /\ NextEvent(e) # e
  BY EventAssumption DEF NextEvent, Odd

(* The number of waiters is a natural number bounded by count. *)
LEMMA WaitingFinite ==
    ASSUME TypeOK
    PROVE  /\ IsFiniteSet(Waiting)
           /\ Waiting \subseteq Thread
           /\ Cardinality(Waiting) \in Nat
           /\ count \in Nat \ {0}
           /\ Cardinality(Waiting) <= count
           /\ Cardinality(Waiting) = count => Waiting = Thread
           /\ Cardinality(Waiting) = 0 <=> Waiting = {}
  <1>1. Waiting \subseteq Thread
    BY DEF Waiting
  <1>2. /\ IsFiniteSet(Waiting)
        /\ Cardinality(Waiting) <= count
        /\ Cardinality(Waiting) = count => Waiting = Thread
    BY <1>1, FS_Subset, ThreadAssumption DEF count
  <1>3. /\ count \in Nat
        /\ count # 0
    BY FS_CardinalityType, FS_EmptySet, ThreadAssumption DEF count
  <1>4. Cardinality(Waiting) \in Nat
    BY <1>2, FS_CardinalityType
  <1>5. Cardinality(Waiting) = 0 <=> Waiting = {}
    BY <1>2, FS_EmptySet
  <1> QED
    BY <1>1, <1>2, <1>3, <1>4, <1>5

(* The pointers that travel through a broadcast are well typed. *)
LEMMA OwnType ==
    ASSUME NEW t \in Thread, NEW k \in 0 .. MaxRounds
    PROVE  Own(t, k) \in Ptr
  BY RoundsAssumption DEF Own, Ptr

------------------------------------------------------------------------------
(* What each kind of step does to the inductive invariant. *)

(* Arriving as one of the first count - 1 threads of the round. *)
LEMMA FirstArrivals ==
    ASSUME IndInv, NEW t \in Thread, pc[t] # "wait", round[t] < MaxRounds,
           ~Odd(event), Arrive(t), left - 1 # 0, status' = status
    PROVE  IndInv'
  <1> USE DEF IndInv
  <1>1. /\ left' = left - 1
        /\ utility_ptr' = BroadcastIn(t)
        /\ ev' = [ev EXCEPT ![t] = event]
        /\ pc' = [pc EXCEPT ![t] = "wait"]
        /\ asleep' = asleep \cup {t}
        /\ ordinal' = [ordinal EXCEPT ![t] = left - 1]
        /\ event' = event /\ round' = round /\ rc' = rc /\ got' = got
    BY DEF Arrive
  <1>2. /\ Waiting' = Waiting \cup {t}
        /\ t \notin Waiting
    BY <1>1 DEF TypeOK, Waiting
  <1>3. Cardinality(Waiting') = Cardinality(Waiting) + 1
    BY <1>2, WaitingFinite, FS_AddElement
  <1>4. round[t] + 1 \in 1 .. MaxRounds /\ round[t] + 1 \in 0 .. MaxRounds
    BY RoundsAssumption DEF TypeOK
  <1>5. BroadcastIn(t) \in Ptr
    BY <1>4, OwnType DEF BroadcastIn, TypeOK
  <1>6. TypeOK'
    <2>1. left - 1 \in 0 .. count
      BY <1>2, <1>3, WaitingFinite DEF TypeOK, LeftCounts
    <2> QED
      BY <1>1, <1>5, <2>1 DEF TypeOK, count
  <1>7. LeftCounts'
    BY <1>1, <1>3, WaitingFinite DEF LeftCounts, TypeOK, count
  <1>8. Arriving'
    <2>1. Waiting' # Thread
      BY <1>3, <1>1, WaitingFinite DEF LeftCounts, TypeOK, count
    <2>2. ASSUME NEW u \in Waiting'
          PROVE  ev'[u] = event'
      BY <1>1, <1>2, WaitingFinite DEF Arriving, TypeOK
    <2>3. ASSUME NEW u \in Waiting', u = Root[round'[u] + 1]
          PROVE  utility_ptr' = Own(u, round'[u] + 1)
      <3>1. CASE u = t
        BY <1>1, <2>3, <3>1 DEF BroadcastIn
      <3>2. CASE u # t
        <4>1. u \in Waiting /\ u \in Thread
          BY <1>2, <3>2, WaitingFinite
        <4>2. round[u] = round[t]
          BY <4>1 DEF Arriving
        <4>3. t # Root[round[t] + 1]
          BY <1>1, <2>3, <3>2, <4>2
        <4>4. utility_ptr' = utility_ptr
          BY <1>1, <4>3 DEF BroadcastIn
        <4> QED
          BY <1>1, <2>3, <4>1, <4>4 DEF Arriving
      <3> QED
        BY <3>1, <3>2
    <2> QED
      BY <1>1, <2>1, <2>2, <2>3 DEF Arriving
  <1>9. Leaving'
    BY <1>1 DEF Leaving
  <1>10. InRange'
    BY <1>1 DEF InRange, TypeOK
  <1>11. BroadcastDelivers'
    BY <1>1 DEF BroadcastDelivers
  <1>12. NoLostWakeup'
    BY <1>1 DEF NoLostWakeup, TypeOK
  <1> QED
    BY <1>6, <1>7, <1>8, <1>9, <1>10, <1>11, <1>12

(* Arriving last: event becomes odd, or, when there is a single thread,   *)
(* comes back to an even value at once.                                    *)
LEMMA LastArrival ==
    ASSUME IndInv, NEW t \in Thread, pc[t] # "wait", round[t] < MaxRounds,
           ~Odd(event), Arrive(t), left - 1 = 0, status' = status
    PROVE  IndInv'
  <1> USE DEF IndInv
  <1> DEFINE e == NextEvent(event)
             k == round[t] + 1
  <1>1. /\ ordinal' = [ordinal EXCEPT ![t] = 0]
        /\ ev' = ev
        /\ got' = [got EXCEPT ![t] = BroadcastIn(t)]
        /\ left' = 1
        /\ event' = IF count = 1 THEN NextEvent(e) ELSE e
        /\ asleep' = {}
        /\ utility_ptr' = BroadcastIn(t)
        /\ pc' = [pc EXCEPT ![t] = "idle"]
        /\ round' = [round EXCEPT ![t] = k]
        /\ rc' = [rc EXCEPT ![t] = BARRIER_SERIAL_THREAD]
    BY DEF Arrive, Leave, TypeOK, count
  <1>2. /\ Waiting = Thread \ {t}
        /\ Cardinality(Waiting) = count - 1
    <2>1. t \notin Waiting
      BY DEF Waiting
    <2>2. Cardinality(Waiting) = count - 1
      BY WaitingFinite DEF LeftCounts, TypeOK
    <2>3. /\ IsFiniteSet(Waiting)
          /\ Waiting \subseteq Thread
          /\ count \in Nat
      BY WaitingFinite
    <2>4. Cardinality(Waiting \cup {t}) = Cardinality(Waiting) + 1
      BY <2>1, <2>3, FS_AddElement
    <2>5. /\ Cardinality(Waiting \cup {t}) = count
          /\ Waiting \cup {t} \subseteq Thread
      BY <2>2, <2>3, <2>4
    <2>6. Waiting \cup {t} = Thread
      BY <2>5, FS_Subset, ThreadAssumption DEF count
    <2> QED
      BY <2>1, <2>2, <2>6
  <1>3. Waiting' = Waiting
    BY <1>1 DEF Waiting, TypeOK
  <1>4. k \in 1 .. MaxRounds /\ k \in 0 .. MaxRounds
    BY RoundsAssumption DEF TypeOK
  <1>5. Root[k] \in Thread
    BY <1>4, RootAssumption
  <1>6. \A u \in Thread : round[u] = round[t]
    BY DEF Arriving
  <1>7. BroadcastIn(t) = Own(Root[k], k)
    <2>1. CASE Root[k] = t
      BY <2>1 DEF BroadcastIn
    <2>2. CASE Root[k] # t
      <3>1. Root[k] \in Waiting
        BY <1>2, <1>5, <2>2
      <3>2. round[Root[k]] = round[t]
        BY <1>5, <1>6
      <3>3. utility_ptr = Own(Root[k], k)
        BY <3>1, <3>2 DEF Arriving
      <3> QED
        BY <3>3, <2>2 DEF BroadcastIn
    <2> QED
      BY <2>1, <2>2
  <1>8. Own(Root[k], k) \in Ptr
    BY <1>4, <1>5, OwnType
  <1>9. /\ e \in 0 .. EventMod - 1
        /\ Odd(e)
        /\ e # event
        /\ NextEvent(e) \in 0 .. EventMod - 1
        /\ ~Odd(NextEvent(e))
    BY NextEventFlips DEF TypeOK
  <1>10. TypeOK'
    <2>1. 1 \in 0 .. count
      BY WaitingFinite
    <2>2. round' \in [Thread -> 0 .. MaxRounds]
      BY <1>1, <1>4 DEF TypeOK
    <2>3. got' \in [Thread -> Ptr]
      BY <1>1, <1>7, <1>8 DEF TypeOK
    <2>4. event' \in 0 .. EventMod - 1
      BY <1>1, <1>9
    <2>5. /\ pc' \in [Thread -> {"idle", "gate", "wait"}]
          /\ rc' \in [Thread -> {0, BARRIER_SERIAL_THREAD}]
          /\ asleep' \subseteq Thread
      BY <1>1 DEF TypeOK
    <2>6. /\ ordinal' \in [Thread -> 0 .. count]
          /\ left' \in 0 .. count
      BY <1>1, <2>1, WaitingFinite DEF TypeOK
    <2>7. utility_ptr' \in Ptr /\ ev' \in [Thread -> 0 .. EventMod - 1]
      BY <1>1, <1>7, <1>8 DEF TypeOK
    <2> QED
      BY <2>2, <2>3, <2>4, <2>5, <2>6, <2>7
      DEF TypeOK, count, BARRIER_SERIAL_THREAD, Ptr
  <1>11. LeftCounts'
    BY <1>1, <1>2, <1>3, WaitingFinite DEF LeftCounts, count
  <1>12. Arriving'
    <2>1. CASE count = 1
      <3>1. Waiting' = {} /\ Thread = {t}
        BY <1>2, <1>3, <2>1, WaitingFinite
      <3> QED
        BY <3>1 DEF Arriving
    <2>2. CASE count # 1
      BY <1>1, <1>9, <2>2 DEF Arriving
    <2> QED
      BY <2>1, <2>2
  <1>13. Leaving'
    <2>1. CASE count = 1
      BY <1>1, <1>9, <2>1 DEF Leaving
    <2>2. CASE count # 1
      <3>1. event' = e
        BY <1>1, <2>2
      <3>2. Waiting' # {}
        BY <1>2, <1>3, <2>2, WaitingFinite
      <3>3. ASSUME NEW u \in Waiting'
            PROVE  /\ ev'[u] # event'
                   /\ round'[u] = round[t]
                   /\ utility_ptr' = Own(Root[round'[u] + 1], round'[u] + 1)
        <4>1. u \in Waiting /\ u \in Thread /\ u # t
          BY <1>2, <1>3, <3>3
        <4>2. round'[u] = round[t]
          BY <1>1, <1>6, <4>1 DEF TypeOK
        <4> QED
          BY <1>1, <1>7, <1>9, <3>1, <4>1, <4>2 DEF Arriving
      <3>4. ASSUME NEW u \in Waiting', NEW v \in Thread
            PROVE  round'[v] = IF v \in Waiting' THEN round'[u] ELSE round'[u] + 1
        <4>1. round'[u] = round[t]
          BY <3>3, <3>4
        <4>2. v \in Waiting' <=> v # t
          BY <1>2, <1>3, <3>4
        <4> QED
          BY <1>1, <1>6, <4>1, <4>2 DEF TypeOK
      <3> QED
        BY <3>2, <3>3, <3>4 DEF Leaving
    <2> QED
      BY <2>1, <2>2
  <1>14. InRange'
    BY <1>1 DEF InRange, TypeOK
  <1>15. BroadcastDelivers'
    BY <1>1, <1>7 DEF BroadcastDelivers, TypeOK
  <1>16. NoLostWakeup'
    BY <1>1 DEF NoLostWakeup
  <1> QED
    BY <1>10, <1>11, <1>12, <1>13, <1>14, <1>15, <1>16

(* Leaving after the wait; the last one to leave makes event even again. *)
LEMMA Departure ==
    ASSUME IndInv, NEW t \in Thread, pc[t] = "wait", ev[t] # event,
           Leave(t, left, event, asleep, utility_ptr, 0),
           ev' = ev, ordinal' = ordinal, status' = status
    PROVE  IndInv'
  <1> USE DEF IndInv
  <1> DEFINE k == round[t] + 1
  <1>1. /\ got' = [got EXCEPT ![t] = utility_ptr]
        /\ left' = left + 1
        /\ event' = IF left + 1 = count THEN NextEvent(event) ELSE event
        /\ asleep' = IF left + 1 = count THEN {} ELSE asleep
        /\ utility_ptr' = utility_ptr
        /\ pc' = [pc EXCEPT ![t] = "idle"]
        /\ round' = [round EXCEPT ![t] = k]
        /\ rc' = [rc EXCEPT ![t] = 0]
    BY DEF Leave, TypeOK
  <1>2. t \in Waiting
    BY DEF Waiting
  <1>3. Odd(event)
    BY <1>2 DEF Arriving
  <1>4. Waiting' = Waiting \ {t}
    BY <1>1 DEF Waiting, TypeOK
  <1>5. Cardinality(Waiting') = Cardinality(Waiting) - 1
    BY <1>2, <1>4, WaitingFinite, FS_RemoveElement
  <1>6. IsFiniteSet(Waiting')
    BY <1>4, WaitingFinite, FS_RemoveElement
  <1>7. left + 1 = count <=> Waiting' = {}
    <2>1. Cardinality(Waiting') = 0 <=> Waiting' = {}
      BY <1>6, FS_EmptySet
    <2> QED
      BY <1>5, <2>1, WaitingFinite DEF LeftCounts
  <1>8. k \in 1 .. MaxRounds /\ k \in 0 .. MaxRounds
    BY RoundsAssumption DEF TypeOK, InRange
  <1>9. utility_ptr = Own(Root[k], k)
    BY <1>2, <1>3 DEF Leaving
  <1>10. /\ NextEvent(event) \in 0 .. EventMod - 1
         /\ ~Odd(NextEvent(event))
    BY <1>3, NextEventFlips DEF TypeOK
  <1>11. \A u \in Thread :
            /\ round[u] = IF u \in Waiting THEN round[t] ELSE k
            /\ round'[u] = IF u \in Waiting' THEN round[t] ELSE k
    <2>1. \A u \in Thread : round[u] = IF u \in Waiting THEN round[t] ELSE k
      BY <1>2, <1>3 DEF Leaving
    <2> QED
      BY <2>1, <1>1, <1>2, <1>4 DEF TypeOK
  <1>12. TypeOK'
    <2>1. left' \in 0 .. count
      BY <1>1, <1>2, WaitingFinite DEF LeftCounts, TypeOK
    <2>2. event' \in 0 .. EventMod - 1 /\ asleep' \subseteq Thread
      BY <1>1, <1>10 DEF TypeOK
    <2>3. /\ pc' \in [Thread -> {"idle", "gate", "wait"}]
          /\ rc' \in [Thread -> {0, BARRIER_SERIAL_THREAD}]
          /\ round' \in [Thread -> 0 .. MaxRounds]
          /\ got' \in [Thread -> Ptr]
      BY <1>1, <1>8 DEF TypeOK
    <2> QED
      BY <1>1, <2>1, <2>2, <2>3 DEF TypeOK, count, BARRIER_SERIAL_THREAD, Ptr
  <1>13. LeftCounts'
    BY <1>1, <1>5, WaitingFinite DEF LeftCounts, TypeOK, count
  <1>14. Arriving'
    <2>1. CASE left + 1 = count
      <3>1. Waiting' = {} /\ Thread # {}
        BY <1>7, <2>1, ThreadAssumption
      <3>2. \A u, v \in Thread : round'[u] = round'[v]
        BY <1>11, <3>1
      <3> QED
        BY <3>1, <3>2 DEF Arriving
    <2>2. CASE left + 1 # count
      BY <1>1, <1>3, <2>2 DEF Arriving
    <2> QED
      BY <2>1, <2>2
  <1>15. Leaving'
    <2>1. CASE left + 1 = count
      BY <1>1, <1>10, <2>1 DEF Leaving
    <2>2. CASE left + 1 # count
      <3>1. event' = event /\ Waiting' # {}
        BY <1>1, <1>7, <2>2
      <3>2. ASSUME NEW u \in Waiting'
            PROVE  /\ ev'[u] # event'
                   /\ round'[u] = round[t]
                   /\ utility_ptr' = Own(Root[round'[u] + 1], round'[u] + 1)
        <4>1. u \in Waiting /\ u \in Thread
          BY <1>4, <3>2, WaitingFinite
        <4>2. round'[u] = round[t]
          BY <1>11, <3>2, <4>1
        <4>3. ev[u] # event
          BY <1>3, <4>1 DEF Leaving
        <4> QED
          BY <1>1, <1>9, <3>1, <4>2, <4>3
      <3>3. ASSUME NEW u \in Waiting', NEW v \in Thread
            PROVE  round'[v] = IF v \in Waiting' THEN round'[u] ELSE round'[u] + 1
        BY <1>11, <3>2, <3>3
      <3> QED
        BY <3>1, <3>2, <3>3 DEF Leaving
    <2> QED
      BY <2>1, <2>2
  <1>16. InRange'
    BY <1>1 DEF InRange, TypeOK
  <1>17. BroadcastDelivers'
    BY <1>1, <1>9 DEF BroadcastDelivers, TypeOK
  <1>18. NoLostWakeup'
    <2>1. CASE left + 1 = count
      BY <1>1, <2>1 DEF NoLostWakeup
    <2>2. CASE left + 1 # count
      <3>1. t \notin asleep
        BY DEF NoLostWakeup
      <3> QED
        BY <1>1, <2>2, <3>1 DEF NoLostWakeup, TypeOK
    <2> QED
      BY <2>1, <2>2
  <1> QED
    BY <1>12, <1>13, <1>14, <1>15, <1>16, <1>17, <1>18

(* The head of barrier_wait, for a thread that is not in the round yet. *)
LEMMA GateStep ==
    ASSUME IndInv, NEW t \in Thread, pc[t] # "wait", round[t] < MaxRounds,
           Gate(t), status' = status
    PROVE  IndInv'
  <1>1. CASE Odd(event)
    <2>1. /\ pc' = [pc EXCEPT ![t] = "gate"]
          /\ asleep' = asleep \cup {t}
          /\ left' = left /\ event' = event /\ ev' = ev /\ round' = round
          /\ ordinal' = ordinal /\ rc' = rc /\ utility_ptr' = utility_ptr
          /\ got' = got
      BY <1>1 DEF Gate
    <2>2. Waiting' = Waiting
      BY <2>1 DEF IndInv, TypeOK, Waiting
    <2>3. TypeOK' /\ InRange' /\ BroadcastDelivers'
      BY <2>1 DEF IndInv, TypeOK, InRange, BroadcastDelivers, Ptr, count
    <2>4. LeftCounts' /\ Arriving' /\ Leaving'
      BY <2>1, <2>2 DEF IndInv, LeftCounts, Arriving, Leaving, count
    <2>5. NoLostWakeup'
      BY <1>1, <2>1 DEF IndInv, NoLostWakeup, TypeOK
    <2> QED
      BY <2>3, <2>4, <2>5 DEF IndInv
  <1>2. CASE ~Odd(event)
    <2>1. Arrive(t)
      BY <1>2 DEF Gate
    <2> QED
      BY <1>2, <2>1, FirstArrivals, LastArrival
  <1> QED
    BY <1>1, <1>2

(* A step that only moves threads in and out of the sleepers, or only      *)
(* changes status, keeps the invariant if nobody sleeps wrongly.           *)
LEMMA QuietStep ==
    ASSUME IndInv, left' = left, event' = event, utility_ptr' = utility_ptr,
           local' = local, asleep' \subseteq Thread, NoLostWakeup',
           status' \in {"live", "destroyed", "EBUSY"}
    PROVE  IndInv'
  <1>1. /\ pc' = pc /\ ev' = ev /\ round' = round
        /\ ordinal' = ordinal /\ rc' = rc /\ got' = got
    BY DEF local
  <1>2. Waiting' = Waiting
    BY <1>1 DEF Waiting
  <1>3. TypeOK' /\ InRange' /\ BroadcastDelivers'
    BY <1>1 DEF IndInv, TypeOK, InRange, BroadcastDelivers, Ptr, count
  <1>4. LeftCounts' /\ Arriving' /\ Leaving'
    BY <1>1, <1>2 DEF IndInv, LeftCounts, Arriving, Leaving, count
  <1> QED
    BY <1>3, <1>4 DEF IndInv

------------------------------------------------------------------------------

LEMMA InitIndInv == Init => IndInv
  <1> SUFFICES ASSUME Init PROVE IndInv
    OBVIOUS
  <1>1. Waiting = {}
    BY DEF Init, Waiting
  <1>2. Cardinality(Waiting) = 0 /\ count \in Nat
    BY <1>1, FS_EmptySet, FS_CardinalityType, ThreadAssumption DEF count
  <1>3. \A t \in Thread : Own(t, 0) \in Ptr
    BY OwnType, RoundsAssumption
  <1>4. TypeOK
    BY <1>2, <1>3, EventAssumption, RoundsAssumption
    DEF Init, TypeOK, Ptr, BARRIER_SERIAL_THREAD
  <1>5. LeftCounts
    BY <1>2 DEF Init, LeftCounts
  <1>6. Arriving
    BY <1>1, ThreadAssumption DEF Init, Arriving
  <1>7. Leaving
    BY DEF Init, Leaving, Odd
  <1>8. InRange /\ BroadcastDelivers /\ NoLostWakeup
    BY DEF Init, InRange, BroadcastDelivers, NoLostWakeup
  <1> QED
    BY <1>4, <1>5, <1>6, <1>7, <1>8 DEF IndInv

LEMMA NextIndInv == IndInv /\ [Next]_vars => IndInv'
  <1> SUFFICES ASSUME IndInv, [Next]_vars PROVE IndInv'
    OBVIOUS
  <1>1. ASSUME NEW t \in Thread, Enter(t) PROVE IndInv'
    BY <1>1, GateStep DEF Enter
  <1>2. ASSUME NEW t \in Thread, GateResume(t) PROVE IndInv'
    BY <1>2, GateStep DEF GateResume, IndInv, InRange
  <1>3. ASSUME NEW t \in Thread, WaitResume(t) PROVE IndInv'
    <2>1. CASE ev[t] = event
      <3>1. asleep' = asleep \cup {t} /\ event' = event /\ local' = local
        BY <1>3, <2>1 DEF WaitResume
      <3>2. asleep' \subseteq Thread
        BY <3>1 DEF IndInv, TypeOK
      <3>3. NoLostWakeup'
        BY <1>3, <2>1, <3>1 DEF WaitResume, local, IndInv, NoLostWakeup
      <3> QED
        BY <1>3, <2>1, <3>1, <3>2, <3>3, QuietStep
        DEF WaitResume, IndInv, TypeOK
    <2>2. CASE ev[t] # event
      BY <1>3, <2>2, Departure DEF WaitResume
    <2> QED
      BY <2>1, <2>2
  <1>4. ASSUME NEW t \in Thread, SpuriousWakeup(t) PROVE IndInv'
    <2>1. asleep' \subseteq Thread
      BY <1>4 DEF SpuriousWakeup, IndInv, TypeOK
    <2>2. NoLostWakeup'
      BY <1>4 DEF SpuriousWakeup, local, IndInv, NoLostWakeup
    <2> QED
      BY <1>4, <2>1, <2>2, QuietStep DEF SpuriousWakeup, IndInv, TypeOK
  <1>5. CASE Destroy
    <2>1. asleep' \subseteq Thread
      BY <1>5 DEF Destroy, shared, IndInv, TypeOK
    <2>2. NoLostWakeup'
      BY <1>5 DEF Destroy, shared, local, IndInv, NoLostWakeup
    <2> QED
      BY <1>5, <2>1, <2>2, QuietStep DEF Destroy, shared
  <1>6. CASE UNCHANGED vars
    <2>1. asleep' \subseteq Thread
      BY <1>6 DEF vars, IndInv, TypeOK
    <2>2. NoLostWakeup'
      BY <1>6 DEF vars, IndInv, NoLostWakeup
    <2> QED
      BY <1>6, <2>1, <2>2, QuietStep DEF vars, local, IndInv, TypeOK
  <1> QED
    BY <1>1, <1>2, <1>3, <1>4, <1>5, <1>6 DEF Next, Step, Finished

(* The inductive invariant holds in every reachable state. *)
THEOREM Invariance == Spec => []IndInv
  BY InitIndInv, NextIndInv, PTL DEF Spec

(* Every variable keeps its type; in particular left stays in 0 .. count   *)
(* however often the barrier is reused.                                    *)
THEOREM TypeCorrect == Spec => []TypeOK
  <1>1. IndInv => TypeOK
    BY DEF IndInv
  <1> QED
    BY <1>1, Invariance, PTL

(* "The function only returns when all the threads have reached it", for   *)
(* any number of threads and of reuses of the barrier.                     *)
THEOREM RendezvousHolds == Spec => []Rendezvous
  <1>1. IndInv => Rendezvous
    <2> SUFFICES ASSUME IndInv, NEW t \in Thread, NEW u \in Thread
                 PROVE  round[t] <= round[u] + (IF pc[u] = "wait" THEN 1 ELSE 0)
      BY DEF Rendezvous
    <2>1. round[t] \in Nat /\ round[u] \in Nat
      BY DEF IndInv, TypeOK
    <2>2. CASE ~Odd(event)
      BY <2>1, <2>2 DEF IndInv, Arriving
    <2>3. CASE Odd(event)
      <3>1. PICK w \in Waiting : TRUE
        BY <2>3 DEF IndInv, Leaving
      <3>2. /\ round[t] = IF t \in Waiting THEN round[w] ELSE round[w] + 1
            /\ round[u] = IF u \in Waiting THEN round[w] ELSE round[w] + 1
        BY <2>3, <3>1 DEF IndInv, Leaving
      <3>3. round[w] \in Nat
        BY <3>1 DEF IndInv, TypeOK, Waiting
      <3> QED
        BY <2>1, <3>2, <3>3 DEF Waiting
    <2> QED
      BY <2>2, <2>3
  <1> QED
    BY <1>1, Invariance, PTL

(* thread_broadcast gives every thread the pointer of the round's root.    *)
THEOREM BroadcastCorrect == Spec => []BroadcastDelivers
  <1>1. IndInv => BroadcastDelivers
    BY DEF IndInv
  <1> QED
    BY <1>1, Invariance, PTL

(* No thread sleeps on barrier->cv after the event it waits for.           *)
THEOREM WakeupsReach == Spec => []NoLostWakeup
  <1>1. IndInv => NoLostWakeup
    BY DEF IndInv
  <1> QED
    BY <1>1, Invariance, PTL

(* Once every thread has returned from its last call, left is back to      *)
(* count, so that barrier_destroy succeeds.                                *)
THEOREM DestroySucceeds == Spec => []DestroyNotBusy
  <1>1. Init => DestroyNotBusy
    BY DEF Init, DestroyNotBusy
  <1>2. IndInv /\ DestroyNotBusy /\ [Next]_vars => DestroyNotBusy'
    <2> SUFFICES ASSUME IndInv, DestroyNotBusy, [Next]_vars
                 PROVE  DestroyNotBusy'
      OBVIOUS
    <2>1. CASE Destroy
      <3>1. Waiting = {}
        BY <2>1 DEF Destroy, Waiting
      <3>2. left = count
        BY <3>1, WaitingFinite DEF IndInv, LeftCounts
      <3> QED
        BY <2>1, <3>2 DEF Destroy, DestroyNotBusy
    <2>2. CASE status' = status
      BY <2>2 DEF DestroyNotBusy
    <2> QED
      BY <2>1, <2>2
      DEF Next, Step, Enter, GateResume, WaitResume, SpuriousWakeup, Finished, vars
  <1> QED
    BY <1>1, <1>2, Invariance, PTL DEF Spec

------------------------------------------------------------------------------
(* The return values and the ordinals.                                     *)

(* Exactly one thread of S has the return value of the serial thread. *)
OneIn(S) == \E t \in S : \A u \in S : rc[u] = BARRIER_SERIAL_THREAD <=> u = t

(* The thread elected by a round is the only one among those that have     *)
(* left it; when nobody is leaving, among all.                             *)
Elected ==
    /\ Odd(event) => OneIn(Thread \ Waiting)
    /\ ~Odd(event) => OneIn(Thread) \/ \A t \in Thread : round[t] = 0

(* The ordinals of a round come out in decreasing order, so that they      *)
(* differ: those of the waiters while threads arrive, all while they leave. *)
Numbered ==
    /\ \A t \in Waiting : ~Odd(event) => ordinal[t] >= left
    /\ \A t, u \in Thread :
          t # u /\ (Odd(event) \/ {t, u} \subseteq Waiting) => ordinal[t] # ordinal[u]

LEMMA FirstArrivalsNumber ==
    ASSUME IndInv, Elected, Numbered,
           NEW t \in Thread, pc[t] # "wait", ~Odd(event), Arrive(t), left - 1 # 0
    PROVE  Elected' /\ Numbered'
  <1>1. /\ left' = left - 1 /\ event' = event /\ rc' = rc /\ round' = round
        /\ pc' = [pc EXCEPT ![t] = "wait"]
        /\ ordinal' = [ordinal EXCEPT ![t] = left - 1]
        /\ left \in Nat /\ ordinal \in [Thread -> Nat]
    BY WaitingFinite DEF Arrive, IndInv, TypeOK
  <1>2. Waiting' = Waiting \cup {t} /\ t \notin Waiting
    BY <1>1 DEF Waiting, IndInv, TypeOK
  <1>3. Elected'
    BY <1>1 DEF Elected, OneIn
  <1>4. Numbered'
    BY <1>1, <1>2 DEF Numbered, Waiting
  <1> QED
    BY <1>3, <1>4

LEMMA LastArrivalNumber ==
    ASSUME IndInv, Elected, Numbered,
           NEW t \in Thread, pc[t] # "wait", ~Odd(event), Arrive(t), left - 1 = 0
    PROVE  Elected' /\ Numbered'
  <1>1. /\ event' = IF count = 1 THEN NextEvent(NextEvent(event)) ELSE NextEvent(event)
        /\ pc' = [pc EXCEPT ![t] = "idle"]
        /\ rc' = [rc EXCEPT ![t] = BARRIER_SERIAL_THREAD]
        /\ ordinal' = [ordinal EXCEPT ![t] = 0]
        /\ left = 1 /\ ordinal \in [Thread -> Nat]
        /\ rc \in [Thread -> {0, BARRIER_SERIAL_THREAD}]
    BY WaitingFinite DEF Arrive, Leave, IndInv, TypeOK
  <1>2. Waiting' = Waiting /\ t \notin Waiting
    BY <1>1 DEF Waiting, IndInv, TypeOK
  <1>3. Waiting = Thread \ {t}
    <2>1. Cardinality(Waiting) = count - 1
      BY <1>1, WaitingFinite DEF IndInv, LeftCounts
    <2>2. IsFiniteSet(Waiting) /\ Waiting \subseteq Thread /\ count \in Nat
      BY WaitingFinite DEF IndInv
    <2>3. Cardinality(Waiting \cup {t}) = Cardinality(Waiting) + 1
      BY <1>2, <2>2, FS_AddElement
    <2>4. Cardinality(Waiting \cup {t}) = count /\ Waiting \cup {t} \subseteq Thread
      BY <2>1, <2>2, <2>3
    <2>5. Waiting \cup {t} = Thread
      BY <2>4, FS_Subset, ThreadAssumption DEF count
    <2> QED
      BY <1>2, <2>5
  <1>4. Odd(event') <=> count # 1
    <2>1. event \in 0 .. EventMod - 1
      BY DEF IndInv, TypeOK
    <2>2. NextEvent(event) \in 0 .. EventMod - 1 /\ Odd(NextEvent(event))
      BY <2>1, NextEventFlips
    <2>3. ~Odd(NextEvent(NextEvent(event)))
      BY <2>2, NextEventFlips
    <2> QED
      BY <1>1, <2>2, <2>3
  <1>5. count = 1 => Waiting = {}
    BY <1>1, WaitingFinite DEF IndInv, LeftCounts
  <1>6. Elected'
    BY <1>1, <1>2, <1>3, <1>4, <1>5 DEF Elected, OneIn
  <1>7. Numbered'
    BY <1>1, <1>2, <1>3, <1>4, <1>5 DEF Numbered
  <1> QED
    BY <1>6, <1>7

LEMMA DepartureNumber ==
    ASSUME IndInv, Elected, Numbered,
           NEW t \in Thread, pc[t] = "wait", ev[t] # event,
           Leave(t, left, event, asleep, utility_ptr, 0), ordinal' = ordinal
    PROVE  Elected' /\ Numbered'
  <1>1. /\ event' = IF left + 1 = count THEN NextEvent(event) ELSE event
        /\ pc' = [pc EXCEPT ![t] = "idle"]
        /\ rc' = [rc EXCEPT ![t] = 0]
        /\ rc \in [Thread -> {0, BARRIER_SERIAL_THREAD}]
    BY DEF Leave, IndInv, TypeOK
  <1>2. t \in Waiting /\ Odd(event)
    BY DEF Waiting, IndInv, Arriving
  <1>3. Waiting' = Waiting \ {t}
    BY <1>1 DEF Waiting, IndInv, TypeOK
  <1>4. left + 1 = count => Waiting' = {}
    <2>1. IsFiniteSet(Waiting)
      BY WaitingFinite DEF IndInv
    <2>2. Cardinality(Waiting') = Cardinality(Waiting) - 1
      BY <1>2, <1>3, <2>1, FS_RemoveElement
    <2>3. IsFiniteSet(Waiting')
      BY <1>3, <2>1, FS_RemoveElement
    <2>4. Cardinality(Waiting') = 0 <=> Waiting' = {}
      BY <2>3, FS_EmptySet
    <2> QED
      BY <2>2, <2>4, WaitingFinite DEF IndInv, LeftCounts
  <1>5. left + 1 = count => ~Odd(event')
    BY <1>1, <1>2, NextEventFlips DEF IndInv, TypeOK
  <1>6. left + 1 # count => Odd(event')
    BY <1>1, <1>2
  <1>7. OneIn(Thread \ Waiting)
    BY <1>2 DEF Elected
  <1>8. OneIn(Thread \ Waiting)'
    BY <1>1, <1>2, <1>3, <1>7 DEF OneIn, BARRIER_SERIAL_THREAD
  <1>9. Elected'
    BY <1>3, <1>4, <1>5, <1>6, <1>8 DEF Elected
  <1>10. Numbered'
    BY <1>2, <1>3, <1>4, <1>5, <1>6 DEF Numbered
  <1> QED
    BY <1>9, <1>10

LEMMA GateNumber ==
    ASSUME IndInv, Elected, Numbered, NEW t \in Thread, pc[t] # "wait", Gate(t)
    PROVE  Elected' /\ Numbered'
  <1>1. CASE Odd(event)
    <2>1. /\ pc' = [pc EXCEPT ![t] = "gate"] /\ event' = event /\ left' = left
          /\ rc' = rc /\ round' = round /\ ordinal' = ordinal
      BY <1>1 DEF Gate
    <2>2. Waiting' = Waiting
      BY <2>1 DEF Waiting, IndInv, TypeOK
    <2> QED
      BY <2>1, <2>2 DEF Elected, OneIn, Numbered
  <1>2. CASE ~Odd(event)
    BY <1>2, FirstArrivalsNumber, LastArrivalNumber DEF Gate
  <1> QED
    BY <1>1, <1>2

LEMMA NextNumbers == IndInv /\ Elected /\ Numbered /\ [Next]_vars => Elected' /\ Numbered'
  <1> SUFFICES ASSUME IndInv, Elected, Numbered, [Next]_vars PROVE Elected' /\ Numbered'
    OBVIOUS
  <1>1. ASSUME local' = local, event' = event, left' = left
        PROVE  Elected' /\ Numbered'
    <2>1. Waiting' = Waiting
      BY <1>1 DEF local, Waiting
    <2> QED
      BY <1>1, <2>1 DEF local, Elected, OneIn, Numbered
  <1>2. ASSUME NEW t \in Thread, Enter(t) \/ GateResume(t) PROVE Elected' /\ Numbered'
    BY <1>2, GateNumber DEF Enter, GateResume
  <1>3. ASSUME NEW t \in Thread, WaitResume(t) PROVE Elected' /\ Numbered'
    BY <1>1, <1>3, DepartureNumber DEF WaitResume
  <1>4. ASSUME NEW t \in Thread, SpuriousWakeup(t) PROVE Elected' /\ Numbered'
    BY <1>1, <1>4 DEF SpuriousWakeup
  <1>5. CASE Destroy \/ UNCHANGED vars
    BY <1>1, <1>5 DEF Destroy, shared, vars, local
  <1> QED
    BY <1>2, <1>3, <1>4, <1>5 DEF Next, Step, Finished

(* Between two rounds one thread has BARRIER_SERIAL_THREAD; the in()       *)
(* callbacks of a round get different ordinals; and barrier_destroy finds  *)
(* the barrier idle.                                                       *)
THEOREM SerialOrdinalsTeardown == Spec => []SerialAndTeardown
  <1>1. Init => Elected /\ Numbered
    BY DEF Init, Elected, Numbered, Odd, Waiting
  <1>2. IndInv /\ Elected => OneSerialThread
    <2> SUFFICES ASSUME IndInv, Elected, NEW k \in 1 .. MaxRounds,
                        \A t \in Thread : round[t] = k
                 PROVE  Cardinality({t \in Thread : rc[t] = BARRIER_SERIAL_THREAD}) = 1
      BY DEF OneSerialThread
    <2>1. ~Odd(event)
      <3> SUFFICES ASSUME Odd(event) PROVE FALSE
        OBVIOUS
      <3>1. PICK t \in Thread \ Waiting : TRUE
        BY DEF Elected, OneIn
      <3>2. PICK w \in Waiting : TRUE
        BY DEF IndInv, Leaving
      <3>3. round[t] = round[w] + 1 /\ w \in Thread
        BY <3>1, <3>2 DEF IndInv, Leaving, Waiting
      <3> QED
        BY <3>1, <3>3
    <2>2. OneIn(Thread)
      BY <2>1, ThreadAssumption DEF Elected
    <2>3. PICK t \in Thread : {u \in Thread : rc[u] = BARRIER_SERIAL_THREAD} = {t}
      BY <2>2 DEF OneIn
    <2> QED
      BY <2>3, FS_Singleton
  <1>3. IndInv /\ Numbered => OrdinalsDistinct
    <2> SUFFICES ASSUME IndInv, Numbered, NEW t \in Thread, NEW u \in Thread,
                        t # u, pc[t] = "wait", pc[u] = "wait" \/ round[u] > round[t]
                 PROVE  ordinal[t] # ordinal[u]
      BY DEF OrdinalsDistinct
    <2>1. ~Odd(event) => round[t] = round[u]
      BY DEF IndInv, Arriving
    <2>2. round[u] \in Nat
      BY DEF IndInv, TypeOK
    <2> QED
      BY <2>1, <2>2 DEF Numbered, Waiting
  <1> QED
    BY <1>1, <1>2, <1>3, NextNumbers, Invariance, DestroySucceeds, PTL
    DEF Spec, SerialAndTeardown

------------------------------------------------------------------------------
(* Refinement: every step of the barrier is a step, or a stutter, of the   *)
(* abstract rendez-vous.                                                   *)

(* The refinement mapping of the variable "entered". *)
Entered == [t \in Thread |-> round[t] + (IF pc[t] = "wait" THEN 1 ELSE 0)]

(* A departure is possible in the abstract barrier. *)
LEMMA DepartMaps ==
    ASSUME IndInv, NEW t \in Thread, pc[t] = "wait", ev[t] # event,
           Leave(t, left, event, asleep, utility_ptr, 0)
    PROVE  Abs!Depart(t)
  <1> USE DEF IndInv
  <1> DEFINE k == round[t] + 1
  <1>1. /\ got' = [got EXCEPT ![t] = utility_ptr]
        /\ pc' = [pc EXCEPT ![t] = "idle"]
        /\ round' = [round EXCEPT ![t] = @ + 1]
    BY DEF Leave
  <1>2. t \in Waiting /\ Odd(event)
    BY DEF Waiting, Arriving
  <1>3. /\ utility_ptr = Own(Root[k], k)
        /\ \A u \in Thread : round[u] = IF u \in Waiting THEN round[t] ELSE k
    BY <1>2 DEF Leaving
  <1>4. Entered[t] = k
    BY DEF Entered
  <1>5. \A u \in Thread : Entered[u] >= Entered[t]
    BY <1>3, <1>4 DEF Entered, Waiting, TypeOK
  <1>6. Entered' = Entered
    BY <1>1 DEF Entered, TypeOK
  <1>7. Abs!Own(Root[k], k) = utility_ptr
    BY <1>3 DEF Abs!Own, Own
  <1> QED
    BY <1>1, <1>4, <1>5, <1>6, <1>7 DEF Abs!Depart, Entered

(* An arrival is an abstract arrival, or, for the last thread, an arrival  *)
(* and a departure in one step.                                            *)
LEMMA ArriveMaps ==
    ASSUME IndInv, NEW t \in Thread, pc[t] # "wait", round[t] < MaxRounds,
           ~Odd(event), Arrive(t)
    PROVE  Abs!Arrive(t) \/ Abs!ArriveDepart(t)
  <1> USE DEF IndInv
  <1> DEFINE k == round[t] + 1
  <1>1. Entered[t] = round[t] /\ round[t] \in Nat
    BY DEF Entered, TypeOK
  <1>2. CASE left - 1 # 0
    <2>1. pc' = [pc EXCEPT ![t] = "wait"] /\ round' = round /\ got' = got
      BY <1>2 DEF Arrive
    <2>2. Entered' = [Entered EXCEPT ![t] = @ + 1]
      <3>1. \A u \in Thread :
               Entered'[u] = IF u = t THEN Entered[u] + 1 ELSE Entered[u]
        BY <1>1, <2>1 DEF Entered, TypeOK
      <3>2. \A u \in Thread :
               [Entered EXCEPT ![t] = @ + 1][u]
                  = IF u = t THEN Entered[u] + 1 ELSE Entered[u]
        BY DEF Entered
      <3>3. /\ Entered' = [u \in Thread |-> Entered'[u]]
            /\ DOMAIN Entered = Thread
        BY DEF Entered
      <3> QED
        BY <3>1, <3>2, <3>3
    <2> QED
      BY <1>1, <2>1, <2>2 DEF Abs!Arrive, Entered
  <1>3. CASE left - 1 = 0
    <2>1. /\ got' = [got EXCEPT ![t] = BroadcastIn(t)]
          /\ pc' = [pc EXCEPT ![t] = "idle"]
          /\ round' = [round EXCEPT ![t] = @ + 1]
      BY <1>3 DEF Arrive, Leave
    <2>2. Waiting = Thread \ {t}
      <3>1. t \notin Waiting
        BY DEF Waiting
      <3>2. /\ IsFiniteSet(Waiting) /\ Waiting \subseteq Thread
            /\ count \in Nat /\ Cardinality(Waiting) = count - 1
        BY <1>3, WaitingFinite DEF LeftCounts, TypeOK
      <3>3. Cardinality(Waiting \cup {t}) = Cardinality(Waiting) + 1
        BY <3>1, <3>2, FS_AddElement
      <3>4. /\ Cardinality(Waiting \cup {t}) = count
            /\ Waiting \cup {t} \subseteq Thread
        BY <3>2, <3>3
      <3>5. Waiting \cup {t} = Thread
        BY <3>4, FS_Subset, ThreadAssumption DEF count
      <3> QED
        BY <3>1, <3>5
    <2>3. \A u \in Thread : round[u] = round[t]
      BY DEF Arriving
    <2>4. \A u \in Thread \ {t} : Entered[u] = k
      BY <2>2, <2>3 DEF Entered, Waiting
    <2>5. Entered' = [Entered EXCEPT ![t] = @ + 1]
      <3>1. \A u \in Thread :
               Entered'[u] = IF u = t THEN Entered[u] + 1 ELSE Entered[u]
        BY <1>1, <2>1 DEF Entered, TypeOK
      <3>2. \A u \in Thread :
               [Entered EXCEPT ![t] = @ + 1][u]
                  = IF u = t THEN Entered[u] + 1 ELSE Entered[u]
        BY DEF Entered
      <3>3. /\ Entered' = [u \in Thread |-> Entered'[u]]
            /\ DOMAIN Entered = Thread
        BY DEF Entered
      <3> QED
        BY <3>1, <3>2, <3>3
    <2>6. BroadcastIn(t) = Own(Root[k], k)
      <3>1. k \in 1 .. MaxRounds
        BY RoundsAssumption DEF TypeOK
      <3>2. Root[k] \in Thread
        BY <3>1, RootAssumption
      <3>3. CASE Root[k] = t
        BY <3>3 DEF BroadcastIn
      <3>4. CASE Root[k] # t
        <4>1. Root[k] \in Waiting /\ round[Root[k]] = round[t]
          BY <2>2, <2>3, <3>2, <3>4
        <4> QED
          BY <3>4, <4>1 DEF BroadcastIn, Arriving
      <3> QED
        BY <3>3, <3>4
    <2>7. Abs!Own(Root[k], k) = BroadcastIn(t)
      BY <2>6 DEF Abs!Own, Own
    <2>8. \A u \in Thread \ {t} : Entered[u] >= Entered[t] + 1
      BY <1>1, <2>4
    <2> QED
      BY <1>1, <2>1, <2>5, <2>7, <2>8 DEF Abs!ArriveDepart, Entered
  <1> QED
    BY <1>2, <1>3

(* A thread stopped by the gate is invisible to the abstract barrier. *)
LEMMA GateMaps ==
    ASSUME IndInv, NEW t \in Thread, pc[t] # "wait", round[t] < MaxRounds,
           Gate(t)
    PROVE  [Abs!Next]_(Abs!absVars)
  <1>1. CASE Odd(event)
    <2>1. /\ pc' = [pc EXCEPT ![t] = "gate"]
          /\ round' = round /\ got' = got
      BY <1>1 DEF Gate
    <2>2. Entered' = Entered
      BY <2>1 DEF Entered, IndInv, TypeOK
    <2> QED
      BY <2>1, <2>2 DEF Abs!absVars, Entered
  <1>2. CASE ~Odd(event)
    <2>1. Arrive(t)
      BY <1>2 DEF Gate
    <2> QED
      BY <1>2, <2>1, ArriveMaps DEF Abs!Next
  <1> QED
    BY <1>1, <1>2

(* The barrier of utils/barrier.c, with its lock, its condition variable   *)
(* and its event counter, implements the abstract reusable rendez-vous.    *)
THEOREM Refinement == Spec => RefinesAbs
  <1>1. Init => Abs!Init
    BY DEF Init, Abs!Init, Abs!Own, Own
  <1>2. IndInv /\ [Next]_vars => [Abs!Next]_(Abs!absVars)
    <2> SUFFICES ASSUME IndInv, [Next]_vars
                 PROVE  [Abs!Next]_(Abs!absVars)
      OBVIOUS
    <2>1. ASSUME NEW t \in Thread, Enter(t)
          PROVE  [Abs!Next]_(Abs!absVars)
      BY <2>1, GateMaps DEF Enter
    <2>2. ASSUME NEW t \in Thread, GateResume(t)
          PROVE  [Abs!Next]_(Abs!absVars)
      BY <2>2, GateMaps DEF GateResume, IndInv, InRange
    <2>3. ASSUME NEW t \in Thread, WaitResume(t), ev[t] # event
          PROVE  [Abs!Next]_(Abs!absVars)
      BY <2>3, DepartMaps DEF WaitResume, Abs!Next
    <2>4. ASSUME local' = local
          PROVE  [Abs!Next]_(Abs!absVars)
      BY <2>4 DEF local, Abs!absVars
    <2>5. ASSUME NEW t \in Thread, WaitResume(t), ev[t] = event
          PROVE  local' = local
      BY <2>5 DEF WaitResume
    <2> QED
      BY <2>1, <2>2, <2>3, <2>4, <2>5
      DEF Next, Step, SpuriousWakeup, Destroy, Finished, vars, local
  <1> QED
    BY <1>1, <1>2, Invariance, PTL DEF Spec, RefinesAbs, Abs!Spec

==============================================================================
