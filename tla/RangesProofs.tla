---------------------------- MODULE RangesProofs ----------------------------
(***************************************************************************)
(* What merge_ranges returns, for every finite set of ranges; and what     *)
(* find_hole returns, for every list of ranges of the form merge_ranges    *)
(* produces, every min, max and len.                                       *)
(***************************************************************************)
EXTENDS Ranges, FiniteSetTheorems, TLAPS

(***************************************************************************)
(* A non-empty set of naturals has a least element: the index find_hole's  *)
(* loop of shifts stops at exists.                                         *)
(***************************************************************************)
LEMMA LeastExists ==
    ASSUME NEW T \in SUBSET Nat, T # {}
    PROVE  \E i \in T : \A j \in T : i <= j
<1>1. IsWellFoundedOn(OpToRel(<, Nat), Nat)
  BY NatLessThanWellFounded
<1>2. PICK i \in T : \A j \in T : ~(<<j, i>> \in OpToRel(<, Nat))
  BY <1>1, WFMin
<1>3. \A j \in T : ~(j < i)
  BY <1>2 DEF OpToRel
<1> QED  BY <1>3

(***************************************************************************)
(* A range ends strictly after it starts, aligned to len or not: the       *)
(* comment "Note that doing so, the range can't be empty".                 *)
(***************************************************************************)
LEMMA AlignedIsLater ==
    ASSUME NEW a \in Nat, NEW len \in Nat \ {0}
    PROVE  Aligned(a, len) \in Nat /\ a < Aligned(a, len)
<1> DEFINE m == (a + len) % len
<1>1. m \in 0..(len - 1)
  OBVIOUS
<1>2. (a + len) - m > a
  BY <1>1
<1> HIDE DEF m
<1>3. (a + len) - m \in Nat
  BY <1>1, <1>2
<1> DEFINE b == (a + len) - m
<1>4. b \in Nat /\ b > a
  BY <1>2, <1>3
<1>5. Aligned(a, len) = IF 10 * (b - a) < len THEN b + len ELSE b
  BY DEF Aligned, m
<1> HIDE DEF b
<1> QED  BY <1>4, <1>5
(***************************************************************************)
(* The list find_hole works on: its first range contains or touches min,   *)
(* its second one is the next range of the list, and the ranges it dropped *)
(* end before the hole.                                                    *)
(***************************************************************************)
WellPlaced(min, ranges, rs) ==
    /\ rs \in Seq(Nat \X Nat) /\ Len(rs) >= 1
    /\ Lo(rs[1]) <= min /\ min <= Hi(rs[1])
    /\ Len(rs) > 1 => Hi(rs[1]) < Lo(rs[2])
    /\ \A i \in DOMAIN ranges :
          \/ Hi(ranges[i]) <= Hi(rs[1])
          \/ Len(rs) > 1 /\ Lo(rs[2]) <= Lo(ranges[i])
    /\ \/ rs[1] = <<min, min>>
       \/ \E i \in DOMAIN ranges : rs[1] = ranges[i]

LEMMA FromShape ==
    ASSUME NEW min \in Nat, NEW ranges \in Seq(Nat \X Nat), Separated(ranges),
           NEW rs, rs = From(min, ranges)
    PROVE  WellPlaced(min, ranges, rs)
<1> DEFINE near == Near(min, ranges)
           dummy == <<<<min, min>>>>
<1>0. \A i \in 1..Len(ranges) : /\ ranges[i] \in Nat \X Nat
                                /\ Lo(ranges[i]) \in Nat /\ Hi(ranges[i]) \in Nat
  BY DEF Lo, Hi
<1>1. DOMAIN ranges = 1..Len(ranges) /\ Len(ranges) \in Nat
  OBVIOUS
<1>6. near \in SUBSET Nat /\ near \subseteq 1..Len(ranges)
  BY <1>1 DEF Near
<1>7. \A i \in 1..Len(ranges) : Hi(ranges[i]) < min \/ i \in near
  BY <1>0, <1>1 DEF Near
<1>8. \A i \in near : Hi(ranges[i]) >= min
  BY DEF Near
<1>2. dummy \in Seq(Nat \X Nat) /\ Len(dummy) = 1 /\ dummy[1] = <<min, min>>
  OBVIOUS
<1>3. Lo(<<min, min>>) = min /\ Hi(<<min, min>>) = min
  BY DEF Lo, Hi
<1> HIDE DEF near
<1>4. CASE near = {}
  <2>1. rs = dummy \o <<>>
    BY <1>4 DEF From, Kept, near
  <2>2. rs \in Seq(Nat \X Nat) /\ Len(rs) = 1 /\ rs[1] = <<min, min>>
    BY <2>1, <1>2
  <2>3. \A i \in 1..Len(ranges) : Hi(ranges[i]) < min
    BY <1>4, <1>7
  <2>4. Lo(rs[1]) = min /\ Hi(rs[1]) = min
    BY <2>2, <1>3
  <2>5. \A i \in DOMAIN ranges : Hi(ranges[i]) <= Hi(rs[1])
    BY <2>3, <2>4, <1>0, <1>1
  <2>6. Len(rs) >= 1 /\ ~(Len(rs) > 1) /\ Lo(rs[1]) <= min /\ min <= Hi(rs[1])
    BY <2>2, <2>4
  <2> QED  BY <2>2, <2>5, <2>6 DEF WellPlaced
<1>5. CASE near # {}
  <2> DEFINE k == FirstNear(min, ranges)
             kept == SubSeq(ranges, k, Len(ranges))
  <2>1. k \in near /\ \A j \in near : k <= j
    <3>1. \E i \in near : \A j \in near : i <= j
      BY <1>6, <1>5, LeastExists
    <3> QED  BY <3>1 DEF FirstNear, near
  <2> HIDE DEF k
  <2>2. k \in 1..Len(ranges) /\ Hi(ranges[k]) >= min
    BY <2>1, <1>6, <1>8
  <2>3. /\ kept \in Seq(Nat \X Nat) /\ Len(kept) = Len(ranges) - k + 1
        /\ \A i \in 1..Len(kept) : kept[i] = ranges[k + i - 1]
    BY SMTT(30), <2>2, <1>0, <1>1
  <2>4. kept # <<>> /\ kept[1] = ranges[k] /\ Len(kept) \in Nat \ {0}
    <3>1. Len(kept) \in Nat \ {0} /\ kept[1] = ranges[k]
      BY <2>2, <2>3, <1>1
    <3> HIDE DEF kept
    <3> QED  BY <3>1
  <2>5. Len(kept) > 1 => k + 1 \in 1..Len(ranges) /\ kept[2] = ranges[k + 1]
    BY <2>2, <2>3, <1>1
  <2>6. \A i \in 1..Len(ranges) : i < k => Hi(ranges[i]) < min
    <3>1. TAKE i \in 1..Len(ranges)
    <3>2. HAVE i < k
    <3>3. i \notin near
      BY <3>2, <2>1, <2>2
    <3> QED  BY <3>3, <1>7
  <2>7. /\ \A i, j \in 1..Len(ranges) : i < j => Hi(ranges[i]) < Lo(ranges[j])
        /\ \A i \in 1..Len(ranges) : Lo(ranges[i]) <= Hi(ranges[i])
    BY <1>1 DEF Separated
  <2>8. \A i \in 1..Len(ranges) : i > k + 1 => Lo(ranges[k + 1]) <= Lo(ranges[i])
    <3>1. TAKE i \in 1..Len(ranges)
    <3>2. HAVE i > k + 1
    <3>3. k + 1 \in 1..Len(ranges)
      BY <3>2, <2>2, <1>1
    <3>4. /\ Hi(ranges[k + 1]) < Lo(ranges[i])
          /\ Lo(ranges[k + 1]) <= Hi(ranges[k + 1])
      BY <3>2, <3>3, <2>7, <2>2
    <3>5. Lo(ranges[k + 1]) \in Nat /\ Hi(ranges[k + 1]) \in Nat
      BY <3>3, <1>0
    <3> QED  BY <3>4, <3>5, <1>0
  <2>9. rs = IF Lo(kept[1]) <= min THEN kept ELSE dummy \o kept
    <3>1. kept = Kept(min, ranges)
      BY <1>5 DEF Kept, k, near
    <3> HIDE DEF kept
    <3> QED  BY <3>1, <2>4 DEF From
  <2> HIDE DEF kept
  <2>10. CASE Lo(kept[1]) <= min
    <3>1. rs = kept
      BY <2>9, <2>10
    <3>2. /\ Hi(rs[1]) = Hi(ranges[k]) /\ rs[1] = ranges[k]
          /\ Len(rs) > 1 => /\ k + 1 \in 1..Len(ranges)
                            /\ Lo(rs[2]) = Lo(ranges[k + 1])
      BY <3>1, <2>4, <2>5
    <3>3. ASSUME NEW i \in 1..Len(ranges)
          PROVE  \/ Hi(ranges[i]) <= Hi(rs[1])
                 \/ Len(rs) > 1 /\ Lo(rs[2]) <= Lo(ranges[i])
      <4>1. CASE i < k
        <5>1. Hi(ranges[i]) < min
          BY <4>1, <2>6
        <5>2. Hi(rs[1]) >= min /\ Hi(rs[1]) \in Nat
          BY <3>2, <2>2, <1>0
        <5>3. Hi(ranges[i]) \in Nat
          BY <1>0
        <5>4. Hi(ranges[i]) <= Hi(rs[1])
          BY <5>1, <5>2, <5>3
        <5> QED  BY <5>4
      <4>2. CASE i = k
        BY SMTT(30), <4>2, <3>2, <1>0
      <4>3. CASE i = k + 1
        <5>1. Len(rs) > 1
          BY <4>3, <3>1, <2>3, <2>2, <1>1
        <5> QED  BY <5>1, <4>3, <3>2, <2>2, <1>0, <1>1
      <4>4. CASE i > k + 1
        <5>1. Len(rs) > 1
          BY <4>4, <3>1, <2>3, <2>2, <1>1
        <5> QED  BY <5>1, <4>4, <2>8, <3>2
      <4> QED  BY <4>1, <4>2, <4>3, <4>4, <2>2, <1>1
    <3>4. Len(rs) > 1 => Hi(rs[1]) < Lo(rs[2])
      BY <3>2, <2>7, <2>2, <1>1
    <3>5. rs \in Seq(Nat \X Nat) /\ Len(rs) >= 1
      BY <3>1, <2>3, <2>4
    <3>6. Lo(rs[1]) <= min /\ min <= Hi(rs[1])
      BY <3>1, <3>2, <2>10, <2>2, <1>0
    <3>7. k \in DOMAIN ranges
      BY <2>2, <1>1
    <3> QED  BY <3>2, <3>3, <3>4, <3>5, <3>6, <3>7, <1>1 DEF WellPlaced
  <2>11. CASE ~(Lo(kept[1]) <= min)
    <3>1. rs = dummy \o kept
      BY <2>9, <2>11
    <3>2. /\ rs \in Seq(Nat \X Nat) /\ Len(rs) = Len(kept) + 1
          /\ rs[1] = <<min, min>> /\ rs[2] = kept[1]
      BY <3>1, <1>2, <2>3, <2>4
    <3>3. Lo(ranges[k]) > min
      BY <2>11, <2>4, <2>2, <1>0
    <3>4. /\ Hi(rs[1]) = min /\ Lo(rs[1]) = min
          /\ Lo(rs[2]) = Lo(ranges[k]) /\ Len(rs) > 1
      BY <3>2, <1>3, <2>4
    <3>5. ASSUME NEW i \in 1..Len(ranges)
          PROVE  \/ Hi(ranges[i]) <= Hi(rs[1])
                 \/ Len(rs) > 1 /\ Lo(rs[2]) <= Lo(ranges[i])
      <4>1. CASE i < k
        <5>1. Hi(ranges[i]) < min
          BY <4>1, <2>6
        <5> QED  BY SMTT(30), <5>1, <3>4, <1>0
      <4>2. CASE i = k
        BY <4>2, <3>4, <1>0
      <4>3. CASE i > k
        <5>1. Hi(ranges[k]) < Lo(ranges[i]) /\ Lo(ranges[k]) <= Hi(ranges[k])
          BY <4>3, <2>7, <2>2
        <5> QED  BY <5>1, <3>4, <2>2, <1>0
      <4> QED  BY <4>1, <4>2, <4>3, <2>2, <1>1
    <3>6. Lo(rs[1]) <= min /\ min <= Hi(rs[1]) /\ Hi(rs[1]) < Lo(rs[2])
      BY <3>3, <3>4
    <3>7. Len(rs) >= 1
      BY <3>4, <3>2, <2>4
    <3> QED  BY <3>2, <3>5, <3>6, <3>7, <1>1 DEF WellPlaced
  <2> QED  BY <2>10, <2>11
<1> QED  BY <1>4, <1>5

(***************************************************************************)
(* A hole is a job's range and nobody else's: it is not empty, lies in     *)
(* [min, max[, shares no number with a listed range, and every number      *)
(* between min and its start is covered by a listed range.                 *)
(***************************************************************************)
THEOREM HoleIsFree ==
    ASSUME NEW min \in Nat, NEW max \in Nat, NEW len \in Nat \ {0},
           NEW ranges \in Seq(Nat \X Nat), Separated(ranges),
           NEW h, h = FindHole(min, max, len, ranges), h # <<>>
    PROVE  /\ h \in Nat \X Nat /\ Lo(h) < Hi(h)
           /\ min <= Lo(h) /\ (max # 0 => Hi(h) <= max)
           /\ \A i \in DOMAIN ranges :
                 Hi(ranges[i]) <= Lo(h) \/ Hi(h) <= Lo(ranges[i])
           /\ \A p \in min..(Lo(h) - 1) :
                 \E i \in DOMAIN ranges : p \in Points(ranges[i])
<1>0. PICK rs : rs = From(min, ranges)
  OBVIOUS
<1> DEFINE a == Hi(rs[1])
           c == Aligned(a, len)
           b == Truncated(c, max, rs)
<1>1. /\ rs \in Seq(Nat \X Nat) /\ Len(rs) >= 1
      /\ Lo(rs[1]) <= min /\ min <= a
      /\ \A i \in DOMAIN ranges :
            Hi(ranges[i]) <= a \/ (Len(rs) > 1 /\ Lo(rs[2]) <= Lo(ranges[i]))
      /\ rs[1] = <<min, min>> \/ \E i \in DOMAIN ranges : rs[1] = ranges[i]
  <2>1. WellPlaced(min, ranges, rs)
    BY <1>0, FromShape
  <2> QED  BY <2>1 DEF WellPlaced
<1>2. \A i \in 1..Len(ranges) : Lo(ranges[i]) \in Nat /\ Hi(ranges[i]) \in Nat
  BY DEF Lo, Hi
<1>3. DOMAIN ranges = 1..Len(ranges)
  OBVIOUS
<1>4. Hi(rs[1]) \in Nat /\ (Len(rs) > 1 => Lo(rs[2]) \in Nat)
  BY <1>1 DEF Lo, Hi
<1>5. c \in Nat /\ a < c
  BY <1>4, AlignedIsLater
<1>6. h = (IF a < b THEN <<a, b>> ELSE <<>>)
  BY <1>0 DEF FindHole
<1> HIDE DEF c
<1>7. b \in Nat /\ (max # 0 => b <= max) /\ (Len(rs) > 1 => b <= Lo(rs[2]))
  BY <1>4, <1>5 DEF Truncated
<1> HIDE DEF b
<1>8. a < b /\ h = <<a, b>>
  BY <1>6
<1>9. Lo(h) = a /\ Hi(h) = b /\ h \in Nat \X Nat
  BY <1>8, <1>7, <1>4 DEF Lo, Hi
<1>10. \A i \in DOMAIN ranges : Hi(ranges[i]) <= a \/ b <= Lo(ranges[i])
  BY SMTT(30), <1>1, <1>2, <1>3, <1>4, <1>7
<1>11. ASSUME NEW p \in min..(a - 1)
       PROVE  \E i \in DOMAIN ranges : p \in Points(ranges[i])
  <2>1. rs[1] # <<min, min>>
    BY <1>4 DEF Hi
  <2>2. PICK i \in DOMAIN ranges : rs[1] = ranges[i]
    BY <1>1, <2>1
  <2>3. Lo(ranges[i]) <= p /\ p <= Hi(ranges[i]) - 1 /\ p \in Int
    BY <1>1, <1>2, <1>3, <1>4, <2>2
  <2>4. p \in Points(ranges[i])
    BY <2>3, <1>2, <1>3 DEF Points
  <2> QED  BY <2>4
<1> QED  BY <1>1, <1>7, <1>8, <1>9, <1>10, <1>11

(***************************************************************************)
(* find_hole gives up only when there is a max and the listed ranges cover *)
(* everything from min to it.                                              *)
(***************************************************************************)
THEOREM NoHoleIsFull ==
    ASSUME NEW min \in Nat, NEW max \in Nat, NEW len \in Nat \ {0},
           NEW ranges \in Seq(Nat \X Nat), Separated(ranges),
           FindHole(min, max, len, ranges) = <<>>
    PROVE  /\ max # 0
           /\ \A p \in min..(max - 1) :
                 \E i \in DOMAIN ranges : p \in Points(ranges[i])
<1>0. PICK rs : rs = From(min, ranges)
  OBVIOUS
<1> DEFINE a == Hi(rs[1])
           c == Aligned(a, len)
           b == Truncated(c, max, rs)
<1>1. /\ rs \in Seq(Nat \X Nat) /\ Len(rs) >= 1
      /\ Lo(rs[1]) <= min /\ min <= a
      /\ Len(rs) > 1 => a < Lo(rs[2])
      /\ rs[1] = <<min, min>> \/ \E i \in DOMAIN ranges : rs[1] = ranges[i]
  <2>1. WellPlaced(min, ranges, rs)
    BY <1>0, FromShape
  <2> QED  BY <2>1 DEF WellPlaced
<1>2. \A i \in 1..Len(ranges) : Lo(ranges[i]) \in Nat /\ Hi(ranges[i]) \in Nat
  BY DEF Lo, Hi
<1>3. DOMAIN ranges = 1..Len(ranges)
  OBVIOUS
<1>4. Hi(rs[1]) \in Nat /\ (Len(rs) > 1 => Lo(rs[2]) \in Nat)
  BY <1>1 DEF Lo, Hi
<1>5. c \in Nat /\ a < c
  BY <1>4, AlignedIsLater
<1>6. ~(a < b)
  BY <1>0 DEF FindHole
<1> HIDE DEF c
<1>7. max # 0 /\ max <= a
  BY <1>1, <1>4, <1>5, <1>6 DEF Truncated
<1>8. ASSUME NEW p \in min..(max - 1)
      PROVE  \E i \in DOMAIN ranges : p \in Points(ranges[i])
  <2>1. rs[1] # <<min, min>>
    BY <1>4, <1>7 DEF Hi
  <2>2. PICK i \in DOMAIN ranges : rs[1] = ranges[i]
    BY <1>1, <2>1
  <2>5. Lo(ranges[i]) <= min /\ Hi(ranges[i]) = a
    BY <1>1, <2>2
  <2>6. p \in Int /\ min <= p /\ p <= a - 1
    BY <1>4, <1>7
  <2> HIDE DEF a
  <2>3. Lo(ranges[i]) <= p /\ p <= Hi(ranges[i]) - 1 /\ p \in Int
    BY <2>5, <2>6, <1>2, <1>3
  <2>4. p \in Points(ranges[i])
    BY <2>3, <1>2, <1>3 DEF Points
  <2> QED  BY <2>4
<1> QED  BY <1>7, <1>8
(***************************************************************************)
(* The list merge_ranges goes through: every range of the set, in the      *)
(* order of the starts.                                                    *)
(***************************************************************************)
LEMMA SortedLists ==
    ASSUME NEW S \in SUBSET (Nat \X Nat), IsFiniteSet(S)
    PROVE  /\ Cardinality(S) \in Nat
           /\ Sorted(S) \in [1..Cardinality(S) -> S]
           /\ \A r \in S : \E k \in 1..Cardinality(S) : Sorted(S)[k] = r
           /\ \A i, j \in 1..Cardinality(S) :
                 i < j => Lo(Sorted(S)[i]) <= Lo(Sorted(S)[j])
<1> DEFINE n == Cardinality(S)
           below(r) == {s \in S : StartsBefore(s, r)}
           rank == [r \in S |-> Cardinality(below(r))]
<1>1. n \in Nat
  BY FS_CardinalityType
<1>2. \A r \in S : Lo(r) \in Nat /\ Hi(r) \in Nat /\ r = <<Lo(r), Hi(r)>>
  BY DEF Lo, Hi
<1>3. /\ \A r, s \in S : StartsBefore(r, s) \/ StartsBefore(s, r)
      /\ \A r, s \in S : StartsBefore(r, s) /\ StartsBefore(s, r) => r = s
      /\ \A r, s, t \in S : StartsBefore(r, s) /\ StartsBefore(s, t) => StartsBefore(r, t)
  <2>1. \A r, s \in S : StartsBefore(r, s) \/ StartsBefore(s, r)
    BY <1>2 DEF StartsBefore
  <2>2. ASSUME NEW r \in S, NEW s \in S, StartsBefore(r, s), StartsBefore(s, r)
        PROVE  r = s
    <3>1. Lo(r) = Lo(s) /\ Hi(r) = Hi(s)
      BY <1>2, <2>2 DEF StartsBefore
    <3> QED  BY <3>1, <1>2
  <2>3. \A r, s, t \in S : StartsBefore(r, s) /\ StartsBefore(s, t) => StartsBefore(r, t)
    BY <1>2 DEF StartsBefore
  <2> QED  BY <2>1, <2>2, <2>3
<1>4. \A r \in S : /\ below(r) \in SUBSET S /\ IsFiniteSet(below(r))
                   /\ Cardinality(below(r)) \in 1..n
  <2> TAKE r \in S
  <2>1. below(r) \in SUBSET S
    OBVIOUS
  <2>2. IsFiniteSet(below(r)) /\ Cardinality(below(r)) <= n
    BY <2>1, FS_Subset
  <2>3. r \in below(r)
    BY <1>3
  <2>4. Cardinality(below(r)) # 0
    BY <2>2, <2>3, FS_EmptySet
  <2>5. Cardinality(below(r)) \in Nat
    BY <2>2, FS_CardinalityType
  <2> QED  BY <2>1, <2>2, <2>4, <2>5, <1>1
<1>5. \A r, s \in S : StartsBefore(r, s) /\ r # s => rank[r] < rank[s]
  <2> SUFFICES ASSUME NEW r \in S, NEW s \in S, StartsBefore(r, s), r # s
               PROVE  Cardinality(below(r)) < Cardinality(below(s))
    OBVIOUS
  <2>1. below(r) \in SUBSET below(s)
    BY <1>3
  <2>2. s \in below(s) /\ s \notin below(r)
    BY <1>3
  <2>3. Cardinality(below(r)) <= Cardinality(below(s))
        /\ (Cardinality(below(s)) = Cardinality(below(r)) => below(s) = below(r))
    BY <2>1, <1>4, FS_Subset
  <2>4. Cardinality(below(r)) \in Int /\ Cardinality(below(s)) \in Int
    BY <1>4
  <2> QED  BY <2>2, <2>3, <2>4
<1>6. rank \in Injection(S, 1..n)
  <2>1. rank \in [S -> 1..n]
    BY <1>4
  <2>2. \A r, s \in S : rank[r] = rank[s] => r = s
    <3> TAKE r, s \in S
    <3> HAVE rank[r] = rank[s]
    <3>1. rank[r] \in Int /\ rank[s] \in Int
      BY <1>4
    <3>2. ~(rank[r] < rank[s]) /\ ~(rank[s] < rank[r])
      BY <3>1
    <3> QED  BY <3>2, <1>3, <1>5
  <2> QED  BY <2>1, <2>2 DEF Injection, IsInjective
<1>7. rank \in Surjection(S, 1..n)
  <2>1. IsFiniteSet(1..n) /\ Cardinality(1..n) = n
    BY <1>1, FS_Interval
  <2> QED  BY <2>1, <1>6, FS_Injection
<1>8. \A k \in 1..n : \E r \in S : rank[r] = k
  BY <1>7 DEF Surjection
<1>9. \A k \in 1..n : Sorted(S)[k] \in S /\ rank[Sorted(S)[k]] = k
  <2> TAKE k \in 1..n
  <2>1. Sorted(S)[k] = CHOOSE r \in S : Cardinality(below(r)) = k
    BY DEF Sorted
  <2>2. \E r \in S : Cardinality(below(r)) = k
    BY <1>8
  <2> QED  BY <2>1, <2>2
<1>10. \A r \in S : Sorted(S)[rank[r]] = r
  <2> TAKE r \in S
  <2>1. rank[r] \in 1..n
    BY <1>4
  <2>2. rank[Sorted(S)[rank[r]]] = rank[r] /\ Sorted(S)[rank[r]] \in S
    BY <2>1, <1>9
  <2> QED  BY <2>2, <1>6 DEF Injection, IsInjective
<1> HIDE DEF rank, below, n
<1>11. ASSUME NEW i \in 1..n, NEW j \in 1..n, i < j
       PROVE  Lo(Sorted(S)[i]) <= Lo(Sorted(S)[j])
  <2>1. Sorted(S)[i] \in S /\ Sorted(S)[j] \in S
    BY <1>9
  <2>2. rank[Sorted(S)[i]] < rank[Sorted(S)[j]]
    BY <1>9, <1>11
  <2>3. ~StartsBefore(Sorted(S)[j], Sorted(S)[i])
    <3>1. rank[Sorted(S)[j]] = j /\ rank[Sorted(S)[i]] = i
      BY <1>9
    <3>2. ~(rank[Sorted(S)[j]] < rank[Sorted(S)[i]]) /\ Sorted(S)[i] # Sorted(S)[j]
      BY <3>1, <1>1, <1>11
    <3> QED  BY <2>1, <3>2, <1>5
  <2> QED  BY <2>1, <2>3, <1>2 DEF StartsBefore
<1>12. Sorted(S) \in [1..n -> S]
  BY <1>9 DEF Sorted, n
<1>13. \A r \in S : \E k \in 1..n : Sorted(S)[k] = r
  BY <1>10, <1>4 DEF rank
<1> QED  BY <1>1, <1>11, <1>12, <1>13 DEF n

(***************************************************************************)
(* What one turn of the loop of merge_ranges keeps, and adds.              *)
(***************************************************************************)
Within(r, s) == \E i \in DOMAIN s : Lo(s[i]) <= Lo(r) /\ Hi(r) <= Hi(s[i])

LEMMA MergeStepKeeps ==
    ASSUME NEW m \in Seq(Nat \X Nat), Separated(m),
           NEW r \in Nat \X Nat, Lo(r) <= Hi(r),
           m # <<>> => Lo(Last(m)) <= Lo(r),
           NEW m1, m1 = MergeStep(m, r)
    PROVE  /\ m1 \in Seq(Nat \X Nat) /\ m1 # <<>> /\ Separated(m1)
           /\ Lo(Last(m1)) <= Lo(r)
           /\ Within(r, m1) /\ \A i \in DOMAIN m : Within(m[i], m1)
           /\ \A j \in DOMAIN m1 : \A p \in Points(m1[j]) :
                 p \in Points(r) \/ \E i \in DOMAIN m : p \in Points(m[i])
<1>0. PICK n : n = Len(m)
  OBVIOUS
<1>1. /\ n \in Nat /\ DOMAIN m = 1..n
      /\ m = <<>> <=> n = 0
  BY <1>0
<1>a. \A i \in 1..n : Lo(m[i]) \in Nat /\ Hi(m[i]) \in Nat
  BY <1>0 DEF Lo, Hi
<1>b. Lo(r) \in Nat /\ Hi(r) \in Nat
  BY DEF Lo, Hi
<1>2. /\ \A i \in 1..n : Lo(m[i]) <= Hi(m[i])
      /\ \A i, j \in 1..n : i < j => Hi(m[i]) < Lo(m[j])
  BY <1>1, <1>a DEF Separated
<1>4. Last(m) = m[n]
  BY <1>0 DEF Last
<1>5. CASE m = <<>> \/ Lo(r) > Hi(Last(m))
  <2>1. m1 = Append(m, r)
    BY <1>5 DEF MergeStep
  <2>2. /\ m1 \in Seq(Nat \X Nat) /\ Len(m1) = n + 1 /\ DOMAIN m1 = 1..(n + 1)
        /\ m1[n + 1] = r
    BY <2>1, <1>0
  <2>a. \A i \in 1..n : m1[i] = m[i]
    BY <2>1, <1>0
  <2>3. m1 # <<>> /\ Last(m1) = r
    BY <2>2, <1>1 DEF Last
  <2>4. \A i \in 1..n : Hi(m[i]) < Lo(r)
    <3> TAKE i \in 1..n
    <3>1. n \in 1..n
      BY <1>1
    <3>2. Hi(m[n]) < Lo(r) /\ Hi(m[n]) \in Nat /\ Hi(m[i]) \in Nat
      BY <3>1, <1>1, <1>4, <1>5, <1>a, <1>b
    <3>3. i = n \/ Hi(m[i]) < Lo(m[n])
      BY <1>2, <3>1, <1>1
    <3>4. Lo(m[n]) <= Hi(m[n]) /\ Lo(m[n]) \in Nat
      BY <1>2, <3>1, <1>a
    <3> QED  BY <3>2, <3>3, <3>4, <1>b
  <2>5. Separated(m1)
    <3> SUFFICES ASSUME NEW i \in 1..(n + 1), NEW j \in 1..(n + 1)
                 PROVE  Lo(m1[i]) <= Hi(m1[i]) /\ (i < j => Hi(m1[i]) < Lo(m1[j]))
      BY <2>2 DEF Separated
    <3>1. CASE i = n + 1
      BY <3>1, <2>2, <1>1
    <3>2. CASE i \in 1..n /\ j = n + 1
      BY <3>2, <2>2, <2>a, <2>4, <1>2
    <3>3. CASE i \in 1..n /\ j \in 1..n
      BY <3>3, <2>a, <1>2
    <3>4. /\ i = n + 1 \/ i \in 1..n
          /\ j = n + 1 \/ j \in 1..n
      BY <1>1
    <3> QED  BY <3>1, <3>2, <3>3, <3>4
  <2>6. Within(r, m1)
    <3>1. n + 1 \in DOMAIN m1 /\ Lo(m1[n + 1]) <= Lo(r) /\ Hi(r) <= Hi(m1[n + 1])
      BY SMTT(30), <2>2, <1>1, <1>b
    <3> QED  BY <3>1 DEF Within
  <2>7. \A i \in 1..n : Within(m[i], m1)
    <3> TAKE i \in 1..n
    <3>1. i \in DOMAIN m1 /\ m1[i] = m[i]
      BY <2>2, <2>a, <1>1
    <3>2. Lo(m[i]) <= Lo(m[i]) /\ Hi(m[i]) <= Hi(m[i])
      BY <1>a
    <3> QED  BY <3>1, <3>2 DEF Within
  <2>8. \A j \in 1..(n + 1) : m1[j] = r \/ \E i \in 1..n : m1[j] = m[i]
    <3> TAKE j \in 1..(n + 1)
    <3>1. j = n + 1 \/ j \in 1..n
      BY <1>1
    <3> QED  BY <3>1, <2>2, <2>a
  <2>9. Lo(Last(m1)) <= Lo(r)
    BY <2>3, <1>b
  <2>10. \A j \in DOMAIN m1 : \A p \in Points(m1[j]) :
            p \in Points(r) \/ \E i \in DOMAIN m : p \in Points(m[i])
    BY <2>8, <2>2, <1>1
  <2>11. \A i \in DOMAIN m : Within(m[i], m1)
    BY <2>7, <1>1
  <2> QED  BY <2>2, <2>3, <2>5, <2>6, <2>9, <2>10, <2>11
<1>6. CASE ~(m = <<>> \/ Lo(r) > Hi(Last(m)))
  <2>1. n \in 1..n /\ n - 1 \in Nat
    BY <1>6, <1>1
  <2>a. /\ Lo(r) <= Hi(m[n]) /\ Lo(m[n]) <= Lo(r)
        /\ Lo(m[n]) \in Nat /\ Hi(m[n]) \in Nat
    BY SMTT(30), <2>1, <1>6, <1>4, <1>a, <1>b
  <2>2. CASE Hi(r) > Hi(Last(m))
    <3> DEFINE u == <<Lo(m[n]), Hi(r)>>
    <3>1. m1 = Append(Front(m), u)
      BY <1>6, <2>2, <1>4 DEF MergeStep
    <3>2. PICK t : t = Front(m)
      OBVIOUS
    <3>3. t \in Seq(Nat \X Nat) /\ Len(t) = n - 1 /\ \A i \in 1..(n - 1) : t[i] = m[i]
      <4>1. t = SubSeq(m, 1, n - 1)
        BY <3>2, <1>0 DEF Front
      <4>2. 1 \in Int /\ n - 1 \in 0..Len(m)
        BY <1>0, <1>1, <2>1
      <4>3. \A i \in 1..(n - 1) : m[i] \in Nat \X Nat
        BY <1>0, <1>1
      <4> QED  BY <4>1, <4>2, <4>3, <2>1
    <3>4. u \in Nat \X Nat /\ Lo(u) = Lo(m[n]) /\ Hi(u) = Hi(r)
      BY <1>b, <2>a DEF Lo, Hi
    <3> HIDE DEF u
    <3>5. m1 = Append(t, u)
      BY <3>1, <3>2
    <3>6. m1 \in Seq(Nat \X Nat) /\ Len(m1) = n /\ m1[n] = u
      BY <3>5, <3>3, <3>4, <2>1
    <3>7. DOMAIN m1 = 1..n
      BY <3>6
    <3>8. \A i \in 1..(n - 1) : m1[i] = m[i]
      BY <3>5, <3>3, <2>1
    <3>9. m1 # <<>> /\ Last(m1) = u
      BY <3>6, <2>1 DEF Last
    <3>10. \A i \in 1..n : i = n \/ i \in 1..(n - 1)
      BY <1>1
    <3>11. /\ \A i \in 1..n : Lo(m1[i]) = Lo(m[i])
           /\ \A i \in 1..(n - 1) : Hi(m1[i]) = Hi(m[i])
           /\ Hi(m1[n]) = Hi(r)
      BY <3>4, <3>6, <3>8, <3>10
    <3>12. Hi(m[n]) < Hi(r)
      BY <2>2, <1>4, <1>b, <2>a
    <3>13. \A i \in 1..n : Hi(m[i]) <= Hi(m1[i])
      <4> TAKE i \in 1..n
      <4>1. i = n \/ Hi(m1[i]) = Hi(m[i])
        BY <3>10, <3>11
      <4>2. Hi(m[n]) <= Hi(m1[n])
        BY <3>11, <3>12, <2>a, <1>b
      <4>3. Hi(m[i]) <= Hi(m[i])
        BY <1>a
      <4> QED  BY <4>1, <4>2, <4>3
    <3>14. Separated(m1)
      <4> SUFFICES ASSUME NEW i \in 1..n, NEW j \in 1..n
                   PROVE  Lo(m1[i]) <= Hi(m1[i]) /\ (i < j => Hi(m1[i]) < Lo(m1[j]))
        BY <3>7 DEF Separated
      <4>1. CASE i \in 1..(n - 1)
        <5>1. Hi(m1[i]) = Hi(m[i]) /\ Lo(m1[i]) = Lo(m[i]) /\ Lo(m1[j]) = Lo(m[j])
          BY <4>1, <3>11
        <5> QED  BY <5>1, <1>2
      <4>2. CASE i = n
        <5>1. Hi(m1[i]) = Hi(r) /\ Lo(m1[i]) = Lo(m[n])
          BY <4>2, <3>11
        <5>2. Lo(m[n]) <= Hi(r)
          BY <3>12, <2>a, <1>b
        <5>3. ~(i < j)
          BY <4>2, <1>1
        <5> QED  BY <5>1, <5>2, <5>3
      <4> QED  BY <4>1, <4>2, <3>10
    <3>15. Within(r, m1)
      <4>1. n \in DOMAIN m1 /\ Lo(m1[n]) <= Lo(r) /\ Hi(r) <= Hi(m1[n])
        BY <3>7, <3>11, <2>1, <2>a, <1>b
      <4> QED  BY <4>1 DEF Within
    <3>16. \A i \in DOMAIN m : Within(m[i], m1)
      <4> SUFFICES ASSUME NEW i \in 1..n PROVE Within(m[i], m1)
        BY <1>1
      <4>1. i \in DOMAIN m1 /\ Lo(m1[i]) <= Lo(m[i])
        BY <3>7, <3>11, <1>a
      <4> QED  BY <4>1, <3>13 DEF Within
    <3>17. ASSUME NEW j \in 1..n, NEW p \in Points(m1[j])
           PROVE  p \in Points(r) \/ \E i \in 1..n : p \in Points(m[i])
      <4>1. CASE j \in 1..(n - 1)
        <5>1. p \in Points(m[j])
          BY <4>1, <3>8
        <5> QED  BY <5>1
      <4>2. CASE j = n
        <5>1. p \in Int /\ Lo(m[n]) <= p /\ p <= Hi(r) - 1
          BY <4>2, <3>11, <1>b, <2>1, <2>a DEF Points
        <5>2. p \in Points(m[n]) \/ p \in Points(r)
          BY <5>1, <2>a, <1>b DEF Points
        <5> QED  BY <5>2, <2>1
      <4> QED  BY <4>1, <4>2, <3>10
    <3>18. Lo(Last(m1)) <= Lo(r)
      BY <3>9, <3>4, <2>a
    <3> QED  BY <3>6, <3>7, <3>9, <3>14, <3>15, <3>16, <3>17, <3>18, <1>1
  <2>3. CASE ~(Hi(r) > Hi(Last(m)))
    <3>1. m1 = m
      BY <1>6, <2>3 DEF MergeStep
    <3>2. Within(r, m)
      <4>1. n \in DOMAIN m /\ Lo(m[n]) <= Lo(r) /\ Hi(r) <= Hi(m[n])
        BY <2>1, <2>3, <2>a, <1>1, <1>4, <1>b
      <4> QED  BY <4>1 DEF Within
    <3>3. \A i \in DOMAIN m : Within(m[i], m)
      <4> SUFFICES ASSUME NEW i \in 1..n PROVE Within(m[i], m)
        BY <1>1
      <4>1. Lo(m[i]) <= Lo(m[i]) /\ Hi(m[i]) <= Hi(m[i])
        BY <1>a
      <4> QED  BY <4>1, <1>1 DEF Within
    <3> QED  BY <3>1, <3>2, <3>3, <1>6
  <2> QED  BY <2>2, <2>3
<1> QED  BY <1>5, <1>6

(***************************************************************************)
(* The loop of merge_ranges on a list in the order of the starts.          *)
(***************************************************************************)
Turns(s, n, f) ==
    f = [k \in 0..n |-> IF k = 0 THEN <<>> ELSE MergeStep(f[k - 1], s[k])]

LEMMA TurnsExist ==
    ASSUME NEW s, NEW n \in Nat
    PROVE  \E f : Turns(s, n, f)
<1> DEFINE T == {m \in Nat : ~ \E f : Turns(s, m, f)}
<1>1. SUFFICES ASSUME T # {} PROVE FALSE
  OBVIOUS
<1>2. PICK m \in T : \A j \in T : m <= j
  BY <1>1, LeastExists
<1>3. m # 0
  <2>1. Turns(s, 0, [k \in 0..0 |-> <<>>])
    BY DEF Turns
  <2> QED  BY <2>1
<1>4. m \in Nat /\ m - 1 \in Nat /\ m - 1 \notin T
  BY <1>2, <1>3
<1>5. PICK f : Turns(s, m - 1, f)
  BY <1>4
<1> DEFINE g == [k \in 0..m |-> IF k = m THEN MergeStep(f[m - 1], s[m]) ELSE f[k]]
<1>6. \A k \in 0..m : g[k] = IF k = 0 THEN <<>> ELSE MergeStep(g[k - 1], s[k])
  <2> TAKE k \in 0..m
  <2>1. \A i \in 0..(m - 1) : f[i] = IF i = 0 THEN <<>> ELSE MergeStep(f[i - 1], s[i])
    BY <1>5, <1>4 DEF Turns
  <2>2. CASE k = m
    <3>1. g[m - 1] = f[m - 1] /\ g[m] = MergeStep(f[m - 1], s[m])
      BY <1>4
    <3> QED  BY <2>2, <3>1, <1>3
  <2>3. CASE k # m
    <3>1. k \in 0..(m - 1)
      BY <2>3, <1>4
    <3>2. g[k] = f[k] /\ (k # 0 => g[k - 1] = f[k - 1])
      BY <3>1, <1>4
    <3> HIDE DEF g
    <3> QED  BY <3>1, <3>2, <2>1
  <2> QED  BY <2>2, <2>3
<1>7. Turns(s, m, g)
  <2>1. g = [k \in 0..m |-> g[k]]
    OBVIOUS
  <2> HIDE DEF g
  <2> QED  BY <2>1, <1>6 DEF Turns
<1> QED  BY <1>7, <1>2

(***************************************************************************)
(* merge_ranges: a sorted list of ranges with a gap between any two, which *)
(* covers exactly the numbers of the set; no range of the set is cut.      *)
(***************************************************************************)
THEOREM MergeRangesRight ==
    ASSUME NEW S \in SUBSET (Nat \X Nat), IsFiniteSet(S),
           \A r \in S : Lo(r) <= Hi(r),
           NEW m, m = MergeRanges(S)
    PROVE  /\ m \in Seq(Nat \X Nat) /\ Separated(m)
           /\ \A r \in S : Within(r, m)
           /\ Covered(ToSet(m)) = Covered(S)
<1> DEFINE s == Sorted(S)
           n == Cardinality(S)
<1>1. /\ n \in Nat /\ s \in [1..n -> S] /\ \A r \in S : \E k \in 1..n : s[k] = r
      /\ \A i, j \in 1..n : i < j => Lo(s[i]) <= Lo(s[j])
  BY SortedLists
<1> HIDE DEF s, n
<1>2. Len(s) = n
  <2>1. s \in Seq(S)
    BY <1>1
  <2> QED  BY <1>1, <2>1
<1>3. PICK f : Turns(s, n, f) /\ m = f[n]
  <2> DEFINE F == CHOOSE f : Turns(s, n, f)
  <2>1. \E f : Turns(s, n, f)
    BY <1>1, TurnsExist
  <2>2. Turns(s, n, F)
    BY <2>1
  <2>3. m = F[n]
    BY <1>2 DEF MergeRanges, Turns, s
  <2> QED  BY <2>2, <2>3
<1>4. /\ f[0] = <<>>
      /\ \A k \in 1..n : f[k] = MergeStep(f[k - 1], s[k])
  BY <1>3, <1>1 DEF Turns
<1> DEFINE Good(k) ==
      /\ f[k] \in Seq(Nat \X Nat) /\ Separated(f[k])
      /\ k > 0 => f[k] # <<>> /\ Lo(Last(f[k])) <= Lo(s[k])
      /\ \A i \in 1..k : Within(s[i], f[k])
      /\ \A j \in DOMAIN f[k] : \A p \in Points(f[k][j]) :
            \E i \in 1..k : p \in Points(s[i])
<1>5. Good(0)
  BY <1>4 DEF Separated
<1>6. ASSUME NEW k \in 1..n, Good(k - 1)
      PROVE  Good(k)
  <2>1. s[k] \in Nat \X Nat /\ Lo(s[k]) <= Hi(s[k]) /\ Lo(s[k]) \in Nat
    BY <1>1 DEF Lo
  <2>2. f[k - 1] # <<>> => Lo(Last(f[k - 1])) <= Lo(s[k])
    <3> HAVE f[k - 1] # <<>>
    <3>1. k - 1 > 0
      BY <1>4, <1>1
    <3>2. Lo(Last(f[k - 1])) <= Lo(s[k - 1]) /\ Lo(s[k - 1]) <= Lo(s[k])
      BY <3>1, <1>6, <1>1
    <3>3. k - 1 \in 1..n /\ Lo(s[k - 1]) \in Nat
      BY <3>1, <1>1 DEF Lo
    <3>4. Lo(Last(f[k - 1])) \in Nat
      <4>1. f[k - 1] \in Seq(Nat \X Nat) /\ f[k - 1] # <<>>
        BY <1>6, <3>1
      <4>2. Len(f[k - 1]) \in 1..Len(f[k - 1])
        BY <4>1
      <4>3. Last(f[k - 1]) \in Nat \X Nat
        BY <4>1, <4>2 DEF Last
      <4> QED  BY <4>3 DEF Lo
    <3> QED  BY <3>2, <3>3, <3>4, <2>1
  <2>3. /\ f[k] \in Seq(Nat \X Nat) /\ f[k] # <<>> /\ Separated(f[k])
        /\ Lo(Last(f[k])) <= Lo(s[k])
        /\ Within(s[k], f[k]) /\ \A i \in DOMAIN f[k - 1] : Within(f[k - 1][i], f[k])
        /\ \A j \in DOMAIN f[k] : \A p \in Points(f[k][j]) :
              p \in Points(s[k]) \/ \E i \in DOMAIN f[k - 1] : p \in Points(f[k - 1][i])
    <3>1. f[k] = MergeStep(f[k - 1], s[k])
      BY <1>4
    <3> QED  BY <3>1, <1>6, <2>1, <2>2, MergeStepKeeps
  <2>4. \A i \in 1..k : Within(s[i], f[k])
    <3> TAKE i \in 1..k
    <3>1. CASE i = k
      BY <3>1, <2>3
    <3>2. CASE i # k
      <4>1. i \in 1..(k - 1) /\ i \in 1..n
        BY <3>2, <1>1
      <4>2. Within(s[i], f[k - 1])
        BY <4>1, <1>6
      <4>3. PICK j \in DOMAIN f[k - 1] :
               Lo(f[k - 1][j]) <= Lo(s[i]) /\ Hi(s[i]) <= Hi(f[k - 1][j])
        BY <4>2 DEF Within
      <4>4. PICK l \in DOMAIN f[k] :
               Lo(f[k][l]) <= Lo(f[k - 1][j]) /\ Hi(f[k - 1][j]) <= Hi(f[k][l])
        BY <2>3 DEF Within
      <4>5. s[i] \in Nat \X Nat
        BY <4>1, <1>1
      <4>6. f[k - 1][j] \in Nat \X Nat
        BY <1>6
      <4>7. f[k][l] \in Nat \X Nat
        BY <2>3
      <4>8. Lo(f[k][l]) <= Lo(s[i]) /\ Hi(s[i]) <= Hi(f[k][l])
        BY <4>3, <4>4, <4>5, <4>6, <4>7 DEF Lo, Hi
      <4> QED  BY <4>8 DEF Within
    <3> QED  BY <3>1, <3>2
  <2>5. ASSUME NEW j \in DOMAIN f[k], NEW p \in Points(f[k][j])
        PROVE  \E i \in 1..k : p \in Points(s[i])
    <3>1. CASE p \in Points(s[k])
      BY <3>1, <1>1
    <3>2. CASE \E i \in DOMAIN f[k - 1] : p \in Points(f[k - 1][i])
      <4>1. PICK i \in 1..(k - 1) : p \in Points(s[i])
        BY <3>2, <1>6
      <4>2. i \in 1..k
        BY <4>1
      <4> QED  BY <4>1, <4>2
    <3> QED  BY <3>1, <3>2, <2>3
  <2> QED  BY <2>3, <2>4, <2>5
<1> DEFINE T == {k \in 0..n : ~Good(k)}
<1>7. T = {}
  <2> SUFFICES ASSUME T # {} PROVE FALSE
    OBVIOUS
  <2>1. T \in SUBSET Nat
    BY <1>1
  <2>2. PICK k \in T : \A j \in T : k <= j
    BY <2>1, LeastExists
  <2>3. k \in 0..n /\ k # 0 /\ ~Good(k)
    BY <2>2, <1>5
  <2> HIDE DEF Good
  <2>4. k \in 1..n /\ k - 1 \in 0..n /\ ~(k - 1 \in T)
    BY <2>2, <2>3, <1>1
  <2>5. Good(k - 1)
    BY <2>4
  <2> QED  BY <2>3, <2>4, <2>5, <1>6
<1>8. Good(n)
  <2> HIDE DEF Good
  <2>1. n \in 0..n
    BY <1>1
  <2>2. n \notin T
    BY <1>7
  <2> QED  BY <2>1, <2>2
<1>9. m \in Seq(Nat \X Nat) /\ Separated(m) /\ \A i \in 1..n : Within(s[i], m)
  BY <1>8, <1>3
<1>10. \A r \in S : Within(r, m)
  BY <1>9, <1>1
<1>11. ToSet(m) = {m[j] : j \in DOMAIN m}
  BY DEF ToSet
<1>12. ASSUME NEW p \in Covered(ToSet(m))
       PROVE  p \in Covered(S)
  <2>1. PICK j \in DOMAIN m : p \in Points(m[j])
    BY <1>11 DEF Covered
  <2>2. PICK i \in 1..n : p \in Points(s[i])
    BY <1>8, <1>3, <2>1
  <2>3. s[i] \in S
    BY <1>1
  <2> QED  BY <2>2, <2>3 DEF Covered
<1>13. ASSUME NEW p \in Covered(S)
       PROVE  p \in Covered(ToSet(m))
  <2>1. PICK r \in S : p \in Points(r)
    BY DEF Covered
  <2>2. PICK j \in DOMAIN m : Lo(m[j]) <= Lo(r) /\ Hi(r) <= Hi(m[j])
    BY <1>10 DEF Within
  <2>3. m[j] \in Nat \X Nat
    BY <1>9
  <2>4. p \in Points(m[j])
    BY <2>1, <2>2, <2>3 DEF Points, Lo, Hi
  <2> QED  BY <2>4, <1>11 DEF Covered
<1> QED  BY <1>9, <1>10, <1>12, <1>13

LEMMA Prepended ==
    ASSUME NEW S, NEW x \in S, NEW s \in Seq(S), NEW t, t = <<x>> \o s
    PROVE  /\ t \in Seq(S) /\ Len(t) = Len(s) + 1 /\ t[1] = x
           /\ \A i \in 1..Len(s) : t[i + 1] = s[i]
<1>1. <<x>> \in Seq(S) /\ Len(<<x>>) = 1 /\ <<x>>[1] = x /\ Len(s) \in Nat
  OBVIOUS
<1>2. t \in Seq(S) /\ Len(t) = Len(s) + 1
  BY <1>1
<1>3. t[1] = x
  BY <1>1
<1>4. ASSUME NEW i \in 1..Len(s)
      PROVE  t[i + 1] = s[i]
  BY <1>1
<1> QED  BY <1>2, <1>3, <1>4

(***************************************************************************)
(* The list find_hole leaves to its caller, min put in, keeps every range  *)
(* that does not end before min; so does the list with the hole merged in. *)
(***************************************************************************)
LEMMA FromKeeps ==
    ASSUME NEW min \in Nat, NEW ranges \in Seq(Nat \X Nat), Separated(ranges),
           NEW rs, rs = From(min, ranges)
    PROVE  /\ rs \in Seq(Nat \X Nat) /\ Separated(rs)
           /\ \A r \in Nat \X Nat : Within(r, ranges) => Hi(r) < min \/ Within(r, rs)
<1>0. PICK n : n = Len(ranges)
  OBVIOUS
<1>1. n \in Nat /\ DOMAIN ranges = 1..n
  BY <1>0
<1>2. \A i \in 1..n : ranges[i] \in Nat \X Nat /\ Lo(ranges[i]) \in Nat /\ Hi(ranges[i]) \in Nat
  BY <1>0 DEF Lo, Hi
<1>3. /\ \A i, j \in 1..n : i < j => Hi(ranges[i]) < Lo(ranges[j])
      /\ \A i \in 1..n : Lo(ranges[i]) <= Hi(ranges[i])
  BY <1>1, <1>2 DEF Separated
<1> DEFINE near == Near(min, ranges)
           dummy == <<<<min, min>>>>
<1>4. /\ near \in SUBSET Nat /\ near \subseteq 1..n
      /\ \A i \in 1..n : Hi(ranges[i]) < min \/ i \in near
      /\ \A i \in near : Hi(ranges[i]) >= min
  BY <1>1, <1>2 DEF Near
<1>5. /\ dummy \in Seq(Nat \X Nat) /\ Len(dummy) = 1 /\ dummy[1] = <<min, min>>
      /\ Lo(<<min, min>>) = min /\ Hi(<<min, min>>) = min
  BY DEF Lo, Hi
<1>6. PICK kept : kept = Kept(min, ranges)
  OBVIOUS
<1>7. rs = IF kept # <<>> /\ Lo(kept[1]) <= min THEN kept ELSE dummy \o kept
  BY <1>6 DEF From
<1> HIDE DEF near, dummy
<1>8. PICK d \in Nat :
        /\ kept \in Seq(Nat \X Nat) /\ d <= n /\ Len(kept) = n - d
        /\ \A i \in 1..(n - d) : i + d \in 1..n /\ kept[i] = ranges[i + d]
        /\ \A i \in 1..d : Hi(ranges[i]) < min
  <2>1. CASE near = {}
    <3>1. kept = <<>>
      BY <1>6, <2>1 DEF Kept, near
    <3>2. \A i \in 1..n : Hi(ranges[i]) < min
      BY <1>4, <2>1
    <3>3. Len(kept) = n - n /\ kept \in Seq(Nat \X Nat) /\ n <= n
      BY <3>1, <1>1
    <3>4. \A i \in 1..(n - n) : FALSE
      BY <1>1
    <3> QED  BY <3>2, <3>3, <3>4, <1>1
  <2>2. CASE near # {}
    <3> DEFINE k == FirstNear(min, ranges)
    <3>1. k \in near /\ \A j \in near : k <= j
      <4>1. \E i \in near : \A j \in near : i <= j
        BY <1>4, <2>2, LeastExists
      <4> QED  BY <4>1 DEF FirstNear, near
    <3>2. kept = SubSeq(ranges, k, n)
      BY <1>0, <1>6, <2>2 DEF Kept, near
    <3> HIDE DEF k
    <3>3. k \in 1..n
      BY <3>1, <1>4
    <3>4. PICK c : c = k - 1
      OBVIOUS
    <3>5. c \in Nat /\ c <= n /\ k = c + 1 /\ n - k + 1 = n - c
      BY <3>3, <3>4, <1>1
    <3>6. kept \in Seq(Nat \X Nat) /\ Len(kept) = n - c
      <4>1. \A i \in k..n : ranges[i] \in Nat \X Nat
        BY <1>2, <3>3
      <4>2. kept \in Seq(Nat \X Nat) /\ Len(kept) = n - k + 1
        BY <3>2, <3>3, <4>1, <1>0, <1>1
      <4> QED  BY <4>2, <3>5
    <3>7. ASSUME NEW i \in 1..(n - c)
          PROVE  i + c \in 1..n /\ kept[i] = ranges[i + c]
      <4>1. i \in 1..(n - k + 1)
        BY <3>5
      <4>2. kept[i] = ranges[k + i - 1]
        BY <4>1, <3>2, <3>3, <1>0, <1>1
      <4>3. k + i - 1 = i + c /\ i + c \in 1..n
        BY <3>5, <1>1
      <4> QED  BY <4>2, <4>3
    <3>8. \A i \in 1..c : Hi(ranges[i]) < min
      <4> TAKE i \in 1..c
      <4>1. i \in 1..n /\ ~(k <= i)
        BY <3>5, <1>1
      <4>2. i \notin near
        BY <3>1, <4>1
      <4> QED  BY <4>1, <4>2, <1>4
    <3> QED  BY <3>5, <3>6, <3>7, <3>8
  <2> QED  BY <2>1, <2>2
<1>9. PICK e : e = n - d
  OBVIOUS
<1>10. /\ e \in Nat /\ Len(kept) = e /\ DOMAIN kept = 1..e
       /\ \A i \in 1..e : i + d \in 1..n /\ kept[i] = ranges[i + d]
  BY <1>1, <1>8, <1>9
<1>11. /\ \A i \in 1..e : Lo(kept[i]) \in Nat /\ Hi(kept[i]) \in Nat /\ Lo(kept[i]) <= Hi(kept[i])
       /\ \A i, j \in 1..e : i < j => Hi(kept[i]) < Lo(kept[j])
  <2>1. \A i \in 1..e : Lo(kept[i]) \in Nat /\ Hi(kept[i]) \in Nat /\ Lo(kept[i]) <= Hi(kept[i])
    BY <1>2, <1>3, <1>10
  <2>2. ASSUME NEW i \in 1..e, NEW j \in 1..e, i < j
        PROVE  Hi(kept[i]) < Lo(kept[j])
    <3>1. i + d \in 1..n /\ j + d \in 1..n
      BY <1>10
    <3>2. i + d < j + d
      BY <2>2, <1>10
    <3> QED  BY <3>1, <3>2, <1>3, <1>10
  <2> QED  BY <2>1, <2>2
<1>12. ASSUME NEW r \in Nat \X Nat, Within(r, ranges), ~(Hi(r) < min)
       PROVE  \E i \in 1..e : Lo(kept[i]) <= Lo(r) /\ Hi(r) <= Hi(kept[i])
  <2>1. PICK i \in 1..n : Lo(ranges[i]) <= Lo(r) /\ Hi(r) <= Hi(ranges[i])
    BY <1>12, <1>1 DEF Within
  <2>2. Hi(r) \in Nat /\ Hi(ranges[i]) \in Nat
    BY <1>2 DEF Hi
  <2>3. i \notin 1..d
    BY <2>1, <2>2, <1>8, <1>12
  <2>4. i - d \in 1..e /\ (i - d) + d = i
    BY <2>3, <1>8, <1>9, <1>1
  <2>5. kept[i - d] = ranges[i]
    BY <2>4, <1>10
  <2> QED  BY <2>1, <2>4, <2>5
<1>13. CASE kept # <<>> /\ Lo(kept[1]) <= min
  <2>1. rs = kept
    BY <1>7, <1>13
  <2>2. Separated(kept)
    BY <1>10, <1>11 DEF Separated
  <2>3. \A r \in Nat \X Nat : Within(r, ranges) => Hi(r) < min \/ Within(r, kept)
    BY <1>12, <1>10 DEF Within
  <2> QED  BY <2>1, <2>2, <2>3, <1>8
<1>14. CASE ~(kept # <<>> /\ Lo(kept[1]) <= min)
  <2>1. rs = dummy \o kept
    BY <1>7, <1>14
  <2>2. /\ rs \in Seq(Nat \X Nat) /\ Len(rs) = e + 1 /\ rs[1] = <<min, min>>
        /\ \A i \in 1..e : rs[i + 1] = kept[i]
    <3>1. kept \in Seq(Nat \X Nat) /\ Len(kept) = e
      BY <1>8, <1>10
    <3>2. <<min, min>> \in Nat \X Nat /\ rs = <<<<min, min>>>> \o kept
      BY <2>1 DEF dummy
    <3> QED  BY <3>1, <3>2, Prepended
  <2>4. DOMAIN rs = 1..(e + 1)
    BY <2>2
  <2>5. \A i \in 1..(e + 1) : i = 1 \/ (i - 1 \in 1..e /\ rs[i] = kept[i - 1])
    <3> TAKE i \in 1..(e + 1)
    <3>1. i = 1 \/ (i - 1 \in 1..e /\ (i - 1) + 1 = i)
      BY <1>10
    <3> QED  BY <3>1, <2>2
  <2>6. \A j \in 1..e : min < Lo(kept[j])
    <3> TAKE j \in 1..e
    <3>1. 1 \in 1..e /\ kept # <<>>
      BY <1>10
    <3>2. min < Lo(kept[1])
      BY <3>1, <1>11, <1>14
    <3>3. j = 1 \/ Hi(kept[1]) < Lo(kept[j])
      BY <3>1, <1>11
    <3>4. Lo(kept[1]) <= Hi(kept[1]) /\ Hi(kept[1]) \in Nat /\ Lo(kept[1]) \in Nat
          /\ Lo(kept[j]) \in Nat
      BY <3>1, <1>11
    <3> QED  BY <3>2, <3>3, <3>4
  <2>7. Separated(rs)
    <3> SUFFICES ASSUME NEW i \in 1..(e + 1), NEW j \in 1..(e + 1)
                 PROVE  Lo(rs[i]) <= Hi(rs[i]) /\ (i < j => Hi(rs[i]) < Lo(rs[j]))
      BY <2>4 DEF Separated
    <3>1. CASE i = 1
      <4>1. Lo(rs[i]) = min /\ Hi(rs[i]) = min
        BY <3>1, <2>2, <1>5
      <4>2. i < j => j - 1 \in 1..e /\ rs[j] = kept[j - 1]
        BY <3>1, <2>5
      <4> QED  BY <4>1, <4>2, <2>6
    <3>2. CASE i # 1
      <4>1. i - 1 \in 1..e /\ rs[i] = kept[i - 1]
        BY <3>2, <2>5
      <4>2. i < j => j - 1 \in 1..e /\ rs[j] = kept[j - 1] /\ i - 1 < j - 1
        BY <3>2, <2>5
      <4> QED  BY <4>1, <4>2, <1>11
    <3> QED  BY <3>1, <3>2
  <2>8. ASSUME NEW r \in Nat \X Nat, Within(r, ranges), ~(Hi(r) < min)
        PROVE  Within(r, rs)
    <3>1. PICK i \in 1..e : Lo(kept[i]) <= Lo(r) /\ Hi(r) <= Hi(kept[i])
      BY <1>12, <2>8
    <3>2. i + 1 \in DOMAIN rs /\ rs[i + 1] = kept[i]
      BY <2>2, <2>4, <1>10
    <3> QED  BY <3>1, <3>2 DEF Within
  <2> QED  BY <2>2, <2>7, <2>8
<1> QED  BY <1>13, <1>14

THEOREM WithHoleRight ==
    ASSUME NEW min \in Nat, NEW ranges \in Seq(Nat \X Nat), Separated(ranges),
           NEW h \in Nat \X Nat, Lo(h) <= Hi(h),
           NEW m, m = WithHole(min, ranges, h)
    PROVE  /\ m \in Seq(Nat \X Nat) /\ Separated(m) /\ Within(h, m)
           /\ \A r \in Nat \X Nat : Within(r, ranges) => Hi(r) < min \/ Within(r, m)
<1>1. PICK rs : rs = From(min, ranges)
  OBVIOUS
<1>2. /\ rs \in Seq(Nat \X Nat) /\ Separated(rs)
      /\ \A r \in Nat \X Nat : Within(r, ranges) => Hi(r) < min \/ Within(r, rs)
  BY <1>1, FromKeeps
<1> DEFINE S == {rs[i] : i \in DOMAIN rs} \cup {h}
<1>3. m = MergeRanges(S)
  BY <1>1 DEF WithHole, ToSet
<1>4. DOMAIN rs = 1..Len(rs) /\ Len(rs) \in Nat
  BY <1>2
<1>5. S \in SUBSET (Nat \X Nat) /\ \A r \in S : Lo(r) <= Hi(r)
  <2>1. \A i \in DOMAIN rs : rs[i] \in Nat \X Nat
    BY <1>2
  <2>2. \A i \in DOMAIN rs : Lo(rs[i]) <= Hi(rs[i])
    BY <1>2 DEF Separated
  <2> QED  BY <2>1, <2>2
<1>6. IsFiniteSet(S)
  <2> DEFINE D == {rs[i] : i \in DOMAIN rs}
             f == [i \in DOMAIN rs |-> rs[i]]
  <2>1. IsFiniteSet(1..Len(rs))
    BY <1>4, FS_Interval
  <2>2. f \in Surjection(DOMAIN rs, D)
    BY DEF Surjection
  <2>3. IsFiniteSet(D)
    BY <2>1, <2>2, <1>4, FS_Surjection
  <2> QED  BY <2>3, FS_AddElement
<1>7. /\ m \in Seq(Nat \X Nat) /\ Separated(m) /\ \A r \in S : Within(r, m)
  BY <1>3, <1>5, <1>6, MergeRangesRight
<1>8. ASSUME NEW r \in Nat \X Nat, Within(r, ranges), ~(Hi(r) < min)
      PROVE  Within(r, m)
  <2>1. PICK i \in DOMAIN rs : Lo(rs[i]) <= Lo(r) /\ Hi(r) <= Hi(rs[i])
    BY <1>2, <1>8 DEF Within
  <2>2. PICK j \in DOMAIN m : Lo(m[j]) <= Lo(rs[i]) /\ Hi(rs[i]) <= Hi(m[j])
    BY <1>7 DEF Within
  <2>3. rs[i] \in Nat \X Nat /\ m[j] \in Nat \X Nat
    BY <1>2, <1>7
  <2>4. Lo(m[j]) <= Lo(r) /\ Hi(r) <= Hi(m[j])
    BY <2>1, <2>2, <2>3 DEF Lo, Hi
  <2> QED  BY <2>4 DEF Within
<1> QED  BY <1>7, <1>8
=============================================================================
