------------------------------- MODULE Ranges -------------------------------
(***************************************************************************)
(* The range arithmetic of the distributed tasks (cadofct.pm,              *)
(* merge_ranges and find_hole).  Polynomial selection and sieving process  *)
(* a half-open interval of leading coefficients or special-q's.  What is   *)
(* on disk and what is running is a list of ranges <<a, b>>, standing for  *)
(* a .. b-1; the next job gets the hole find_hole returns.                 *)
(*                                                                         *)
(* Perl's numbers are modelled as integers: the code itself says that it   *)
(* assumes "native integers (32 or 64 bits) are large enough".  An unset   *)
(* `max' (the sieve has none) is 0, which is what the code tests for.      *)
(***************************************************************************)
EXTENDS Integers, Sequences, SequencesExt, FiniteSets

\* The bounds of a range.
Lo(r) == r[1]
Hi(r) == r[2]

\* The numbers a range, or a set of ranges, covers.
Points(r) == Lo(r) .. (Hi(r) - 1)

Covered(S) == UNION {Points(r) : r \in S}

\* A list is sorted and has a gap between any two of its ranges.
Separated(s) == \A i, j \in DOMAIN s :
    Lo(s[i]) <= Hi(s[i]) /\ (i < j => Hi(s[i]) < Lo(s[j]))

\* The order merge_ranges sorts by.  Perl leaves ranges with equal starts in
\* the order it found them; the result does not depend on it.
StartsBefore(r, s) == Lo(r) < Lo(s) \/ (Lo(r) = Lo(s) /\ Hi(r) <= Hi(s))

Sorted(S) ==
    [k \in 1..Cardinality(S) |->
        CHOOSE r \in S : Cardinality({s \in S : StartsBefore(s, r)}) = k]

\* One turn of merge_ranges' loop: a range that starts strictly after the last
\* merged one opens a new one, any other extends it if it reaches further.
MergeStep(merged, r) ==
    IF merged = <<>> \/ Lo(r) > Hi(Last(merged))
    THEN Append(merged, r)
    ELSE IF Hi(r) > Hi(Last(merged))
         THEN Append(Front(merged), <<Lo(Last(merged)), Hi(r)>>)
         ELSE merged

\* merge_ranges: the sorted, disjoint, non-touching list covering the same
\* numbers as the set S of ranges.
MergeRanges(S) ==
    LET s == Sorted(S)
        merged[k \in 0..Len(s)] ==
            IF k = 0 THEN <<>> ELSE MergeStep(merged[k - 1], s[k])
    IN  merged[Len(s)]

\* find_hole, first part: drop the ranges lying completely before min ...
Near(min, ranges) == {i \in DOMAIN ranges : Hi(ranges[i]) >= min}

FirstNear(min, ranges) ==
    CHOOSE i \in Near(min, ranges) : \A j \in Near(min, ranges) : i <= j

Kept(min, ranges) ==
    IF Near(min, ranges) = {}
    THEN <<>>
    ELSE SubSeq(ranges, FirstNear(min, ranges), Len(ranges))

\* ... and make sure that the first one starts at or before min.  This is also
\* what find_hole leaves in the caller's list.
From(min, ranges) ==
    LET kept == Kept(min, ranges)
    IN  IF kept # <<>> /\ Lo(kept[1]) <= min
        THEN kept
        ELSE <<<<min, min>>>> \o kept

\* The hole starts at a and would end at a + len, brought back to a multiple
\* of len; a remainder of less than a tenth of len is not worth a job of its
\* own, and is added to the next one.
Aligned(a, len) ==
    LET b == (a + len) - ((a + len) % len)
    IN  IF 10 * (b - a) < len THEN b + len ELSE b

\* Mutant of Truncated: the next range is only looked at when max did not
\* truncate already (elsif for a second if).
TruncatedOnce(b, max, rs) ==
    IF max # 0 /\ max < b THEN max
    ELSE IF Len(rs) > 1 /\ Lo(rs[2]) < b THEN Lo(rs[2]) ELSE b

\* find_hole, last part: truncate by max and by the next range.
Truncated(b, max, rs) ==
    LET c == IF max # 0 /\ max < b THEN max ELSE b
    IN  IF Len(rs) > 1 /\ Lo(rs[2]) < c THEN Lo(rs[2]) ELSE c

\* find_hole: <<>> when there is no proper range to give out.
FindHole(min, max, len, ranges) ==
    LET rs == From(min, ranges)
        a  == Hi(rs[1])
        b  == Truncated(Aligned(a, len), max, rs)
    IN  IF a < b THEN <<a, b>> ELSE <<>>

\* What the callers do with a hole: the list find_hole left, and the hole,
\* merged again.
WithHole(min, ranges, hole) ==
    MergeRanges(ToSet(From(min, ranges)) \cup {hole})
=============================================================================
