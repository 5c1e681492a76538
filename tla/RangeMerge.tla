------------------------------- MODULE RangeMerge -------------------------------
(***************************************************************************)
(* Ranges of time in which a permission holds, and mergeRangeTimes of       *)
(* pkg/server/permissionSystem, which joins those that overlap or touch.    *)
(***************************************************************************)
EXTENDS Naturals, Sequences, FiniteSets, SequencesExt

\* Mutant: a permission still holds at its end.
InsideUpTo(r, t) == r.StartTime < t /\ t <= r.EndTime

\* now.After(StartTime) && now.Before(EndTime)
Inside(r, t) == r.StartTime < t /\ t < r.EndTime

\* Mutant: ranges that touch are kept apart.
ApartStrict(r, current) == r.StartTime >= current.EndTime

\* times[i].StartTime.After(current.EndTime)
Apart(r, current) == r.StartTime > current.EndTime

LaterEnd(r, current) == IF r.EndTime > current.EndTime THEN r.EndTime ELSE current.EndTime

\* One turn of the loop: acc holds the finished ranges, its last one is current.
MergeStep(acc, r) ==
    IF acc = <<>> THEN <<r>>
    ELSE LET current == Last(acc) IN
         IF Apart(r, current) THEN Append(acc, r)
         ELSE [acc EXCEPT ![Len(acc)].EndTime = LaterEnd(r, current)]

\* The loop after each of the ranges.
Merging(times) ==
    LET merged[n \in 0 .. Len(times)] ==
            IF n = 0 THEN <<>> ELSE MergeStep(merged[n - 1], times[n])
    IN  merged

\* sort.Slice leaves ranges with the same start in any order.
SortedByStart(times) ==
    \A k, l \in 1 .. Len(times) : k < l => times[k].StartTime <= times[l].StartTime

ByStart(ranges) ==
    CHOOSE times \in [1 .. Cardinality(ranges) -> ranges] :
        SortedByStart(times) /\ \A r \in ranges : \E k \in 1 .. Len(times) : times[k] = r

mergeRangeTimes(ranges) == LET times == ByStart(ranges) IN Merging(times)[Len(times)]

\* What the merged ranges stand for: instants inside the union of the ranges
\* with their end points.
Covered(ranges, t) ==
    /\ \E r \in ranges : r.StartTime < t /\ t <= r.EndTime
    /\ \E r \in ranges : r.StartTime <= t /\ t < r.EndTime
=============================================================================
