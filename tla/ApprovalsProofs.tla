---------------------------- MODULE ApprovalsProofs ----------------------------
(***************************************************************************)
(* Proofs about Approvals, for any users, roles, periods and requests: the *)
(* merging of ranges (mergeRangeTimes), the decisions on requests, and the *)
(* role column and the warnings the daemon makes of merged ranges.         *)
(***************************************************************************)
EXTENDS Approvals, FiniteSetTheorems, WellFoundedInduction, TLAPS

(* Merging ranges *)

\* A set of natural numbers has a least element.
LEMMA LeastNumber ==
    ASSUME NEW S \in SUBSET Nat, S # {}
    PROVE  \E m \in S : \A k \in S : m <= k
<1>1. PICK m \in S : \A k \in S : <<k, m>> \notin OpToRel(<, Nat)
    BY WFMin, NatLessThanWellFounded, Zenon
<1>2. \A k \in S : ~(k < m)
    BY <1>1, Zenon DEF OpToRel
<1> QED
    BY <1>2

\* The loop of mergeRangeTimes is well defined: what it holds after each range.
LEMMA MergingSteps ==
    ASSUME NEW times, Len(times) \in Nat
    PROVE  /\ Merging(times)[0] = <<>>
           /\ \A n \in 1 .. Len(times) :
                 Merging(times)[n] = MergeStep(Merging(times)[n - 1], times[n])
<1> DEFINE Step(f, k) == IF k = 0 THEN <<>> ELSE MergeStep(f[k - 1], times[k])
           Defined == {n \in 0 .. Len(times) : \E f : f = [k \in 0 .. n |-> Step(f, k)]}
           Undefined == 0 .. Len(times) \ Defined
<1>1. Undefined = {}
    <2> SUFFICES ASSUME Undefined # {} PROVE FALSE
        OBVIOUS
    <2>1. PICK n \in Undefined : \A k \in Undefined : n <= k
        <3>1. Undefined \in SUBSET Nat
            OBVIOUS
        <3> HIDE DEF Undefined
        <3> QED
            BY <3>1, LeastNumber
    <2>2. n # 0
        <3> DEFINE f == [k \in 0 .. 0 |-> <<>>]
        <3>1. f = [k \in 0 .. 0 |-> Step(f, k)]
            OBVIOUS
        <3> QED
            BY <3>1
    <2>3. n - 1 \in Defined
        <3>1. n \in 0 .. Len(times) /\ n - 1 \in 0 .. Len(times) /\ ~(n <= n - 1)
            BY <2>2
        <3>2. n - 1 \notin Undefined
            BY <2>1, <3>1
        <3> HIDE DEF Defined
        <3> QED
            BY <3>1, <3>2
    <2>4. PICK f : f = [k \in 0 .. n - 1 |-> Step(f, k)]
        BY <2>3
    <2> DEFINE g == [k \in 0 .. n |-> IF k = n THEN MergeStep(f[n - 1], times[n]) ELSE f[k]]
    <2>5. ASSUME NEW k \in 0 .. n PROVE g[k] = Step(g, k)
        <3>1. CASE k = n
            BY <2>2, <3>1
        <3>2. CASE k # n
            <4>1. k \in 0 .. n - 1 /\ (k # 0 => k - 1 \in 0 .. n - 1)
                BY <3>2
            <4>2. f[k] = Step(f, k)
                BY <2>4, <4>1
            <4>3. k # 0 => g[k - 1] = f[k - 1]
                BY <4>1
            <4> QED
                BY <3>2, <4>2, <4>3
        <3> QED
            BY <3>1, <3>2
    <2>6. g = [k \in 0 .. n |-> Step(g, k)]
        BY <2>5
    <2> QED
        BY <2>1, <2>6
<1>2. \E f : f = [k \in 0 .. Len(times) |-> Step(f, k)]
    BY <1>1
<1>3. Merging(times) = [k \in 0 .. Len(times) |-> Step(Merging(times), k)]
    <2> DEFINE M == CHOOSE f : f = [k \in 0 .. Len(times) |-> Step(f, k)]
    <2>1. M = [k \in 0 .. Len(times) |-> Step(M, k)]
        BY <1>2
    <2>2. Merging(times) = M
        BY DEF Merging
    <2> QED
        BY <2>1, <2>2
<1> QED
    BY <1>3

-----------------------------------------------------------------------------
Span == [StartTime : Nat, EndTime : Nat]
Separated(m) ==
    \A k, l \in 1 .. Len(m) : k < l => m[k].EndTime < m[l].StartTime
AfterStart(r, t) == r.StartTime < t /\ t <= r.EndTime
BeforeEnd(r, t) == r.StartTime <= t /\ t < r.EndTime

\* What the loop of mergeRangeTimes holds after n of the sorted ranges.
\* Ranges, none after the start of the last one read ...
Ordered(m, times, n) ==
    \A k \in 1 .. Len(m) :
        m[k].StartTime <= m[k].EndTime /\ m[k].StartTime <= times[n].StartTime

\* ... that begin and end where one of the n does ...
SameEnds(m, times, n) ==
    \A k \in 1 .. Len(m) : \E i, j \in 1 .. n :
        m[k].StartTime = times[i].StartTime /\ m[k].EndTime = times[j].EndTime

\* ... with each of the n inside one of them ...
HoldsAll(m, times, n) ==
    \A i \in 1 .. n : \E k \in 1 .. Len(m) :
        m[k].StartTime <= times[i].StartTime /\ times[i].EndTime <= m[k].EndTime

\* ... and nothing inside them that is not in one of the n.
HoldsOnly(m, times, n) ==
    \A k \in 1 .. Len(m), t \in Nat :
        /\ AfterStart(m[k], t) => \E i \in 1 .. n : AfterStart(times[i], t)
        /\ BeforeEnd(m[k], t) => \E i \in 1 .. n : BeforeEnd(times[i], t)

MergedUpTo(m, times, n) ==
    /\ m \in Seq(Span) /\ (m = <<>> <=> n = 0) /\ Separated(m)
    /\ Ordered(m, times, n) /\ SameEnds(m, times, n)
    /\ HoldsAll(m, times, n) /\ HoldsOnly(m, times, n)

Proper(times) ==
    /\ times \in Seq(Span) /\ SortedByStart(times)
    /\ \A i \in 1 .. Len(times) : times[i].StartTime <= times[i].EndTime

\* Spans begin and end at natural numbers.
LEMMA SpanFacts == \A r \in Span : r.StartTime \in Nat /\ r.EndTime \in Nat
    BY DEF Span

\* One turn of the loop.
LEMMA MergeOne ==
    ASSUME NEW times, Proper(times), NEW n \in 1 .. Len(times), NEW m,
           MergedUpTo(m, times, n - 1)
    PROVE  MergedUpTo(MergeStep(m, times[n]), times, n)
<1> DEFINE r == times[n]
           new == MergeStep(m, r)
<1> SUFFICES MergedUpTo(new, times, n)
    OBVIOUS
<1>1. \A i \in 1 .. Len(times) :
          /\ times[i] \in Span /\ times[i].StartTime \in Nat /\ times[i].EndTime \in Nat
          /\ times[i].StartTime <= times[i].EndTime
    BY SpanFacts DEF Proper
<1>2. /\ r = times[n] /\ r \in Span /\ r.StartTime \in Nat /\ r.EndTime \in Nat
      /\ r.StartTime <= r.EndTime
      /\ n \in Nat /\ n >= 1
      /\ \A i \in 1 .. n - 1 : i \in 1 .. n /\ i \in 1 .. Len(times)
      /\ \A i \in 1 .. n : i \in 1 .. n - 1 \/ i = n
      /\ n \in 1 .. n
    BY <1>1
<1>3. \A i \in 1 .. n - 1 : times[i].StartTime <= r.StartTime
    BY DEF Proper, SortedByStart
<1>4. /\ m \in Seq(Span) /\ Len(m) \in Nat
      /\ \A k \in 1 .. Len(m) : /\ m[k] \in Span /\ m[k].StartTime \in Nat /\ m[k].EndTime \in Nat
                                /\ m[k].StartTime <= m[k].EndTime
    <2>1. m \in Seq(Span)
        BY DEF MergedUpTo
    <2>2. \A k \in 1 .. Len(m) : m[k] \in Span
        BY <2>1
    <2> QED
        BY <2>1, <2>2, SpanFacts DEF MergedUpTo, Ordered
<1>5. \A k \in 1 .. Len(m) : m[k].StartTime <= r.StartTime
    <2>1. CASE n = 1
        BY <2>1 DEF MergedUpTo, Ordered
    <2>2. CASE n # 1
        <3>1. n - 1 \in 1 .. n - 1 /\ times[n - 1].StartTime \in Nat
            BY <1>1, <1>2, <2>2
        <3>2. times[n - 1].StartTime <= r.StartTime
            BY <1>3, <3>1
        <3> QED
            BY <1>2, <1>4, <3>1, <3>2 DEF MergedUpTo, Ordered
    <2> QED
        BY <2>1, <2>2
<1>6. \A i \in 1 .. n - 1 : \E k \in 1 .. Len(m) :
          m[k].StartTime <= times[i].StartTime /\ times[i].EndTime <= m[k].EndTime
    BY DEF MergedUpTo, HoldsAll
<1>7. \A k \in 1 .. Len(m), t \in Nat :
          /\ AfterStart(m[k], t) => \E i \in 1 .. n : AfterStart(times[i], t)
          /\ BeforeEnd(m[k], t) => \E i \in 1 .. n : BeforeEnd(times[i], t)
    BY <1>2 DEF MergedUpTo, HoldsOnly
<1>8. \A k \in 1 .. Len(m) : \E i, j \in 1 .. n :
          m[k].StartTime = times[i].StartTime /\ m[k].EndTime = times[j].EndTime
    BY <1>2 DEF MergedUpTo, SameEnds
<1>9. CASE m = <<>>
    <2>1. new = <<r>>
        BY <1>9 DEF MergeStep
    <2>2. new \in Seq(Span) /\ Len(new) = 1 /\ new[1] = r /\ new # <<>>
        BY <1>2, <2>1
    <2>3. n = 1
        BY <1>2, <1>9 DEF MergedUpTo
    <2> HIDE DEF new
    <2> QED
        BY <1>2, <2>2, <2>3
        DEF MergedUpTo, Separated, Ordered, SameEnds, HoldsAll, HoldsOnly
<1> DEFINE last == Len(m)
<1>10. \A k \in 1 .. last : m[k].StartTime <= r.StartTime
    BY <1>5
<1>11. CASE m # <<>> /\ Apart(r, m[last])
    <2>1. new = Append(m, r)
        BY <1>4, <1>11 DEF MergeStep, Last
    <2>2. /\ last \in 1 .. Len(m) /\ new \in Seq(Span) /\ Len(new) = last + 1 /\ new # <<>>
          /\ new[last + 1] = r /\ \A k \in 1 .. last : new[k] = m[k]
        <3>1. last \in 1 .. Len(m)
            BY <1>4, <1>11
        <3>2. /\ Len(new) = last + 1 /\ new[last + 1] = r
              /\ \A k \in 1 .. last : new[k] = m[k]
            BY <1>4, <2>1
        <3>3. new \in Seq(Span)
            BY <1>2, <1>4, <2>1
        <3>4. new # <<>>
            BY <1>4, <3>2
        <3> QED
            BY <3>1, <3>2, <3>3, <3>4
    <2>3. m[last].EndTime < r.StartTime
        BY <1>2, <1>4, <1>11, <2>2 DEF Apart
    <2> HIDE DEF new
    <2>4. Separated(new)
        <3> SUFFICES ASSUME NEW k \in 1 .. last + 1, NEW l \in 1 .. last + 1, k < l
                     PROVE  new[k].EndTime < new[l].StartTime
            BY <2>2 DEF Separated
        <3>1. k \in 1 .. last /\ new[k] = m[k]
            BY <1>4, <2>2
        <3>2. CASE l \in 1 .. last
            BY <2>2, <3>1, <3>2 DEF MergedUpTo, Separated
        <3>3. CASE l = last + 1
            <4>1. CASE k = last
                BY <2>2, <2>3, <3>1, <3>3, <4>1
            <4>2. CASE k # last
                <5>1. m[k].EndTime < m[last].StartTime
                    BY <2>2, <3>1, <4>2 DEF MergedUpTo, Separated
                <5> QED
                    BY <1>2, <1>4, <2>2, <2>3, <3>1, <3>3, <5>1
            <4> QED
                BY <4>1, <4>2
        <3> QED
            BY <1>4, <3>2, <3>3
    <2>5. \A k \in 1 .. last + 1 : k \in 1 .. last \/ k = last + 1
        BY <1>4
    <2>6. \A k \in 1 .. Len(new) :
              new[k].StartTime <= new[k].EndTime /\ new[k].StartTime <= r.StartTime
        BY <1>2, <1>4, <1>5, <2>2, <2>5
    <2>7. \A i \in 1 .. n : \E k \in 1 .. Len(new) :
              new[k].StartTime <= times[i].StartTime /\ times[i].EndTime <= new[k].EndTime
        <3>1. 1 .. last \subseteq 1 .. last + 1 /\ last + 1 \in 1 .. last + 1
            BY <1>4
        <3>2. ASSUME NEW i \in 1 .. n - 1
              PROVE  \E k \in 1 .. last + 1 : new[k].StartTime <= times[i].StartTime
                                              /\ times[i].EndTime <= new[k].EndTime
            BY <1>6, <2>2, <3>1
        <3>3. new[last + 1].StartTime <= r.StartTime /\ r.EndTime <= new[last + 1].EndTime
            BY <1>2, <2>2
        <3> QED
            BY <1>2, <2>2, <3>1, <3>2, <3>3
    <2>8. \A k \in 1 .. Len(new), t \in Nat :
              /\ AfterStart(new[k], t) => \E i \in 1 .. n : AfterStart(times[i], t)
              /\ BeforeEnd(new[k], t) => \E i \in 1 .. n : BeforeEnd(times[i], t)
        BY <1>2, <1>7, <2>2, <2>5
    <2>9. ASSUME NEW k \in 1 .. Len(new)
          PROVE  \E i, j \in 1 .. n :
                     new[k].StartTime = times[i].StartTime /\ new[k].EndTime = times[j].EndTime
        <3>1. CASE k \in 1 .. last
            BY <1>8, <2>2, <3>1
        <3>2. CASE k = last + 1
            BY <1>2, <2>2, <3>2
        <3> QED
            BY <2>2, <2>5, <3>1, <3>2
    <2> QED
        BY <1>2, <2>2, <2>4, <2>6, <2>7, <2>8, <2>9
        DEF MergedUpTo, Ordered, SameEnds, HoldsAll, HoldsOnly
<1>12. CASE m # <<>> /\ ~Apart(r, m[last])
    <2> DEFINE end == LaterEnd(r, m[last])
    <2>1. last \in 1 .. Len(m) /\ Last(m) = m[last]
        BY <1>4, <1>12 DEF Last
    <2>2. /\ end \in Nat /\ r.EndTime <= end /\ m[last].EndTime <= end
          /\ r.StartTime <= m[last].EndTime
          /\ end = r.EndTime \/ end = m[last].EndTime
        BY <1>2, <1>4, <1>12, <2>1 DEF LaterEnd, Apart
    <2>3. new = [m EXCEPT ![last].EndTime = end]
        BY <1>12, <2>1 DEF MergeStep
    <2> HIDE DEF end
    <2>4. /\ Len(new) = last /\ new # <<>>
          /\ \A k \in 1 .. last : k # last => new[k] = m[k]
          /\ new[last] = [m[last] EXCEPT !.EndTime = end]
        BY <1>4, <1>12, <2>1, <2>3
    <2>5. new[last] \in Span /\ new[last].StartTime = m[last].StartTime /\ new[last].EndTime = end
        BY <1>4, <2>1, <2>2, <2>4 DEF Span
    <2>6. new \in Seq(Span)
        BY <1>4, <2>1, <2>3, <2>4, <2>5
    <2> HIDE DEF new
    <2>7. Separated(new)
        <3> SUFFICES ASSUME NEW k \in 1 .. last, NEW l \in 1 .. last, k < l
                     PROVE  new[k].EndTime < new[l].StartTime
            BY <2>4 DEF Separated
        <3>1. k # last /\ new[k] = m[k]
            BY <1>4, <2>4
        <3>2. new[l].StartTime = m[l].StartTime
            BY <2>4, <2>5
        <3> QED
            BY <3>1, <3>2 DEF MergedUpTo, Separated
    <2>8. ASSUME NEW k \in 1 .. Len(new)
          PROVE  new[k].StartTime <= new[k].EndTime /\ new[k].StartTime <= r.StartTime
        <3>1. CASE k # last
            BY <1>4, <1>5, <2>4, <3>1
        <3>2. CASE k = last
            <4>1. m[last].StartTime \in Nat /\ m[last].EndTime \in Nat
                  /\ m[last].StartTime <= m[last].EndTime /\ m[last].StartTime <= r.StartTime
                BY <1>4, <1>5, <2>1
            <4> QED
                BY <2>2, <2>5, <3>2, <4>1
        <3> QED
            BY <3>1, <3>2
    <2>9. \A i \in 1 .. n : \E k \in 1 .. Len(new) :
              new[k].StartTime <= times[i].StartTime /\ times[i].EndTime <= new[k].EndTime
        <3>1. new[last].StartTime <= r.StartTime /\ r.EndTime <= new[last].EndTime
            BY <1>5, <2>1, <2>2, <2>5
        <3>2. ASSUME NEW i \in 1 .. n - 1
              PROVE  \E k \in 1 .. last : new[k].StartTime <= times[i].StartTime
                                          /\ times[i].EndTime <= new[k].EndTime
            <4>1. PICK k \in 1 .. last : m[k].StartTime <= times[i].StartTime
                                         /\ times[i].EndTime <= m[k].EndTime
                BY <1>6
            <4>2. times[i].EndTime \in Nat
                BY <1>1, <1>2
            <4>3. CASE k # last
                BY <2>4, <4>1, <4>3
            <4>4. CASE k = last
                BY <1>4, <2>1, <2>2, <2>5, <4>1, <4>2, <4>4
            <4> QED
                BY <4>3, <4>4
        <3> QED
            BY <1>2, <2>1, <2>4, <3>1, <3>2
    <2>10. ASSUME NEW k \in 1 .. Len(new), NEW t \in Nat
           PROVE  /\ AfterStart(new[k], t) => \E i \in 1 .. n : AfterStart(times[i], t)
                  /\ BeforeEnd(new[k], t) => \E i \in 1 .. n : BeforeEnd(times[i], t)
        <3>1. CASE k # last
            BY <1>7, <2>4, <3>1
        <3>2. CASE k = last
            <4>1. /\ AfterStart(new[last], t) => AfterStart(m[last], t) \/ AfterStart(r, t)
                  /\ BeforeEnd(new[last], t) => BeforeEnd(m[last], t) \/ BeforeEnd(r, t)
                BY <1>2, <1>4, <2>1, <2>2, <2>5 DEF AfterStart, BeforeEnd
            <4> QED
                BY <1>2, <1>7, <2>1, <3>2, <4>1
        <3> QED
            BY <3>1, <3>2
    <2>11. ASSUME NEW k \in 1 .. Len(new)
           PROVE  \E i, j \in 1 .. n :
                      new[k].StartTime = times[i].StartTime /\ new[k].EndTime = times[j].EndTime
        <3>1. PICK i \in 1 .. n, j \in 1 .. n :
                  m[k].StartTime = times[i].StartTime /\ m[k].EndTime = times[j].EndTime
            BY <1>8, <2>4
        <3>2. new[k].StartTime = m[k].StartTime
            BY <2>4, <2>5
        <3>3. new[k].EndTime = m[k].EndTime \/ new[k].EndTime = times[n].EndTime
            BY <1>2, <2>2, <2>4, <2>5
        <3> QED
            BY <1>2, <3>1, <3>2, <3>3
    <2> QED
        BY <1>2, <2>4, <2>6, <2>7, <2>8, <2>9, <2>10, <2>11
        DEF MergedUpTo, Ordered, SameEnds, HoldsAll, HoldsOnly
<1> QED
    BY <1>9, <1>11, <1>12

\* What mergeRangeTimes makes of a sorted list.
LEMMA MergeAll ==
    ASSUME NEW times, Proper(times)
    PROVE  MergedUpTo(Merging(times)[Len(times)], times, Len(times))
<1> DEFINE Wrong == {n \in 0 .. Len(times) : ~MergedUpTo(Merging(times)[n], times, n)}
<1>1. Len(times) \in Nat
    BY DEF Proper
<1>2. /\ Merging(times)[0] = <<>>
      /\ \A n \in 1 .. Len(times) :
            Merging(times)[n] = MergeStep(Merging(times)[n - 1], times[n])
    BY <1>1, MergingSteps
<1>3. Wrong = {}
    <2> SUFFICES ASSUME Wrong # {} PROVE FALSE
        OBVIOUS
    <2>1. PICK n \in Wrong : \A k \in Wrong : n <= k
        <3>1. Wrong \in SUBSET Nat
            OBVIOUS
        <3> HIDE DEF Wrong
        <3> QED
            BY <3>1, LeastNumber
    <2>2. MergedUpTo(<<>>, times, 0)
        BY DEF MergedUpTo, Separated, Ordered, SameEnds, HoldsAll, HoldsOnly
    <2>3. n \in 1 .. Len(times) /\ n - 1 \in 0 .. Len(times) /\ ~(n <= n - 1)
        BY <1>1, <1>2, <2>2
    <2>4. MergedUpTo(Merging(times)[n - 1], times, n - 1)
        BY <2>1, <2>3
    <2>5. MergedUpTo(Merging(times)[n], times, n)
        BY <1>2, <2>3, <2>4, MergeOne
    <2> QED
        BY <2>5
<1> QED
    BY <1>1, <1>3

\* A finite set of ranges can be listed by their start.
LEMMA SortExists ==
    ASSUME NEW n \in Nat, NEW R \in SUBSET Span, IsFiniteSet(R), Cardinality(R) = n
    PROVE  \E times \in [1 .. n -> R] :
              SortedByStart(times) /\ \A r \in R : \E k \in 1 .. Len(times) : times[k] = r
<1> DEFINE Listed(times, S) ==
               SortedByStart(times) /\ \A r \in S : \E k \in 1 .. Len(times) : times[k] = r
           Sortable(k) == \A S \in SUBSET Span :
               IsFiniteSet(S) /\ Cardinality(S) = k => \E times \in [1 .. k -> S] : Listed(times, S)
           Wrong == {k \in Nat : ~Sortable(k)}
<1>1. Wrong = {}
    <2> SUFFICES ASSUME Wrong # {} PROVE FALSE
        OBVIOUS
    <2>1. PICK k \in Wrong : \A l \in Wrong : k <= l
        <3>1. Wrong \in SUBSET Nat
            OBVIOUS
        <3> HIDE DEF Wrong
        <3> QED
            BY <3>1, LeastNumber
    <2>2. PICK S \in SUBSET Span : /\ IsFiniteSet(S) /\ Cardinality(S) = k
                                   /\ ~ \E times \in [1 .. k -> S] : Listed(times, S)
        OBVIOUS
    <2>3. k # 0
        <3> SUFFICES ASSUME k = 0 PROVE FALSE
            OBVIOUS
        <3>1. S = {}
            BY <2>2, FS_EmptySet
        <3>2. <<>> \in [1 .. 0 -> S] /\ Len(<<>>) = 0
            OBVIOUS
        <3>3. Listed(<<>>, S)
            BY <3>1, <3>2 DEF SortedByStart
        <3> QED
            BY <2>2, <3>2, <3>3
    <2>4. PICK r \in S : \A q \in S : r.StartTime <= q.StartTime
        <3> DEFINE starts == {q.StartTime : q \in S}
        <3>1. S # {}
            BY <2>2, <2>3, FS_EmptySet
        <3>2. starts \in SUBSET Nat /\ starts # {}
            BY <3>1, SpanFacts
        <3>3. PICK s \in starts : \A t \in starts : s <= t
            <4> HIDE DEF starts
            <4> QED
                BY <3>2, LeastNumber
        <3> QED
            BY <3>3
    <2>5. IsFiniteSet(S \ {r}) /\ Cardinality(S \ {r}) = k - 1 /\ S \ {r} \in SUBSET Span
        BY <2>2, FS_RemoveElement
    <2>6. k - 1 \in Nat /\ ~(k <= k - 1)
        BY <2>3
    <2>7. PICK f \in [1 .. k - 1 -> S \ {r}] : Listed(f, S \ {r})
        <3>1. k - 1 \notin Wrong
            BY <2>1, <2>6
        <3>2. Sortable(k - 1)
            BY <2>6, <3>1
        <3> QED
            BY <2>5, <3>2
    <2> DEFINE g == [i \in 1 .. k |-> IF i = 1 THEN r ELSE f[i - 1]]
    <2>8. Len(f) = k - 1 /\ Len(g) = k
        BY <2>6
    <2>9. /\ \A i \in 1 .. k - 1 : i + 1 \in 1 .. k /\ i + 1 # 1 /\ (i + 1) - 1 = i
          /\ \A i \in 1 .. k : i # 1 => i - 1 \in 1 .. k - 1
          /\ 1 \in 1 .. k
        BY <2>6
    <2>10. g \in [1 .. k -> S]
        BY <2>9
    <2>11. \A q \in S : \E i \in 1 .. Len(g) : g[i] = q
        <3> SUFFICES ASSUME NEW q \in S PROVE \E i \in 1 .. k : g[i] = q
            BY <2>8
        <3>1. CASE q = r
            BY <2>9, <3>1
        <3>2. CASE q # r
            <4>1. PICK i \in 1 .. k - 1 : f[i] = q
                BY <2>7, <2>8, <3>2
            <4>2. g[i + 1] = q
                BY <2>9, <4>1
            <4> QED
                BY <2>9, <4>2
        <3> QED
            BY <3>1, <3>2
    <2>12. SortedByStart(g)
        <3> SUFFICES ASSUME NEW i \in 1 .. k, NEW j \in 1 .. k, i < j
                     PROVE  g[i].StartTime <= g[j].StartTime
            BY <2>8 DEF SortedByStart
        <3>1. j # 1 /\ g[j] = f[j - 1] /\ j - 1 \in 1 .. k - 1
            BY <2>6, <2>9
        <3>2. CASE i = 1
            BY <2>4, <2>10, <3>2
        <3>3. CASE i # 1
            <4>1. g[i] = f[i - 1] /\ i - 1 \in 1 .. k - 1 /\ i - 1 < j - 1
                BY <2>9, <3>1, <3>3
            <4> QED
                BY <2>7, <2>8, <3>1, <4>1 DEF SortedByStart
        <3> QED
            BY <3>2, <3>3
    <2> HIDE DEF g
    <2> QED
        BY <2>2, <2>10, <2>11, <2>12
<1>2. Sortable(n)
    BY <1>1
<1> QED
    BY <1>2

\* The properties of merged ranges that the daemon relies on.
LEMMA MergedRanges ==
    ASSUME NEW R \in SUBSET Span, IsFiniteSet(R), \A r \in R : r.StartTime <= r.EndTime
    PROVE  LET m == mergeRangeTimes(R) IN
           /\ m \in Seq(Span) /\ Separated(m)
           /\ \A k \in 1 .. Len(m) : m[k].StartTime <= m[k].EndTime
           /\ \A k \in 1 .. Len(m) : \E p, q \in R :
                 m[k].StartTime = p.StartTime /\ m[k].EndTime = q.EndTime
           /\ \A r \in R : \E k \in 1 .. Len(m) :
                 m[k].StartTime <= r.StartTime /\ r.EndTime <= m[k].EndTime
           /\ \A k \in 1 .. Len(m), t \in Nat :
                 /\ AfterStart(m[k], t) => \E r \in R : AfterStart(r, t)
                 /\ BeforeEnd(m[k], t) => \E r \in R : BeforeEnd(r, t)
<1> DEFINE n == Cardinality(R)
           times == ByStart(R)
<1>1. n \in Nat
    BY FS_CardinalityType
<1>2. /\ times \in [1 .. n -> R] /\ SortedByStart(times)
      /\ \A r \in R : \E k \in 1 .. Len(times) : times[k] = r
    <2>1. \E l \in [1 .. n -> R] :
              SortedByStart(l) /\ \A r \in R : \E k \in 1 .. Len(l) : l[k] = r
        BY <1>1, SortExists
    <2> QED
        BY <2>1 DEF ByStart
<1>3. times \in Seq(Span) /\ Len(times) = n
    BY <1>1, <1>2
<1>4. \A k \in 1 .. n : times[k] \in R
    BY <1>2
<1>5. Proper(times)
    BY <1>2, <1>3, <1>4 DEF Proper
<1> DEFINE m == Merging(times)[Len(times)]
<1>6. MergedUpTo(m, times, Len(times))
    BY <1>5, MergeAll
<1>7. mergeRangeTimes(R) = m
    BY DEF mergeRangeTimes
<1> HIDE DEF m, times
<1>8. /\ m \in Seq(Span) /\ Separated(m)
      /\ \A k \in 1 .. Len(m) : m[k].StartTime <= m[k].EndTime
    BY <1>6 DEF MergedUpTo, Ordered
<1>9. \A r \in R : \E k \in 1 .. Len(m) :
          m[k].StartTime <= r.StartTime /\ r.EndTime <= m[k].EndTime
    BY <1>2, <1>6 DEF MergedUpTo, HoldsAll
<1>10. \A k \in 1 .. Len(m), t \in Nat :
          /\ AfterStart(m[k], t) => \E r \in R : AfterStart(r, t)
          /\ BeforeEnd(m[k], t) => \E r \in R : BeforeEnd(r, t)
    BY <1>3, <1>4, <1>6 DEF MergedUpTo, HoldsOnly
<1>11. \A k \in 1 .. Len(m) : \E p, q \in R :
          m[k].StartTime = p.StartTime /\ m[k].EndTime = q.EndTime
    BY <1>3, <1>4, <1>6 DEF MergedUpTo, SameEnds
<1> QED
    BY <1>7, <1>8, <1>9, <1>10, <1>11

\* A moment is inside a merged range exactly if the ranges leave no gap at it:
\* a range holds just before it and a range holds just after it.
THEOREM MergeIsExact ==
    ASSUME NEW R \in SUBSET Span, IsFiniteSet(R), \A r \in R : r.StartTime <= r.EndTime,
           NEW t \in Nat
    PROVE  Covered(R, t)
           <=> \E k \in 1 .. Len(mergeRangeTimes(R)) : Inside(mergeRangeTimes(R)[k], t)
<1> DEFINE m == mergeRangeTimes(R)
<1>1. /\ m \in Seq(Span) /\ Separated(m)
      /\ \A r \in R : \E k \in 1 .. Len(m) :
            m[k].StartTime <= r.StartTime /\ r.EndTime <= m[k].EndTime
      /\ \A k \in 1 .. Len(m), s \in Nat :
            /\ AfterStart(m[k], s) => \E r \in R : AfterStart(r, s)
            /\ BeforeEnd(m[k], s) => \E r \in R : BeforeEnd(r, s)
    BY MergedRanges
<1>2. \A k \in 1 .. Len(m) : m[k].StartTime \in Nat /\ m[k].EndTime \in Nat
    BY <1>1, SpanFacts
<1> HIDE DEF m
<1>3. ASSUME NEW k \in 1 .. Len(m), Inside(m[k], t) PROVE Covered(R, t)
    <2>1. AfterStart(m[k], t) /\ BeforeEnd(m[k], t)
        BY <1>2, <1>3 DEF Inside, AfterStart, BeforeEnd
    <2> QED
        BY <1>1, <2>1 DEF Covered, AfterStart, BeforeEnd
<1>4. ASSUME Covered(R, t) PROVE \E k \in 1 .. Len(m) : Inside(m[k], t)
    <2>1. PICK p \in R, q \in R : AfterStart(p, t) /\ BeforeEnd(q, t)
        BY <1>4 DEF Covered, AfterStart, BeforeEnd
    <2>2. PICK k \in 1 .. Len(m) : m[k].StartTime <= p.StartTime /\ p.EndTime <= m[k].EndTime
        BY <1>1
    <2>3. PICK l \in 1 .. Len(m) : m[l].StartTime <= q.StartTime /\ q.EndTime <= m[l].EndTime
        BY <1>1
    <2>4. m[k].StartTime < t /\ t <= m[k].EndTime /\ m[l].StartTime <= t /\ t < m[l].EndTime
        <3>1. /\ p.StartTime \in Nat /\ p.EndTime \in Nat
              /\ q.StartTime \in Nat /\ q.EndTime \in Nat
            BY SpanFacts
        <3>2. p.StartTime < t /\ t <= p.EndTime /\ q.StartTime <= t /\ t < q.EndTime
            BY <2>1 DEF AfterStart, BeforeEnd
        <3> QED
            BY <1>2, <2>2, <2>3, <3>1, <3>2
    <2>5. k = l
        <3>1. ~(k < l)
            BY <1>1, <1>2, <2>4 DEF Separated
        <3>2. ~(l < k)
            BY <1>1, <1>2, <2>4 DEF Separated
        <3>3. k \in Nat /\ l \in Nat
            BY <1>1
        <3> QED
            BY <3>1, <3>2, <3>3
    <2> QED
        BY <2>4, <2>5 DEF Inside
<1> QED
    BY <1>3, <1>4 DEF m

-----------------------------------------------------------------------------
(* Decisions *)

RowsTyped == approvals \in [Requests -> TacacsApproval \cup {None}]

\* Only a request that is no longer under review was decided.
DecidedOnce ==
    /\ decisions \in [Requests -> {0, 1}]
    /\ \A i \in Requests :
          approvals[i] = None \/ approvals[i].Status = ApprovalUnderReview
              => decisions[i] = 0

\* The expiry sweep holds the mutex while it looks at passed requests, so none
\* of them can have been closed since it listed them.
SweepListed ==
    /\ missions \subseteq Rows
    /\ mutex = "expiry" =>
          \A i \in missions : approvals[i].Status = ApprovalPass

DecisionInv == RowsTyped /\ DecidedOnce /\ SweepListed

-----------------------------------------------------------------------------
\* Rows are records, and the statuses differ.
LEMMA RowFacts ==
    ASSUME RowsTyped, NEW i \in Rows
    PROVE  i \in Requests /\ approvals[i] \in TacacsApproval /\ approvals[i] # None
    BY DEF RowsTyped, Rows

\* A new request is pending, and takes an id that was free.
LEMMA CreateStep ==
    ASSUME DecisionInv, NEW u \in Users, NEW p \in Roles, NEW r \in Periods, Create(u, p, r),
           now \in Times
    PROVE  /\ DecisionInv'
           /\ \A i \in Rows : approvals'[i] = approvals[i]
<1> USE ApprovalsAssumption
<1>1. PICK i \in Requests \ Rows :
          approvals' = [approvals EXCEPT ![i] =
                [User |-> u, ApprovalPermissions |-> p, CreateTime |-> now,
                 StartTime |-> r.StartTime, EndTime |-> r.EndTime,
                 Status |-> ApprovalUnderReview]]
    BY DEF Create
<1> DEFINE row == [User |-> u, ApprovalPermissions |-> p, CreateTime |-> now,
                   StartTime |-> r.StartTime, EndTime |-> r.EndTime,
                   Status |-> ApprovalUnderReview]
<1>2. row \in TacacsApproval
    <2>1. r.StartTime \in Times /\ r.EndTime \in Ends
        BY DEF Period
    <2> QED
        BY <2>1 DEF TacacsApproval, Status
<1>3. UNCHANGED <<decisions, sweepVars>>
    BY DEF Create
<1>4. /\ approvals'[i] = row /\ row.Status = ApprovalUnderReview
      /\ \A j \in Requests : j # i => approvals'[j] = approvals[j]
    BY <1>1 DEF DecisionInv, RowsTyped
<1>5. RowsTyped'
    BY <1>1, <1>2 DEF DecisionInv, RowsTyped
<1>6. i \in Requests /\ approvals[i] = None /\ decisions[i] = 0
    BY DEF DecisionInv, DecidedOnce, Rows
<1> HIDE DEF row
<1>7. DecidedOnce'
    BY <1>3, <1>4, <1>6 DEF DecisionInv, DecidedOnce
<1>8. \A j \in Rows : approvals'[j] = approvals[j] /\ j \in Rows'
    BY <1>4 DEF Rows
<1>9. SweepListed'
    BY <1>3, <1>8 DEF DecisionInv, SweepListed, sweepVars
<1> QED
    BY <1>5, <1>7, <1>8, <1>9 DEF DecisionInv

\* A change of one row's status.
LEMMA StatusChange ==
    ASSUME RowsTyped, NEW i \in Rows, NEW s \in Status,
           approvals' = [approvals EXCEPT ![i].Status = s]
    PROVE  /\ RowsTyped' /\ Rows' = Rows
           /\ approvals'[i].Status = s /\ approvals'[i].EndTime = approvals[i].EndTime
           /\ \A j \in Requests : j # i => approvals'[j] = approvals[j]
<1>1. i \in Requests /\ approvals[i] \in TacacsApproval
    BY RowFacts
<1>2. /\ approvals'[i] = [approvals[i] EXCEPT !.Status = s]
      /\ \A j \in Requests : j # i => approvals'[j] = approvals[j]
    BY <1>1 DEF RowsTyped
<1>3. /\ approvals'[i] \in TacacsApproval /\ approvals'[i].Status = s
      /\ approvals'[i].EndTime = approvals[i].EndTime
    BY <1>1, <1>2 DEF TacacsApproval
<1>4. RowsTyped'
    BY <1>2, <1>3 DEF RowsTyped
<1>5. Rows' = Rows
    BY <1>2, <1>3, ApprovalsAssumption DEF Rows
<1> QED
    BY <1>2, <1>3, <1>4, <1>5

\* A decision finds the request pending and leaves it decided.
LEMMA DecideStep ==
    ASSUME DecisionInv, NEW i \in Requests, NEW s \in Status, s # ApprovalUnderReview,
           ApproveWithLock(i, s)
    PROVE  /\ DecisionInv'
           /\ approvals[i].Status = ApprovalUnderReview
           /\ \A j \in Requests : j # i => approvals'[j] = approvals[j]
<1>1. i \in Rows /\ approvals[i].Status = ApprovalUnderReview
    BY DEF ApproveWithLock, Locked, InStatus
<1>2. /\ RowsTyped' /\ Rows' = Rows /\ approvals'[i].Status = s
      /\ \A j \in Requests : j # i => approvals'[j] = approvals[j]
    BY <1>1, StatusChange DEF ApproveWithLock, DecisionInv
<1>3. DecidedOnce'
    <2>1. decisions[i] = 0 /\ decisions' = [decisions EXCEPT ![i] = @ + 1]
        BY <1>1 DEF ApproveWithLock, DecisionInv, DecidedOnce
    <2>2. decisions' \in [Requests -> {0, 1}]
        BY <2>1 DEF DecisionInv, DecidedOnce
    <2>3. ASSUME NEW j \in Requests,
                 approvals'[j] = None \/ approvals'[j].Status = ApprovalUnderReview
          PROVE  decisions'[j] = 0
        <3>1. j # i
            BY <1>1, <1>2, <2>3 DEF Rows
        <3> QED
            BY <1>2, <2>1, <2>3, <3>1 DEF DecisionInv, DecidedOnce
    <2> QED
        BY <2>2, <2>3 DEF DecidedOnce
<1>4. SweepListed'
    <2>1. UNCHANGED <<mutex, missions>>
        BY DEF ApproveWithLock, sweepVars
    <2>2. mutex = "expiry" => i \notin missions
        BY <1>1 DEF DecisionInv, SweepListed, ApprovalUnderReview, ApprovalPass
    <2>3. missions \subseteq Requests
        BY DEF DecisionInv, SweepListed, Rows
    <2> QED
        BY <1>2, <2>1, <2>2, <2>3 DEF DecisionInv, SweepListed
<1> QED
    BY <1>1, <1>2, <1>3, <1>4 DEF DecisionInv

\* A sweep closes the row it looks at, or leaves it.
LEMMA SweepStep ==
    ASSUME DecisionInv, NEW i \in Requests, SweepMission(i)
    PROVE  /\ DecisionInv'
           /\ \A j \in Requests : j # i => approvals'[j] = approvals[j]
           /\ \/ approvals' = approvals
              \/ /\ mutex = "review" /\ i \in missions
                 /\ approvals'[i].Status = TimeoutShutdown
              \/ /\ mutex = "expiry" /\ now > approvals[i].EndTime
                 /\ approvals[i].Status = ApprovalPass
                 /\ approvals'[i].Status = ExpiredShutdown
<1>1. /\ i \in missions /\ missions' = missions \ {i} /\ i \in Rows
      /\ mutex' = Unlock /\ UNCHANGED decisions
    BY DEF SweepMission, DecisionInv, SweepListed
<1>2. mutex' = mutex \/ (mutex' = "free" /\ missions' = {})
    BY <1>1 DEF Unlock
<1>3. CASE approvals' = approvals
    <2>1. DecisionInv'
        BY <1>1, <1>2, <1>3 DEF DecisionInv, RowsTyped, DecidedOnce, SweepListed, Rows
    <2> QED
        BY <1>3, <2>1
<1>4. ASSUME NEW s \in {TimeoutShutdown, ExpiredShutdown},
             approvals' = [approvals EXCEPT ![i].Status = s]
      PROVE  /\ DecisionInv' /\ approvals'[i].Status = s
             /\ \A j \in Requests : j # i => approvals'[j] = approvals[j]
    <2>1. s \in Status /\ s # ApprovalUnderReview
        BY DEF Status, TimeoutShutdown, ExpiredShutdown, ApprovalUnderReview
    <2>2. /\ RowsTyped' /\ Rows' = Rows /\ approvals'[i].Status = s
          /\ \A j \in Requests : j # i => approvals'[j] = approvals[j]
        BY <1>1, <1>4, <2>1, StatusChange DEF DecisionInv
    <2>3. DecidedOnce'
        BY <1>1, <2>1, <2>2 DEF DecisionInv, DecidedOnce, Rows
    <2>4. missions \subseteq Requests
        BY DEF DecisionInv, SweepListed, Rows
    <2>5. SweepListed'
        BY <1>1, <1>2, <2>2, <2>4 DEF DecisionInv, SweepListed
    <2> QED
        BY <2>2, <2>3, <2>5 DEF DecisionInv
<1>5. CASE mutex = "review" /\ ReviewOver(i) /\ approvals' # approvals
    <2>1. approvals' = [approvals EXCEPT ![i].Status = TimeoutShutdown]
        BY <1>5 DEF SweepMission, CloseMission
    <2> QED
        BY <1>1, <1>4, <1>5, <2>1
<1>6. CASE mutex = "expiry" /\ PermissionOver(i) /\ approvals' # approvals
    <2>1. approvals' = [approvals EXCEPT ![i].Status = ExpiredShutdown]
        BY <1>6 DEF SweepMission, CloseMission
    <2>2. approvals[i].Status = ApprovalPass /\ now > approvals[i].EndTime
        BY <1>1, <1>6 DEF DecisionInv, SweepListed, PermissionOver
    <2> QED
        BY <1>4, <1>6, <2>1, <2>2
<1> QED
    BY <1>3, <1>5, <1>6 DEF SweepMission

\* Every other step leaves the requests alone.
LEMMA OtherStep ==
    ASSUME DecisionInv, UNCHANGED <<approvals, decisions>>,
           \/ UNCHANGED sweepVars
           \/ mutex' = "free" /\ missions' = {}
           \/ mutex' = "review" /\ missions' = InStatus(ApprovalUnderReview)
           \/ mutex' = "expiry" /\ missions' = InStatus(ApprovalPass)
    PROVE  DecisionInv'
    BY DEF DecisionInv, RowsTyped, DecidedOnce, SweepListed, Rows, InStatus, sweepVars

-----------------------------------------------------------------------------
(* The theorems *)

\* What a step may do to a request that is not under review.
Stands(i) ==
    approvals[i].Status # ApprovalUnderReview /\ approvals'[i].Status # approvals[i].Status
    => \/ /\ approvals[i].Status = ApprovalPass
          /\ approvals'[i].Status = ExpiredShutdown
          /\ now > approvals[i].EndTime
       \/ /\ mutex = "review" /\ i \in missions
          /\ approvals'[i].Status = TimeoutShutdown

\* Every step keeps the invariant and lets decisions stand.
LEMMA Step ==
    ASSUME DecisionInv, now \in Times, [Next]_vars
    PROVE  DecisionInv' /\ now' \in Times /\ \A i \in Rows : Stands(i)
<1> USE ApprovalsAssumption
<1>1. \A i \in Rows : i \in Requests
    BY DEF Rows
<1>2. now' \in Times
    <2>1. now' = now \/ Tick
        BY DEF Next, CreateUser, Create, Decide, DecideByPage, DecideByCard, ApproveWithLock,
               Sweep, StartReviewSweep, StartExpirySweep, StartSweep, SweepMission,
               PeriodicUserUpdate, UpdateUserInfos, UpdateRoleInfos, UpdateDatabase,
               CheckRolePermissionExpiry, Restart, vars
    <2> QED
        BY <2>1 DEF Tick, Times
<1>3. ASSUME NEW u \in Users, NEW p \in Roles, NEW r \in Periods, Create(u, p, r)
      PROVE  DecisionInv' /\ \A i \in Rows : Stands(i)
    BY <1>3, CreateStep DEF Stands
<1>4. ASSUME NEW i \in Requests, DecideByPage(i) \/ DecideByCard(i)
      PROVE  DecisionInv' /\ \A j \in Rows : Stands(j)
    <2>1. PICK s \in {ApprovalPass, ApprovalFailed, ManualShutdown} : ApproveWithLock(i, s)
        BY <1>4 DEF DecideByPage, DecideByCard
    <2>2. s \in Status /\ s # ApprovalUnderReview
        BY DEF Status, ApprovalPass, ApprovalFailed, ManualShutdown, ApprovalUnderReview
    <2>3. /\ DecisionInv' /\ approvals[i].Status = ApprovalUnderReview
          /\ \A j \in Requests : j # i => approvals'[j] = approvals[j]
        BY <2>1, <2>2, DecideStep
    <2> QED
        BY <1>1, <2>3 DEF Stands
<1>5. ASSUME NEW i \in Requests, SweepMission(i)
      PROVE  DecisionInv' /\ \A j \in Rows : Stands(j)
    <2>1. i \in missions
        BY <1>5 DEF SweepMission
    <2> QED
        BY <1>1, <1>5, <2>1, SweepStep DEF Stands
<1>6. ASSUME UNCHANGED <<approvals, decisions>>, DecisionInv'
      PROVE  DecisionInv' /\ \A i \in Rows : Stands(i)
    BY <1>6 DEF Stands
<1>7. CASE StartReviewSweep \/ StartExpirySweep
    <2>1. /\ UNCHANGED <<approvals, decisions>>
          /\ \/ mutex' = "review" /\ missions' = InStatus(ApprovalUnderReview)
             \/ mutex' = "expiry" /\ missions' = InStatus(ApprovalPass)
        BY <1>7 DEF StartReviewSweep, StartExpirySweep, StartSweep, requestVars
    <2> QED
        BY <1>2, <1>6, <2>1, OtherStep
<1>8. CASE Restart
    <2>1. UNCHANGED <<approvals, decisions>> /\ mutex' = "free" /\ missions' = {}
        BY <1>8 DEF Restart, requestVars
    <2> QED
        BY <1>2, <1>6, <2>1, OtherStep
<1>9. CASE \/ \E u \in Users : CreateUser(u)
           \/ PeriodicUserUpdate \/ CheckRolePermissionExpiry \/ Tick \/ UNCHANGED vars
    <2>1. UNCHANGED <<approvals, decisions, sweepVars>>
        BY <1>9
        DEF CreateUser, PeriodicUserUpdate, UpdateUserInfos, UpdateRoleInfos, UpdateDatabase,
            CheckRolePermissionExpiry, Tick, requestVars, sweepVars, vars
    <2> QED
        BY <1>2, <1>6, <2>1, OtherStep
<1> QED
    BY <1>2, <1>3, <1>4, <1>5, <1>7, <1>8, <1>9 DEF Next, Decide, Sweep

\* The invariant holds in every reachable state.
LEMMA Inductive == Spec => [](DecisionInv /\ now \in Times)
<1> DEFINE Inv == DecisionInv /\ now \in Times
<1>1. Init => Inv
    <2> SUFFICES ASSUME Init PROVE DecisionInv /\ now \in Times
        OBVIOUS
    <2>1. Rows = {} /\ now \in Times
        BY ApprovalsAssumption DEF Init, Rows, Times
    <2> QED
        BY <2>1 DEF Init, DecisionInv, RowsTyped, DecidedOnce, SweepListed
<1>2. Inv /\ [Next]_vars => Inv'
    BY Step
<1> QED
    BY <1>1, <1>2, PTL DEF Spec

\* Administrators by page and card and the withdrawing applicant together decide
\* a request once at most, for any number of them (ApproveWithLock).
THEOREM RequestsAreDecidedOnce == Spec => []OneDecision
<1>1. DecisionInv => OneDecision
    BY DEF DecisionInv, DecidedOnce, OneDecision
<1> QED
    BY <1>1, Inductive, PTL

\* What was decided stands: it ends with the granted time, or is overwritten by a
\* review sweep that listed the request while it was pending.
THEOREM DecidedRequestsStand == Spec => DecisionsStand
<1> DEFINE Kept == \A i \in Rows : Stands(i)
<1>1. DecisionInv /\ now \in Times /\ [Next]_vars => [Kept]_vars
    BY Step
<1>2. Spec => [][Kept]_vars
    BY <1>1, Inductive, PTL DEF Spec
<1> QED
    BY <1>2 DEF DecisionsStand, Stands

-----------------------------------------------------------------------------
(* The daemon: merged ranges, the role column and the warnings *)

RowsProper == \A i \in Rows : approvals[i].StartTime < approvals[i].EndTime

PassedRows == passed \subseteq Rows /\ InStatus(ApprovalPass) \subseteq passed

\* Ranges with gaps between them in which nobody holds what was not granted.
Granted(m, ranges) ==
    /\ m \in Seq(Period) /\ Separated(m)
    /\ \A k \in 1 .. Len(m) : m[k].StartTime <= m[k].EndTime
    /\ \A k \in 1 .. Len(m), t \in Nat :
          /\ AfterStart(m[k], t) => \E r \in ranges : AfterStart(r, t)
          /\ BeforeEnd(m[k], t) => \E r \in ranges : BeforeEnd(r, t)

\* Whatever the daemon has read lately, its ranges were granted by requests that
\* an administrator passed.
RangesGranted ==
    /\ DOMAIN permissions \subseteq Users
    /\ \A u \in DOMAIN permissions : \A p \in DOMAIN permissions[u] :
          p \in Roles /\ Granted(permissions[u][p], RangesOf(passed, u, p))

OthersTyped ==
    /\ mutex \in {"free", "review", "expiry"} /\ (mutex = "free" <=> missions = {})
    /\ role \in PartialMap(SUBSET Roles) /\ userInfos \in PartialMap(SUBSET Roles)
    /\ task \in {"users", "roles", "database"}
    /\ \A a \in alarms : a.sent \in Times /\ a.key.user \in Users
    /\ faults \in 0 .. MaxFaults

DaemonInv == RowsProper /\ PassedRows /\ RangesGranted /\ OthersTyped

\* What no step changes in a request.
Kept(i) ==
    /\ i \in Rows'
    /\ approvals'[i].User = approvals[i].User
    /\ approvals'[i].ApprovalPermissions = approvals[i].ApprovalPermissions
    /\ approvals'[i].StartTime = approvals[i].StartTime
    /\ approvals'[i].EndTime = approvals[i].EndTime

\* A change of status changes nothing else.
LEMMA StatusKeeps ==
    ASSUME RowsTyped, NEW i \in Rows, NEW s \in Status,
           approvals' = [approvals EXCEPT ![i].Status = s]
    PROVE  \A j \in Rows : Kept(j)
<1>1. i \in Requests /\ approvals[i] \in TacacsApproval
    BY RowFacts
<1>2. approvals'[i] = [approvals[i] EXCEPT !.Status = s]
    BY <1>1 DEF RowsTyped
<1>3. Rows' = Rows /\ \A j \in Requests : j # i => approvals'[j] = approvals[j]
    BY StatusChange
<1>4. Kept(i)
    BY <1>1, <1>2, <1>3 DEF Kept, TacacsApproval
<1>5. \A j \in Rows : j # i => Kept(j)
    BY <1>3 DEF Kept, Rows
<1> QED
    BY <1>4, <1>5

\* No step changes who asked for what, and only an administrator makes a request
\* pass.
LEMMA RowsStep ==
    ASSUME DecisionInv, now \in Times, RowsProper, PassedRows, [Next]_vars
    PROVE  /\ \A i \in Rows : Kept(i)
           /\ RowsProper' /\ PassedRows' /\ passed \subseteq passed'
<1> USE ApprovalsAssumption
<1>1. RowsTyped /\ \A i \in Rows : i \in Requests /\ approvals[i] # None
    BY DEF DecisionInv, Rows
<1>2. ASSUME NEW u \in Users, NEW p \in Roles, NEW r \in Periods, Create(u, p, r)
      PROVE  /\ \A i \in Rows : Kept(i)
             /\ RowsProper' /\ PassedRows' /\ passed \subseteq passed'
    <2>1. PICK i \in Requests \ Rows :
              approvals' = [approvals EXCEPT ![i] =
                    [User |-> u, ApprovalPermissions |-> p, CreateTime |-> now,
                     StartTime |-> r.StartTime, EndTime |-> r.EndTime,
                     Status |-> ApprovalUnderReview]]
        BY <1>2 DEF Create
    <2>2. /\ approvals'[i].StartTime = r.StartTime /\ approvals'[i].EndTime = r.EndTime
          /\ approvals'[i].Status = ApprovalUnderReview
          /\ \A j \in Requests : j # i => approvals'[j] = approvals[j]
        BY <1>1, <2>1 DEF RowsTyped
    <2>3. r.StartTime < r.EndTime /\ passed' = passed
        BY <1>2 DEF Create, ValidRange
    <2>4. \A j \in Rows : Kept(j)
        BY <1>1, <2>2 DEF Kept, Rows
    <2>5. \A j \in Rows' : j = i \/ j \in Rows
        BY <2>2 DEF Rows
    <2>6. RowsProper'
        BY <1>1, <2>2, <2>3, <2>5 DEF RowsProper
    <2>7. InStatus(ApprovalPass)' \subseteq InStatus(ApprovalPass)
        BY <1>1, <2>2, <2>5 DEF InStatus, ApprovalUnderReview, ApprovalPass
    <2> QED
        BY <2>3, <2>4, <2>6, <2>7 DEF PassedRows, Kept
<1>3. ASSUME NEW i \in Rows, NEW s \in Status, approvals' = [approvals EXCEPT ![i].Status = s],
             passed' = IF s = ApprovalPass THEN passed \cup {i} ELSE passed
      PROVE  /\ \A j \in Rows : Kept(j)
             /\ RowsProper' /\ PassedRows' /\ passed \subseteq passed'
    <2>1. \A j \in Rows : Kept(j)
        BY <1>1, <1>3, StatusKeeps
    <2>2. /\ Rows' = Rows /\ approvals'[i].Status = s
          /\ \A j \in Requests : j # i => approvals'[j] = approvals[j]
        BY <1>1, <1>3, StatusChange
    <2>3. RowsProper'
        BY <2>1, <2>2 DEF RowsProper, Kept
    <2>4. InStatus(ApprovalPass)' \subseteq passed'
        BY <1>1, <1>3, <2>2 DEF InStatus, PassedRows
    <2> QED
        BY <1>3, <2>1, <2>2, <2>3, <2>4 DEF PassedRows
<1>4. ASSUME NEW i \in Requests, DecideByPage(i) \/ DecideByCard(i)
      PROVE  /\ \A j \in Rows : Kept(j)
             /\ RowsProper' /\ PassedRows' /\ passed \subseteq passed'
    <2>1. PICK s \in {ApprovalPass, ApprovalFailed, ManualShutdown} : ApproveWithLock(i, s)
        BY <1>4 DEF DecideByPage, DecideByCard
    <2>2. s \in Status
        BY DEF Status
    <2>3. i \in Rows
        BY <2>1 DEF ApproveWithLock, Locked, InStatus
    <2>4. /\ approvals' = [approvals EXCEPT ![i].Status = s]
          /\ passed' = IF s = ApprovalPass THEN passed \cup {i} ELSE passed
        BY <2>1 DEF ApproveWithLock
    <2> QED
        BY <1>3, <2>2, <2>3, <2>4
<1>5. ASSUME UNCHANGED <<approvals, passed>>
      PROVE  /\ \A j \in Rows : Kept(j)
             /\ RowsProper' /\ PassedRows' /\ passed \subseteq passed'
    BY <1>5 DEF RowsProper, PassedRows, Kept, Rows, InStatus
<1>6. ASSUME NEW i \in Requests, SweepMission(i)
      PROVE  /\ \A j \in Rows : Kept(j)
             /\ RowsProper' /\ PassedRows' /\ passed \subseteq passed'
    <2>1. i \in Rows /\ passed' = passed
        BY <1>6 DEF SweepMission, DecisionInv, SweepListed
    <2>2. \/ approvals' = approvals
          \/ \E s \in {TimeoutShutdown, ExpiredShutdown} :
                approvals' = [approvals EXCEPT ![i].Status = s]
        BY <1>6 DEF SweepMission, CloseMission
    <2>3. CASE approvals' = approvals
        BY <1>5, <2>1, <2>3
    <2>4. ASSUME NEW s \in {TimeoutShutdown, ExpiredShutdown},
                 approvals' = [approvals EXCEPT ![i].Status = s]
          PROVE  /\ \A j \in Rows : Kept(j)
                 /\ RowsProper' /\ PassedRows' /\ passed \subseteq passed'
        <3>1. s \in Status /\ s # ApprovalPass
            BY DEF Status, TimeoutShutdown, ExpiredShutdown, ApprovalPass
        <3> QED
            BY <1>3, <2>1, <2>4, <3>1
    <2> QED
        BY <2>2, <2>3, <2>4
<1>7. CASE \/ \E u \in Users : CreateUser(u)
           \/ StartReviewSweep \/ StartExpirySweep
           \/ PeriodicUserUpdate \/ CheckRolePermissionExpiry \/ Restart \/ Tick \/ UNCHANGED vars
    <2>1. UNCHANGED <<approvals, passed>>
        BY <1>7
        DEF CreateUser, StartReviewSweep, StartExpirySweep, StartSweep, PeriodicUserUpdate,
            UpdateUserInfos, UpdateRoleInfos, UpdateDatabase, CheckRolePermissionExpiry,
            Restart, Tick, requestVars, vars
    <2> QED
        BY <1>5, <2>1
<1> QED
    BY <1>2, <1>4, <1>6, <1>7 DEF Next, Decide, Sweep

\* A grant stays one when more requests have passed.
LEMMA GrantedGrows ==
    ASSUME NEW m, NEW R, NEW S, Granted(m, R), R \subseteq S
    PROVE  Granted(m, S)
    BY DEF Granted

\* The ranges that have passed stay.
LEMMA RangesGrow ==
    ASSUME DecisionInv, PassedRows, passed \subseteq passed', \A i \in Rows : Kept(i),
           NEW u, NEW p
    PROVE  RangesOf(passed, u, p) \subseteq RangesOf(passed, u, p)'
<1>1. ASSUME NEW i \in passed, approvals[i].User = u, approvals[i].ApprovalPermissions = p
      PROVE  [StartTime |-> approvals[i].StartTime, EndTime |-> approvals[i].EndTime]
                 \in RangesOf(passed, u, p)'
    <2>1. i \in passed' /\ Kept(i)
        BY DEF PassedRows
    <2> QED
        BY <1>1, <2>1 DEF Kept, RangesOf
<1> QED
    BY <1>1 DEF RangesOf

\* The requests of a role of a user are finitely many proper periods.
LEMMA RangesTyped ==
    ASSUME RowsTyped, RowsProper, NEW S \in SUBSET Rows, NEW u, NEW p
    PROVE  LET R == RangesOf(S, u, p) IN
           R \subseteq Period /\ IsFiniteSet(R) /\ \A r \in R : r.StartTime < r.EndTime
<1> DEFINE J == {j \in S : approvals[j].User = u /\ approvals[j].ApprovalPermissions = p}
           range(i) == [StartTime |-> approvals[i].StartTime, EndTime |-> approvals[i].EndTime]
<1>1. IsFiniteSet(J)
    <2>1. IsFiniteSet(Requests)
        BY ApprovalsAssumption, FS_Interval DEF Requests
    <2>2. J \subseteq Requests
        BY DEF Rows
    <2> QED
        BY <2>1, <2>2, FS_Subset
<1>2. RangesOf(S, u, p) = {range(i) : i \in J}
    BY DEF RangesOf
<1>3. IsFiniteSet({range(i) : i \in J})
    <2> DEFINE T == {range(i) : i \in J}
               f == [i \in J |-> range(i)]
    <2>1. f \in Surjection(J, T)
        <3> HIDE DEF J, range
        <3>1. f \in [J -> T] /\ \A t \in T : \E i \in J : f[i] = t
            OBVIOUS
        <3> QED
            BY <3>1 DEF Surjection
    <2> HIDE DEF J, T, f
    <2> QED
        BY <1>1, <2>1, FS_Surjection DEF T
<1>4. ASSUME NEW i \in J
      PROVE  range(i) \in Period /\ range(i).StartTime < range(i).EndTime
    <2>1. i \in Rows /\ approvals[i] \in TacacsApproval
        BY RowFacts
    <2>2. approvals[i].StartTime \in Times /\ approvals[i].EndTime \in Ends
        BY <2>1 DEF TacacsApproval
    <2>3. approvals[i].StartTime < approvals[i].EndTime
        BY <2>1 DEF RowsProper
    <2> HIDE DEF J
    <2> QED
        BY <2>2, <2>3 DEF Period
<1> QED
    BY <1>2, <1>3, <1>4

\* UpdateRoleInfos grants nothing that was not passed.
LEMMA RolesStep ==
    ASSUME DecisionInv, DaemonInv
    PROVE  /\ DOMAIN PermissionsInfo \subseteq Users
           /\ \A u \in DOMAIN PermissionsInfo : \A p \in DOMAIN PermissionsInfo[u] :
                 p \in Roles /\ Granted(PermissionsInfo[u][p], RangesOf(passed, u, p))
<1> DEFINE rows == InStatus(ApprovalPass)
           holders == {approvals[i].User : i \in rows} \cap DOMAIN userInfos
           levels(u) == {approvals[i].ApprovalPermissions : i \in {j \in rows : approvals[j].User = u}}
<1>1. rows \subseteq Rows /\ rows \subseteq passed
    BY DEF InStatus, DaemonInv, PassedRows
<1>2. RowsTyped /\ RowsProper
    BY DEF DecisionInv, DaemonInv
<1>3. \A i \in rows : approvals[i].User \in Users /\ approvals[i].ApprovalPermissions \in Roles
    BY <1>1, <1>2, RowFacts DEF TacacsApproval
<1>4. PermissionsInfo = [u \in holders |-> [p \in levels(u) |-> mergeRangeTimes(RangesOf(rows, u, p))]]
    BY DEF PermissionsInfo
<1>5. holders \subseteq Users /\ \A u : levels(u) \subseteq Roles
    BY <1>3
<1>6. ASSUME NEW u, NEW p
      PROVE  Granted(mergeRangeTimes(RangesOf(rows, u, p)), RangesOf(passed, u, p))
    <2> DEFINE R == RangesOf(rows, u, p)
               m == mergeRangeTimes(R)
    <2>1. R \subseteq Period /\ IsFiniteSet(R) /\ \A r \in R : r.StartTime < r.EndTime
        BY <1>1, <1>2, RangesTyped
    <2>2. R \subseteq RangesOf(passed, u, p)
        BY <1>1 DEF RangesOf
    <2>3. Period \subseteq Span
        BY ApprovalsAssumption DEF Period, Span, Times, Ends
    <2> HIDE DEF R, rows
    <2>4. R \in SUBSET Span /\ \A r \in R : r.StartTime <= r.EndTime
        <3>1. \A r \in R : r.StartTime \in Nat /\ r.EndTime \in Nat
            BY <2>1, <2>3, SpanFacts
        <3> QED
            BY <2>1, <2>3, <3>1
    <2>5. /\ m \in Seq(Span) /\ Separated(m)
          /\ \A k \in 1 .. Len(m) : m[k].StartTime <= m[k].EndTime
          /\ \A k \in 1 .. Len(m) : \E q, r \in R :
                m[k].StartTime = q.StartTime /\ m[k].EndTime = r.EndTime
          /\ \A k \in 1 .. Len(m), t \in Nat :
                /\ AfterStart(m[k], t) => \E r \in R : AfterStart(r, t)
                /\ BeforeEnd(m[k], t) => \E r \in R : BeforeEnd(r, t)
        BY <2>1, <2>4, MergedRanges
    <2> HIDE DEF m
    <2>6. m \in Seq(Period)
        <3>1. \A k \in 1 .. Len(m) : m[k] \in Period
            <4> SUFFICES ASSUME NEW k \in 1 .. Len(m) PROVE m[k] \in Period
                OBVIOUS
            <4>1. PICK q \in R, r \in R : m[k].StartTime = q.StartTime /\ m[k].EndTime = r.EndTime
                BY <2>5
            <4>2. q.StartTime \in Times /\ r.EndTime \in Ends
                BY <2>1 DEF Period
            <4>3. m[k] \in Span
                BY <2>5
            <4> QED
                BY <4>1, <4>2, <4>3 DEF Span, Period
        <3> QED
            BY <2>5, <3>1
    <2>7. Granted(m, R)
        BY <2>5, <2>6 DEF Granted
    <2>8. Granted(m, RangesOf(passed, u, p))
        BY <2>2, <2>7, GrantedGrows
    <2> QED
        BY <2>8 DEF m, R
<1> HIDE DEF holders, levels, rows
<1> QED
    BY <1>4, <1>5, <1>6

\* An empty map is a map.
LEMMA EmptyMaps ==
    /\ Empty \in PartialMap(SUBSET Roles)
    /\ DOMAIN NoPermissions = {}
<1>1. Empty \in [{} -> SUBSET Roles]
    BY DEF Empty
<1> QED
    BY <1>1 DEF PartialMap, NoPermissions

\* What a map from some users is.
LEMMA MapFacts ==
    ASSUME NEW T, NEW f
    PROVE  f \in PartialMap(T) <=> \E D \in SUBSET Users : f \in [D -> T]
    BY DEF PartialMap

\* What the daemon may change its view of the permissions to.
LEMMA PermissionsStep ==
    ASSUME DecisionInv, DaemonInv, [Next]_vars, PassedRows', passed \subseteq passed',
           \A i \in Rows : Kept(i)
    PROVE  RangesGranted'
<1>1. \/ permissions' = permissions
      \/ permissions' = NoPermissions
      \/ permissions' = PermissionsInfo /\ UpdateRoleInfos
    BY DEF Next, CreateUser, Create, Decide, DecideByPage, DecideByCard, ApproveWithLock,
           Sweep, StartReviewSweep, StartExpirySweep, StartSweep, SweepMission,
           PeriodicUserUpdate, UpdateUserInfos, UpdateRoleInfos, UpdateDatabase,
           CheckRolePermissionExpiry, Restart, Tick, daemonVars, vars
<1>2. ASSUME NEW permissionsNow, DOMAIN permissionsNow \subseteq Users,
             \A u \in DOMAIN permissionsNow : \A p \in DOMAIN permissionsNow[u] :
                 p \in Roles /\ Granted(permissionsNow[u][p], RangesOf(passed, u, p)),
             permissions' = permissionsNow
      PROVE  RangesGranted'
    <2>1. ASSUME NEW u \in DOMAIN permissionsNow, NEW p \in DOMAIN permissionsNow[u]
          PROVE  p \in Roles /\ Granted(permissionsNow[u][p], RangesOf(passed, u, p)')
        <3>1. RangesOf(passed, u, p) \subseteq RangesOf(passed, u, p)'
            BY RangesGrow DEF DaemonInv
        <3> QED
            BY <1>2, <3>1, GrantedGrows
    <2>2. \A m, R : Granted(m, R)' <=> Granted(m, R)
        BY DEF Granted
    <2> QED
        BY <1>2, <2>1 DEF RangesGranted, Granted
<1>3. CASE permissions' = permissions
    BY <1>2, <1>3 DEF DaemonInv, RangesGranted
<1>4. CASE permissions' = NoPermissions
    BY <1>4, EmptyMaps DEF RangesGranted
<1>5. CASE permissions' = PermissionsInfo
    BY <1>2, <1>5, RolesStep
<1> QED
    BY <1>1, <1>3, <1>4, <1>5

\* The ranges that hold now: one at most.
LEMMA OneCurrent ==
    ASSUME RangesGranted, now \in Times, NEW u \in DOMAIN permissions,
           NEW p \in DOMAIN permissions[u]
    PROVE  /\ \A k, l \in Current(u, p) : k = l
           /\ \A k \in Current(u, p) :
                 /\ k \in 1 .. Len(permissions[u][p]) /\ permissions[u][p][k] \in Period
                 /\ permissions[u][p][k].StartTime < now /\ now < permissions[u][p][k].EndTime
<1> DEFINE m == permissions[u][p]
<1>1. m \in Seq(Period) /\ Separated(m)
    BY DEF RangesGranted, Granted
<1> HIDE DEF m
<1>2. DOMAIN m = 1 .. Len(m) /\ \A k \in 1 .. Len(m) : m[k] \in Period
    BY <1>1
<1>3. \A r \in Period : r.StartTime \in Nat /\ r.EndTime \in Nat
    BY ApprovalsAssumption DEF Period, Times, Ends
<1>4. now \in Nat
    BY ApprovalsAssumption DEF Times
<1>5. \A k \in Current(u, p) : k \in 1 .. Len(m) /\ m[k].StartTime < now /\ now < m[k].EndTime
    BY <1>2 DEF Current, Inside, m
<1>6. ASSUME NEW k \in Current(u, p), NEW l \in Current(u, p) PROVE ~(k < l)
    <2>1. /\ k \in 1 .. Len(m) /\ l \in 1 .. Len(m)
          /\ m[k].EndTime \in Nat /\ m[l].StartTime \in Nat
          /\ now < m[k].EndTime /\ m[l].StartTime < now
        BY <1>2, <1>3, <1>5
    <2> QED
        BY <1>1, <1>4, <2>1 DEF Separated
<1>7. ASSUME NEW k \in Current(u, p), NEW l \in Current(u, p) PROVE k = l
    <2>1. k \in Nat /\ l \in Nat
        BY <1>1, <1>5
    <2> QED
        BY <1>6, <2>1
<1> QED
    BY <1>2, <1>5, <1>7 DEF m

\* Every step keeps the rest of the state well typed.
LEMMA OthersStep ==
    ASSUME DecisionInv, DaemonInv, now \in Times, [Next]_vars
    PROVE  OthersTyped'
<1> USE ApprovalsAssumption DEF OthersTyped
<1>1. OthersTyped
    BY DEF DaemonInv
<1>2. ASSUME NEW u \in Users, CreateUser(u) PROVE OthersTyped'
    <2>1. role' \in PartialMap(SUBSET Roles)
        <3>1. PICK D \in SUBSET Users : role \in [D -> SUBSET Roles]
            BY <1>1, MapFacts
        <3>2. role' \in [D \cup {u} -> SUBSET Roles]
            BY <1>2, <3>1 DEF CreateUser
        <3> QED
            BY <3>2, MapFacts
    <2> QED
        BY <1>1, <1>2, <2>1 DEF CreateUser, sweepVars, daemonVars
<1>3. CASE UpdateDatabase
    <2>1. \A u : getCurrentUserRoleAt(u) \in SUBSET Roles
        BY DEF getCurrentUserRoleAt, DaemonInv, RangesGranted
    <2>2. role' \in PartialMap(SUBSET Roles)
        <3>1. PICK D \in SUBSET Users : role \in [D -> SUBSET Roles]
            BY <1>1, MapFacts
        <3>2. role' = role \/ role' = [u \in DOMAIN role |->
                    IF u \in DOMAIN userInfos /\ userInfos[u] # getCurrentUserRoleAt(u)
                    THEN getCurrentUserRoleAt(u) ELSE role[u]]
            BY <1>3 DEF UpdateDatabase
        <3>3. role' \in [D -> SUBSET Roles]
            BY <2>1, <3>1, <3>2
        <3> QED
            BY <3>3, MapFacts
    <2>3. faults' \in 0 .. MaxFaults
        BY <1>1, <1>3 DEF UpdateDatabase, Fault
    <2> QED
        BY <1>1, <1>3, <2>2, <2>3 DEF UpdateDatabase, sweepVars
<1>4. ASSUME NEW i \in Requests, SweepMission(i) PROVE OthersTyped'
    <2>1. mutex # "free" /\ mutex' = Unlock
        BY <1>1, <1>4 DEF SweepMission
    <2>2. mutex' \in {"free", "review", "expiry"} /\ (mutex' = "free" <=> missions' = {})
        BY <1>1, <2>1 DEF Unlock
    <2>3. faults' \in 0 .. MaxFaults
        BY <1>1, <1>4 DEF SweepMission, CloseMission, Fault
    <2> QED
        BY <1>1, <1>4, <2>2, <2>3 DEF SweepMission, daemonVars
<1>5. CASE CheckRolePermissionExpiry
    <2>1. \A a \in Pending : a.user \in Users
        BY DEF Pending, Alerts, DaemonInv, RangesGranted
    <2>2. \A a \in alarms' : a.sent \in Times /\ a.key.user \in Users
        BY <1>1, <1>5, <2>1 DEF CheckRolePermissionExpiry
    <2> QED
        BY <1>1, <1>5, <2>2 DEF CheckRolePermissionExpiry, sweepVars, daemonVars
<1>6. CASE StartReviewSweep \/ StartExpirySweep
    BY <1>1, <1>6 DEF StartReviewSweep, StartExpirySweep, StartSweep, daemonVars
<1>7. CASE UpdateUserInfos \/ UpdateRoleInfos
    BY <1>1, <1>7 DEF UpdateUserInfos, UpdateRoleInfos, Fault, sweepVars
<1>8. CASE Restart
    BY <1>1, <1>8, EmptyMaps DEF Restart, Fault
<1>9. CASE Tick
    BY <1>1, <1>9 DEF Tick, sweepVars, daemonVars
<1>10. ASSUME NEW u \in Users, NEW p \in Roles, NEW r \in Periods, Create(u, p, r)
       PROVE  OthersTyped'
    BY <1>1, <1>10 DEF Create, sweepVars, daemonVars
<1>11. ASSUME NEW i \in Requests, DecideByPage(i) \/ DecideByCard(i)
       PROVE  OthersTyped'
    BY <1>1, <1>11 DEF DecideByPage, DecideByCard, ApproveWithLock, sweepVars, daemonVars
<1>12. CASE UNCHANGED vars
    BY <1>1, <1>12 DEF vars, sweepVars, daemonVars
<1> QED
    BY <1>2, <1>3, <1>4, <1>5, <1>6, <1>7, <1>8, <1>9, <1>10, <1>11, <1>12
    DEF Next, Decide, Sweep, PeriodicUserUpdate

\* A step gives a role only inside the ranges granted.
GivenInside ==
    \A u \in DOMAIN role \cap DOMAIN role' : \A p \in role'[u] \ role[u] :
        Covered(RangesOf(Passed(u, p), u, p), now)

\* Only UpdateDatabase gives roles to users that exist.
LEMMA RolesGivenInside ==
    ASSUME DecisionInv, DaemonInv, now \in Times, [Next]_vars
    PROVE  GivenInside
<1> SUFFICES ASSUME NEW u \in DOMAIN role \cap DOMAIN role', NEW p \in role'[u] \ role[u]
             PROVE  Covered(RangesOf(Passed(u, p), u, p), now)
    BY DEF GivenInside
<1>1. \/ role' = role \/ UpdateDatabase
      \/ \E v \in Users : CreateUser(v)
    BY DEF Next, Create, Decide, DecideByPage, DecideByCard, ApproveWithLock,
           Sweep, StartReviewSweep, StartExpirySweep, StartSweep, SweepMission,
           PeriodicUserUpdate, UpdateUserInfos, UpdateRoleInfos,
           CheckRolePermissionExpiry, Restart, Tick, vars
<1>2. UpdateDatabase
    <2>1. ASSUME NEW v \in Users, CreateUser(v) PROVE role'[u] = role[u]
        BY <2>1 DEF CreateUser
    <2> QED
        BY <1>1, <2>1
<1>3. p \in getCurrentUserRoleAt(u)
    BY <1>2 DEF UpdateDatabase
<1>4. u \in DOMAIN permissions /\ p \in DOMAIN permissions[u] /\ Current(u, p) # {}
    BY <1>3 DEF getCurrentUserRoleAt
<1>5. PICK k \in Current(u, p) : TRUE
    BY <1>4
<1>6. RangesGranted
    BY DEF DaemonInv
<1> DEFINE m == permissions[u][p]
<1>7. /\ k \in 1 .. Len(m) /\ m[k] \in Period
      /\ m[k].StartTime < now /\ now < m[k].EndTime
    BY <1>4, <1>6, OneCurrent
<1>8. now \in Nat /\ m[k].StartTime \in Nat /\ m[k].EndTime \in Nat
    BY <1>7, ApprovalsAssumption DEF Period, Times, Ends
<1>9. AfterStart(m[k], now) /\ BeforeEnd(m[k], now)
    BY <1>7, <1>8 DEF AfterStart, BeforeEnd
<1>10. Granted(m, RangesOf(passed, u, p))
    BY <1>4, <1>6 DEF RangesGranted
<1>11. /\ \E r \in RangesOf(passed, u, p) : AfterStart(r, now)
       /\ \E r \in RangesOf(passed, u, p) : BeforeEnd(r, now)
    BY <1>7, <1>8, <1>9, <1>10 DEF Granted
<1>12. RangesOf(passed, u, p) = RangesOf(Passed(u, p), u, p)
    BY DEF RangesOf, Passed
<1> QED
    BY <1>11, <1>12 DEF Covered, AfterStart, BeforeEnd

\* A warning is of the end of a range that no other range continues.
NoneContinued ==
    \A a \in alarms' \ alarms :
         \A k \in DOMAIN permissions[a.key.user][a.key.level] :
            LET r == permissions[a.key.user][a.key.level][k] IN
            ~(r.StartTime <= a.key.expireAt /\ a.key.expireAt < r.EndTime)

\* Only CheckRolePermissionExpiry warns.
LEMMA WarningsAreOfEnds ==
    ASSUME DecisionInv, DaemonInv, now \in Times, [Next]_vars
    PROVE  NoneContinued
<1>1. alarms' \subseteq alarms \/ CheckRolePermissionExpiry
    BY DEF Next, CreateUser, Create, Decide, DecideByPage, DecideByCard, ApproveWithLock,
           Sweep, StartReviewSweep, StartExpirySweep, StartSweep, SweepMission,
           PeriodicUserUpdate, UpdateUserInfos, UpdateRoleInfos, UpdateDatabase,
           Restart, Tick, vars
<1> SUFFICES ASSUME CheckRolePermissionExpiry, NEW a \in alarms' \ alarms,
                    NEW l \in DOMAIN permissions[a.key.user][a.key.level]
             PROVE  LET r == permissions[a.key.user][a.key.level][l] IN
                    ~(r.StartTime <= a.key.expireAt /\ a.key.expireAt < r.EndTime)
    BY <1>1 DEF NoneContinued
<1>2. a.key \in Alerts
    BY DEF CheckRolePermissionExpiry, Pending
<1>3. PICK u \in DOMAIN permissions :
          \E p \in DOMAIN permissions[u] : \E k \in Current(u, p) :
          a.key = [user |-> u, level |-> p, expireAt |-> permissions[u][p][k].EndTime,
                   tier |-> Tier(permissions[u][p][k].EndTime - now)]
    BY <1>2 DEF Alerts
<1>4. PICK p \in DOMAIN permissions[u] : \E k \in Current(u, p) :
          a.key = [user |-> u, level |-> p, expireAt |-> permissions[u][p][k].EndTime,
                   tier |-> Tier(permissions[u][p][k].EndTime - now)]
    BY <1>3
<1>5. PICK k \in Current(u, p) :
          a.key = [user |-> u, level |-> p, expireAt |-> permissions[u][p][k].EndTime,
                   tier |-> Tier(permissions[u][p][k].EndTime - now)]
    BY <1>4
<1> DEFINE m == permissions[u][p]
<1>6. a.key.user = u /\ a.key.level = p /\ a.key.expireAt = m[k].EndTime
    BY <1>5
<1>7. RangesGranted
    BY DEF DaemonInv
<1>8. /\ m \in Seq(Period) /\ Separated(m)
      /\ \A i \in 1 .. Len(m) : m[i].StartTime <= m[i].EndTime
    BY <1>7 DEF RangesGranted, Granted
<1>9. k \in 1 .. Len(m)
    BY <1>7, OneCurrent
<1> HIDE DEF m
<1>10. l \in 1 .. Len(m)
    BY <1>6, <1>8 DEF m
<1>11. \A i \in 1 .. Len(m) : m[i].StartTime \in Nat /\ m[i].EndTime \in Nat
    <2>1. \A i \in 1 .. Len(m) : m[i] \in Period
        BY <1>8
    <2> QED
        BY <2>1, ApprovalsAssumption DEF Period, Times, Ends
<1>12. ~(m[l].StartTime <= m[k].EndTime /\ m[k].EndTime < m[l].EndTime)
    <2>1. CASE l = k
        BY <1>9, <1>11, <2>1
    <2>2. CASE k < l
        BY <1>8, <1>9, <1>10, <1>11, <2>2 DEF Separated
    <2>3. CASE l < k
        <3>1. m[l].EndTime < m[k].StartTime /\ m[k].StartTime <= m[k].EndTime
            BY <1>8, <1>9, <1>10, <2>3 DEF Separated
        <3> QED
            BY <1>9, <1>10, <1>11, <3>1
    <2>4. k \in Nat /\ l \in Nat
        BY <1>8, <1>9, <1>10
    <2> QED
        BY <2>1, <2>2, <2>3, <2>4
<1> QED
    BY <1>6, <1>12 DEF m

\* The invariant of the daemon holds in every reachable state.
LEMMA DaemonInductive == Spec => [](DecisionInv /\ now \in Times /\ DaemonInv)
<1> DEFINE Base == DecisionInv /\ now \in Times
<1>1. Init => DaemonInv
    <2> SUFFICES ASSUME Init PROVE DaemonInv
        OBVIOUS
    <2>1. Rows = {} /\ passed = {}
        BY DEF Init, Rows
    <2>2. RowsProper /\ PassedRows /\ RangesGranted
        BY <2>1, EmptyMaps DEF RowsProper, PassedRows, RangesGranted, InStatus, Init
    <2>3. OthersTyped
        BY EmptyMaps, ApprovalsAssumption DEF Init, OthersTyped
    <2> QED
        BY <2>2, <2>3 DEF DaemonInv
<1>2. Base /\ DaemonInv /\ [Next]_vars => DaemonInv'
    <2> SUFFICES ASSUME Base, DaemonInv, [Next]_vars PROVE DaemonInv'
        OBVIOUS
    <2>1. /\ \A i \in Rows : Kept(i)
          /\ RowsProper' /\ PassedRows' /\ passed \subseteq passed'
        BY RowsStep DEF DaemonInv
    <2>2. RangesGranted'
        BY <2>1, PermissionsStep
    <2>3. OthersTyped'
        BY OthersStep
    <2> QED
        BY <2>1, <2>2, <2>3 DEF DaemonInv
<1>3. Spec => []Base
    BY Inductive
<1> HIDE DEF Base
<1>4. Spec => [](Base /\ DaemonInv)
    BY <1>1, <1>2, <1>3, PTL DEF Spec
<1> QED
    BY <1>4 DEF Base

\* Every reachable state is well typed: at most one of the merged ranges of a
\* role holds at a time, and the mutex is taken exactly while a sweep has rows
\* left (running, mergeRangeTimes).
THEOREM TypeCorrect == Spec => []TypeOK
<1>1. DecisionInv /\ now \in Times /\ DaemonInv => TypeOK
    <2> SUFFICES ASSUME DecisionInv, now \in Times, DaemonInv PROVE TypeOK
        OBVIOUS
    <2>1. ASSUME NEW u \in DOMAIN permissions, NEW p \in DOMAIN permissions[u]
          PROVE  /\ p \in Roles /\ permissions[u][p] \in Seq(Period)
                 /\ Cardinality(Current(u, p)) <= 1
        <3>1. p \in Roles /\ permissions[u][p] \in Seq(Period)
            BY DEF DaemonInv, RangesGranted, Granted
        <3>2. \A k, l \in Current(u, p) : k = l
            BY OneCurrent DEF DaemonInv
        <3>3. CASE Current(u, p) = {}
            <4>1. Cardinality({}) = 0
                BY FS_EmptySet
            <4> QED
                BY <3>1, <3>3, <4>1
        <3>4. ASSUME NEW k \in Current(u, p) PROVE Cardinality(Current(u, p)) <= 1
            <4>1. Current(u, p) = {k}
                BY <3>2, <3>4
            <4>2. Cardinality({k}) = 1
                BY FS_Singleton
            <4> QED
                BY <4>1, <4>2
        <3> QED
            BY <3>1, <3>3, <3>4
    <2>2. decisions \in [Requests -> Nat]
        BY DEF DecisionInv, DecidedOnce
    <2> QED
        BY <2>1, <2>2
        DEF TypeOK, DecisionInv, RowsTyped, SweepListed, DaemonInv, PassedRows, RangesGranted,
            OthersTyped
<1> QED
    BY <1>1, DaemonInductive, PTL

\* A role is given only while requests that an administrator passed cover the
\* moment, for any numbers of requests and whatever snapshots the daemon works on
\* (getCurrentUserRoleAt, mergeRangeTimes).
THEOREM RolesAreGranted == Spec => RoleWithinWindow
<1>1. DecisionInv /\ now \in Times /\ DaemonInv /\ [Next]_vars => [GivenInside]_vars
    BY RolesGivenInside
<1>2. Spec => [][GivenInside]_vars
    BY <1>1, DaemonInductive, PTL DEF Spec
<1> QED
    BY <1>2 DEF RoleWithinWindow, GivenInside

\* Nobody is warned of the end of a permission that another one continues without
\* a gap, for any numbers of requests (computeRoleExpiryAlerts, mergeRangeTimes).
THEOREM WarningsAreTrue == Spec => NoFalseWarning
<1>1. DecisionInv /\ now \in Times /\ DaemonInv /\ [Next]_vars => [NoneContinued]_vars
    BY WarningsAreOfEnds
<1>2. Spec => [][NoneContinued]_vars
    BY <1>1, DaemonInductive, PTL DEF Spec
<1> QED
    BY <1>2 DEF NoFalseWarning, NoneContinued
=============================================================================
