--------------------------- MODULE ReportQueueProofs ---------------------------
(***************************************************************************)
(* Proofs about ReportQueue for any handlers, queue and batch sizes, number *)
(* of retries, events, failed calls and panics.                            *)
(***************************************************************************)
EXTENDS ReportQueue, FiniteSetTheorems, SequenceTheorems, TLAPS

-----------------------------------------------------------------------------
(* The inductive invariant *)

\* The handlers between the two checks of enqueue.
Offering == {h \in Handlers : pc[h] = "enabled"}

\* An event is accepted only after it was reported.
ReportedFirst ==
    /\ IsFiniteSet(Offering)
    /\ accepted + Cardinality(Offering) <= reported

\* Batch and queue, one after the other, are the newest accepted events, and
\* the counters account for the older ones.
InOrder ==
    /\ Handled \in Nat
    /\ \A i \in 1 .. Len(batch) : batch[i] = Handled + i
    /\ \A i \in 1 .. Len(buf) : buf[i] = Handled + Len(batch) + i
    /\ Handled = metric["sent"] + metric["failedFinal"] + lost

\* How far Stop is and what the worker may have left behind.
StopOrder ==
    /\ Enable <=> stop = "no"
    /\ stop \in {"no", "closing"} <=> ~bufClosed
    /\ worker = "ended" => bufClosed /\ buf = <<>>
    /\ stop = "flushed" => worker = "ended"

\* The attempts made with the batch of the moment.
Attempts == IF worker = "backoff" THEN attempt + 1 ELSE attempt

HandledStored == {e \in Events : e <= Handled /\ stored[e] > 0}

\* What the hub may have stored.
StoredOrder ==
    /\ worker = "backoff" => attempt < RetryMax
    /\ metric["sent"] <= Cardinality(HandledStored)
    /\ \A e \in Events :
          /\ e <= Handled => stored[e] <= RetryMax + 1
          /\ Handled < e /\ e <= Handled + Len(batch) => stored[e] <= Attempts
          /\ e > Handled + Len(batch) => stored[e] = 0

QueueInv == TypeOK /\ ReportedFirst /\ InOrder /\ StopOrder /\ StoredOrder

-----------------------------------------------------------------------------
(* Batches and answers *)

\* The events of a batch are as many as its length.
LEMMA BatchIsInterval ==
    ASSUME TypeOK, InOrder
    PROVE  /\ Len(batch) \in Nat /\ Handled \in Nat
           /\ BatchEvents = Handled + 1 .. Handled + Len(batch)
           /\ IsFiniteSet(BatchEvents) /\ Cardinality(BatchEvents) = Len(batch)
<1>1. Len(batch) \in Nat /\ Handled \in Nat
    BY DEF TypeOK, InOrder
<1>2. BatchEvents = Handled + 1 .. Handled + Len(batch)
    <2>1. ASSUME NEW e \in BatchEvents PROVE e \in Handled + 1 .. Handled + Len(batch)
        BY <1>1 DEF BatchEvents, InOrder
    <2>2. ASSUME NEW e \in Handled + 1 .. Handled + Len(batch) PROVE e \in BatchEvents
        <3>1. e - Handled \in 1 .. Len(batch)
            BY <1>1
        <3>2. batch[e - Handled] = e
            BY <1>1, <3>1 DEF InOrder
        <3> QED
            BY <3>1, <3>2 DEF BatchEvents
    <2> QED
        BY <2>1, <2>2
<1>3. /\ IsFiniteSet(Handled + 1 .. Handled + Len(batch))
      /\ Cardinality(Handled + 1 .. Handled + Len(batch)) = Len(batch)
    <2>1. Handled + 1 \in Int /\ Handled + Len(batch) \in Int
        BY <1>1
    <2>2. /\ IsFiniteSet(Handled + 1 .. Handled + Len(batch))
          /\ Cardinality(Handled + 1 .. Handled + Len(batch)) =
                IF Handled + 1 > Handled + Len(batch) THEN 0
                ELSE (Handled + Len(batch)) - (Handled + 1) + 1
        BY <2>1, FS_Interval, Zenon
    <2> QED
        BY <1>1, <2>2
<1> QED
    BY <1>1, <1>2, <1>3

\* Whatever form the answer has, the two counters grow by what was stored and by
\* what was not.
LEMMA AnswerCounts ==
    ASSUME TypeOK, InOrder, batch # <<>>,
           NEW S \in SUBSET BatchEvents, NEW answer \in Answers(S)
    PROVE  /\ IsFiniteSet(S) /\ Cardinality(S) \in Nat
           /\ Successes(answer, S) = Cardinality(S)
           /\ Failures(answer, S) = Len(batch) - Cardinality(S)
           /\ Cardinality(S) <= Len(batch)
<1>1. /\ Len(batch) \in Nat /\ Len(batch) # 0
      /\ IsFiniteSet(BatchEvents) /\ Cardinality(BatchEvents) = Len(batch)
    BY BatchIsInterval, EmptySeq DEF TypeOK
<1>2. IsFiniteSet(S) /\ Cardinality(S) <= Len(batch)
    BY <1>1, FS_Subset
<1>3. Cardinality(S) \in Nat
    BY <1>2, FS_CardinalityType
<1>4. Cardinality(BatchEvents \ S) = Len(batch) - Cardinality(S)
    <2>1. BatchEvents \cap S = S
        OBVIOUS
    <2>2. Cardinality(BatchEvents \ S) =
              Cardinality(BatchEvents) - Cardinality(BatchEvents \cap S)
        BY <1>1, FS_Difference, Zenon
    <2> QED
        BY <1>1, <2>1, <2>2
<1>5. BatchEvents # {}
    BY <1>1, FS_EmptySet
<1>6. CASE answer = [success |-> Cardinality(S), failure |-> Len(batch) - Cardinality(S),
                     items |-> {}]
    <2>1. Cardinality(S) # 0 \/ Len(batch) - Cardinality(S) # 0
        BY <1>1, <1>2, <1>3
    <2> QED
        BY <1>1, <1>2, <1>3, <1>6, <2>1 DEF Successes, Failures
<1>7. CASE answer = [success |-> 0, failure |-> 0, items |-> BatchEvents]
    BY <1>1, <1>2, <1>3, <1>4, <1>5, <1>7 DEF Successes, Failures
<1>8. CASE /\ Len(batch) - Cardinality(S) = 0
           /\ answer = [success |-> 0, failure |-> 0, items |-> {}]
    <2>1. Cardinality({} \ S) = 0
        BY FS_EmptySet
    <2> QED
        BY <1>1, <1>2, <1>3, <1>8, <2>1 DEF Successes, Failures
<1> QED
    BY <1>2, <1>3, <1>6, <1>7, <1>8 DEF Answers

-----------------------------------------------------------------------------
(* The handlers *)

\* A handler enters, or leaves, the gap between the two checks.
LEMMA OfferingGrows ==
    ASSUME ReportedFirst, TypeOK, NEW h \in Handlers, pc[h] # "enabled",
           pc' = [pc EXCEPT ![h] = "enabled"]
    PROVE  /\ IsFiniteSet(Offering') /\ Cardinality(Offering') = Cardinality(Offering) + 1
           /\ Cardinality(Offering) \in Nat
<1>1. Offering' = Offering \cup {h} /\ h \notin Offering
    BY DEF Offering, TypeOK
<1> QED
    BY <1>1, FS_AddElement, FS_CardinalityType DEF ReportedFirst

\* ... and leaves it again.
LEMMA OfferingShrinks ==
    ASSUME ReportedFirst, TypeOK, NEW h \in Handlers, NEW to, pc[h] = "enabled",
           to # "enabled", pc' = [pc EXCEPT ![h] = to]
    PROVE  /\ IsFiniteSet(Offering') /\ Cardinality(Offering') = Cardinality(Offering) - 1
           /\ Cardinality(Offering) \in Nat /\ Cardinality(Offering) > 0
<1>1. Offering' = Offering \ {h} /\ h \in Offering
    BY DEF Offering, TypeOK
<1>2. Cardinality(Offering') \in Nat /\ Cardinality(Offering) \in Nat
    BY <1>1, FS_RemoveElement, FS_CardinalityType DEF ReportedFirst
<1> QED
    BY <1>1, <1>2, FS_RemoveElement DEF ReportedFirst

\* Every step keeps that events are reported before they are accepted.
LEMMA ReportedFirstStep ==
    ASSUME QueueInv, [Next]_vars
    PROVE  ReportedFirst'
<1> USE ReportAssumption
<1> USE DEF QueueInv
<1>1. ASSUME NEW h \in Handlers, Offer(h) PROVE ReportedFirst'
    <2>1. CASE Enable
        <3>1. /\ IsFiniteSet(Offering') /\ Cardinality(Offering') = Cardinality(Offering) + 1
              /\ Cardinality(Offering) \in Nat
            BY <1>1, <2>1, OfferingGrows DEF Offer
        <3> QED
            BY <1>1, <2>1, <3>1 DEF Offer, ReportedFirst, TypeOK
    <2>2. CASE ~Enable
        <3>1. Offering' = Offering
            BY <1>1, <2>2 DEF Offer, Offering
        <3>2. Cardinality(Offering) \in Nat
            BY FS_CardinalityType DEF ReportedFirst
        <3> QED
            BY <1>1, <2>2, <3>1, <3>2 DEF Offer, ReportedFirst, TypeOK
    <2> QED
        BY <2>1, <2>2
<1>2. ASSUME NEW h \in Handlers, RefuseClosed(h) PROVE ReportedFirst'
    <2>1. pc[h] = "enabled" /\ pc' = [pc EXCEPT ![h] = "idle"]
        BY <1>2 DEF RefuseClosed
    <2>2. /\ IsFiniteSet(Offering') /\ Cardinality(Offering') = Cardinality(Offering) - 1
          /\ Cardinality(Offering) \in Nat /\ Cardinality(Offering) > 0
        BY <2>1, OfferingShrinks
    <2> QED
        BY <1>2, <2>2 DEF RefuseClosed, ReportedFirst, TypeOK
<1>3. ASSUME NEW h \in Handlers, DropFull(h) PROVE ReportedFirst'
    <2>1. pc[h] = "enabled" /\ pc' = [pc EXCEPT ![h] = "full"]
        BY <1>3 DEF DropFull
    <2>2. /\ IsFiniteSet(Offering') /\ Cardinality(Offering') = Cardinality(Offering) - 1
          /\ Cardinality(Offering) \in Nat /\ Cardinality(Offering) > 0
        BY <2>1, OfferingShrinks
    <2> QED
        BY <1>3, <2>2 DEF DropFull, ReportedFirst, TypeOK, history
<1>4. ASSUME NEW h \in Handlers, Append1(h) PROVE ReportedFirst'
    <2>1. pc[h] = "enabled" /\ pc' = [pc EXCEPT ![h] = "appended"]
        BY <1>4 DEF Append1
    <2>2. /\ IsFiniteSet(Offering') /\ Cardinality(Offering') = Cardinality(Offering) - 1
          /\ Cardinality(Offering) \in Nat /\ Cardinality(Offering) > 0
        BY <2>1, OfferingShrinks
    <2> QED
        BY <1>4, <2>2 DEF Append1, ReportedFirst, TypeOK
<1>5. ASSUME NEW h \in Handlers, Count(h) PROVE ReportedFirst'
    <2>1. Offering' = Offering
        BY <1>5 DEF Count, Offering, TypeOK
    <2> QED
        BY <1>5, <2>1 DEF Count, ReportedFirst, history
<1>6. CASE Work \/ Disable \/ Stop \/ UNCHANGED vars
    <2>1. UNCHANGED <<pc, history>>
        BY <1>6 DEF Work, WaitForEvents, EndWorker, TakeBatch, Call, CallSucceeds,
                    CallFails, Panic, Retry, WakeUp, Disable, Stop, Close, Flushed,
                    FlushTimeout, Exit, vars, history
    <2> QED
        BY <2>1 DEF ReportedFirst, Offering, history
<1> QED
    BY <1>1, <1>2, <1>3, <1>4, <1>5, <1>6 DEF Next, Enqueue

-----------------------------------------------------------------------------
(* The queue *)

\* pullBatch cuts the queue in two.
LEMMA TakeBatchParts ==
    ASSUME TypeOK, TakeBatch
    PROVE  /\ batch = <<>> /\ Len(buf) \in Nat /\ Len(batch') \in Nat /\ Len(buf') \in Nat
           /\ batch' \in Seq(Events) /\ buf' \in Seq(Events)
           /\ Len(batch') + Len(buf') = Len(buf)
           /\ 0 < Len(batch') /\ Len(batch') <= BulkMax
           /\ \A i \in 1 .. Len(batch') : batch'[i] = buf[i]
           /\ \A i \in 1 .. Len(buf') : buf'[i] = buf[Len(batch') + i]
<1> DEFINE n == IF Len(buf) > BulkMax THEN BulkMax ELSE Len(buf)
<1>1. /\ batch = <<>> /\ buf \in Seq(Events) /\ Len(buf) \in Nat /\ Len(buf) # 0
      /\ batch' = SubSeq(buf, 1, n) /\ buf' = SubSeq(buf, n + 1, Len(buf))
    BY EmptySeq DEF TypeOK, TakeBatch
<1>2. n \in 1 .. Len(buf) /\ n <= BulkMax
    BY <1>1, ReportAssumption
<1>3. \A i \in 1 .. Len(buf) : buf[i] \in Events
    BY <1>1
<1> HIDE DEF n
<1>4. /\ SubSeq(buf, 1, n) \in Seq(Events) /\ Len(SubSeq(buf, 1, n)) = n
      /\ \A i \in 1 .. n : SubSeq(buf, 1, n)[i] = buf[i]
    BY <1>1, <1>2, <1>3, SubSeqProperties
<1>5. /\ SubSeq(buf, n + 1, Len(buf)) \in Seq(Events)
      /\ Len(SubSeq(buf, n + 1, Len(buf))) = Len(buf) - n
      /\ \A i \in 1 .. Len(buf) - n : SubSeq(buf, n + 1, Len(buf))[i] = buf[n + i]
    BY <1>1, <1>2, <1>3, SubSeqProperties
<1> QED
    BY <1>1, <1>2, <1>4, <1>5

\* An append adds the newest event at the end.
LEMMA AppendParts ==
    ASSUME QueueInv, NEW h \in Handlers, Append1(h)
    PROVE  /\ Len(buf) \in Nat /\ Len(buf') = Len(buf) + 1 /\ Len(buf') <= SoftMax
           /\ buf' \in Seq(Events) /\ accepted' = accepted + 1
           /\ accepted \in Nat /\ accepted' <= MaxEvents
           /\ \A i \in 1 .. Len(buf) : buf'[i] = buf[i]
           /\ buf'[Len(buf) + 1] = accepted + 1
<1>1. h \in Offering /\ IsFiniteSet(Offering)
    BY DEF Append1, Offering, QueueInv, ReportedFirst
<1>2. Cardinality(Offering) \in Nat /\ Cardinality(Offering) # 0
    BY <1>1, FS_CardinalityType, FS_EmptySet
<1>3. /\ accepted \in Nat /\ accepted + 1 <= MaxEvents /\ accepted + 1 \in Events
    BY <1>2, ReportAssumption DEF QueueInv, ReportedFirst, TypeOK, Events
<1>4. buf \in Seq(Events) /\ Len(buf) < SoftMax /\ buf' = Append(buf, accepted + 1)
    BY ReportAssumption DEF Append1, Full, QueueInv, TypeOK
<1> QED
    BY <1>3, <1>4, ReportAssumption DEF Append1

-----------------------------------------------------------------------------
(* The types *)

\* Every step keeps the types.
LEMMA TypeStep ==
    ASSUME QueueInv, [Next]_vars
    PROVE  TypeOK'
<1> USE ReportAssumption
<1> USE DEF QueueInv, queueVars, workerVars, history, hub
<1>1. ASSUME NEW h \in Handlers, Offer(h) PROVE TypeOK'
    <2>1. pc' \in [Handlers -> {"idle", "enabled", "appended", "full"}]
        BY <1>1 DEF Offer, TypeOK
    <2>2. reported' \in 0 .. MaxEvents /\ refused' \in Nat
        BY <1>1 DEF Offer, TypeOK
    <2> QED
        BY <1>1, <2>1, <2>2 DEF Offer, TypeOK
<1>2. ASSUME NEW h \in Handlers, RefuseClosed(h) \/ DropFull(h) PROVE TypeOK'
    <2>1. pc' \in [Handlers -> {"idle", "enabled", "appended", "full"}] /\ refused' \in Nat
        BY <1>2 DEF RefuseClosed, DropFull, TypeOK
    <2> QED
        BY <1>2, <2>1 DEF RefuseClosed, DropFull, TypeOK
<1>3. ASSUME NEW h \in Handlers, Append1(h) PROVE TypeOK'
    <2>1. worker' \in {worker, "pulling"} /\ (worker' # worker => worker = "waiting")
        BY <1>3 DEF Append1, Signal
    <2>2. buf' \in Seq(Events) /\ Len(buf') <= SoftMax /\ accepted' \in 0 .. MaxEvents
        BY <1>3, AppendParts
    <2> QED
        BY <1>3, <2>1, <2>2 DEF Append1, TypeOK
<1>4. ASSUME NEW h \in Handlers, Count(h) PROVE TypeOK'
    BY <1>4 DEF Count, Add, Metrics, TypeOK
<1>5. CASE TakeBatch
    <2>1. /\ batch' \in Seq(Events) /\ buf' \in Seq(Events) /\ batch' # <<>>
          /\ Len(buf') <= SoftMax /\ Len(batch') <= BulkMax
        BY <1>5, TakeBatchParts DEF TypeOK
    <2> QED
        BY <1>5, <2>1 DEF TakeBatch, TypeOK
<1>6. CASE CallSucceeds
    <2>1. batch # <<>>
        BY <1>6 DEF CallSucceeds, TypeOK
    <2>2. PICK S \in SUBSET BatchEvents : \E answer \in Answers(S) :
              /\ Store(S)
              /\ metric' = [metric EXCEPT !["sent"] = @ + Successes(answer, S),
                                          !["failedFinal"] = @ + Failures(answer, S)]
        BY <1>6 DEF CallSucceeds
    <2>3. PICK answer \in Answers(S) :
              metric' = [metric EXCEPT !["sent"] = @ + Successes(answer, S),
                                       !["failedFinal"] = @ + Failures(answer, S)]
        BY <2>2
    <2>4. Successes(answer, S) \in Nat /\ Failures(answer, S) \in Nat
        BY <2>1, AnswerCounts, BatchIsInterval
    <2>5. metric' \in [Metrics -> Nat]
        BY <2>3, <2>4 DEF TypeOK, Metrics
    <2>6. stored' \in [Events -> Nat]
        BY <2>2 DEF Store, TypeOK
    <2> QED
        <3>1. batch' = <<>> /\ batch' \in Seq(Events) /\ Len(batch') <= BulkMax
            BY <1>6, EmptySeq DEF CallSucceeds
        <3> QED
            BY <1>6, <2>5, <2>6, <3>1 DEF CallSucceeds, TypeOK
<1>7. CASE CallFails
    <2>1. stored' \in [Events -> Nat]
        BY <1>7 DEF CallFails, Store, TypeOK
    <2>2. metric' \in [Metrics -> Nat]
        BY <1>7 DEF CallFails, Add, Metrics, TypeOK
    <2> QED
        <3>1. CASE attempt < RetryMax
            BY <1>7, <2>1, <2>2, <3>1 DEF CallFails, TypeOK
        <3>2. CASE ~(attempt < RetryMax)
            <4>1. batch' = <<>> /\ batch' \in Seq(Events) /\ Len(batch') <= BulkMax
                BY <1>7, <3>2, EmptySeq DEF CallFails
            <4> QED
                BY <1>7, <2>1, <2>2, <3>2, <4>1 DEF CallFails, TypeOK
        <3> QED
            BY <3>1, <3>2
<1>8. CASE Panic
    <2>1. metric' \in [Metrics -> Nat] /\ lost' \in Nat
        BY <1>8 DEF Panic, Add, Metrics, TypeOK
    <2> QED
        <3>1. batch' = <<>> /\ batch' \in Seq(Events) /\ Len(batch') <= BulkMax
            BY <1>8, EmptySeq DEF Panic
        <3> QED
            BY <1>8, <2>1, <3>1 DEF Panic, TypeOK
<1>9. CASE Retry
    BY <1>9 DEF Retry, TypeOK, StoredOrder
<1>10. CASE WaitForEvents \/ EndWorker \/ WakeUp
    BY <1>10 DEF WaitForEvents, EndWorker, WakeUp, TypeOK
<1>11. CASE Disable \/ Flushed \/ FlushTimeout \/ Exit \/ UNCHANGED vars
    BY <1>11 DEF Disable, Flushed, FlushTimeout, Exit, vars, TypeOK
<1>12. CASE Close
    <2>1. worker' \in {worker, "pulling"} /\ (worker' # worker => worker = "waiting")
        BY <1>12 DEF Close, Signal
    <2> QED
        BY <1>12, <2>1 DEF Close, TypeOK
<1> QED
    BY <1>1, <1>2, <1>3, <1>4, <1>5, <1>6, <1>7, <1>8, <1>9, <1>10, <1>11, <1>12
    DEF Next, Enqueue, Work, Call, Stop

-----------------------------------------------------------------------------
(* The order of the events *)

\* The numbers that the order is about.
LEMMA Numbers ==
    ASSUME TypeOK
    PROVE  /\ metric["sent"] \in Nat /\ metric["failedFinal"] \in Nat /\ lost \in Nat
           /\ accepted \in Nat /\ Len(batch) \in Nat /\ Len(buf) \in Nat
    BY ReportAssumption DEF TypeOK, Metrics

\* What a step that leaves the queue alone leaves true.
LEMMA InOrderKept ==
    ASSUME InOrder, UNCHANGED <<accepted, batch, buf, lost>>,
           metric'["sent"] = metric["sent"],
           metric'["failedFinal"] = metric["failedFinal"]
    PROVE  InOrder'
    BY DEF InOrder, Handled

\* A batch that is disposed of is handled, one way or another.
LEMMA BatchHandled ==
    ASSUME QueueInv, UNCHANGED <<accepted, buf>>, batch' = <<>>,
           metric' \in [Metrics -> Nat], lost' \in Nat,
           metric'["sent"] + metric'["failedFinal"] + lost' =
               metric["sent"] + metric["failedFinal"] + lost + Len(batch)
    PROVE  InOrder' /\ Handled' = Handled + Len(batch)
<1>1. Len(batch) \in Nat /\ Len(buf) \in Nat /\ Len(batch') = 0 /\ accepted \in Nat
    BY EmptySeq, ReportAssumption DEF QueueInv, TypeOK
<1>2. Handled' = Handled + Len(batch) /\ Handled' \in Nat
    BY <1>1 DEF QueueInv, InOrder, Handled
<1>3. \A i \in 1 .. Len(buf') : buf'[i] = Handled' + Len(batch') + i
    BY <1>1, <1>2 DEF QueueInv, InOrder
<1>4. Handled' = metric'["sent"] + metric'["failedFinal"] + lost'
    BY <1>1, <1>2 DEF QueueInv, InOrder
<1>5. \A i \in 1 .. Len(batch') : batch'[i] = Handled' + i
    BY <1>1
<1> QED
    BY <1>2, <1>3, <1>4, <1>5 DEF InOrder

\* The counters after a call that the hub answered.
LEMMA SuccessCounts ==
    ASSUME QueueInv, CallSucceeds
    PROVE  \E S \in SUBSET BatchEvents :
              /\ Store(S) /\ IsFiniteSet(S) /\ Cardinality(S) \in Nat
              /\ metric'["sent"] = metric["sent"] + Cardinality(S)
              /\ metric'["failedFinal"] =
                    metric["failedFinal"] + (Len(batch) - Cardinality(S))
              /\ Cardinality(S) <= Len(batch)
<1>1. batch # <<>>
    BY DEF CallSucceeds, QueueInv, TypeOK
<1>2. PICK S \in SUBSET BatchEvents : \E answer \in Answers(S) :
          /\ Store(S)
          /\ metric' = [metric EXCEPT !["sent"] = @ + Successes(answer, S),
                                      !["failedFinal"] = @ + Failures(answer, S)]
    BY DEF CallSucceeds
<1>3. PICK answer \in Answers(S) :
          /\ Store(S)
          /\ metric' = [metric EXCEPT !["sent"] = @ + Successes(answer, S),
                                      !["failedFinal"] = @ + Failures(answer, S)]
    BY <1>2
<1>4. /\ IsFiniteSet(S) /\ Cardinality(S) \in Nat
      /\ Successes(answer, S) = Cardinality(S)
      /\ Failures(answer, S) = Len(batch) - Cardinality(S)
      /\ Cardinality(S) <= Len(batch)
    BY <1>1, AnswerCounts DEF QueueInv
<1>5. /\ metric'["sent"] = metric["sent"] + Successes(answer, S)
      /\ metric'["failedFinal"] = metric["failedFinal"] + Failures(answer, S)
    BY <1>3 DEF QueueInv, TypeOK, Metrics
<1> QED
    BY <1>3, <1>4, <1>5

\* Every step keeps the order of the events and their account.
LEMMA InOrderStep ==
    ASSUME QueueInv, [Next]_vars
    PROVE  InOrder'
<1> USE DEF queueVars, workerVars, history, hub
<1>1. TypeOK /\ InOrder /\ TypeOK'
    BY TypeStep DEF QueueInv
<1>2. ASSUME NEW h \in Handlers, Append1(h) PROVE InOrder'
    <2>1. /\ Len(buf) \in Nat /\ Len(buf') = Len(buf) + 1 /\ accepted' = accepted + 1
          /\ \A i \in 1 .. Len(buf) : buf'[i] = buf[i]
          /\ buf'[Len(buf) + 1] = accepted + 1 /\ accepted \in Nat
        BY <1>2, AppendParts
    <2>2. UNCHANGED <<batch, metric, lost>> /\ Len(batch) \in Nat
        BY <1>1, <1>2 DEF Append1, TypeOK
    <2>3. Handled' = Handled /\ accepted = Handled + Len(batch) + Len(buf)
        BY <2>1, <2>2 DEF Handled
    <2>4. ASSUME NEW i \in 1 .. Len(buf') PROVE buf'[i] = Handled + Len(batch) + i
        <3>1. CASE i \in 1 .. Len(buf)
            BY <1>1, <2>1, <3>1 DEF InOrder
        <3>2. CASE i = Len(buf) + 1
            <4>1. Handled \in Nat
                BY <1>1 DEF InOrder
            <4> QED
                BY <2>1, <2>2, <2>3, <3>2, <4>1
        <3> QED
            BY <2>1, <3>1, <3>2
    <2> QED
        BY <1>1, <2>2, <2>3, <2>4 DEF InOrder
<1>3. CASE TakeBatch
    <2>1. /\ batch = <<>> /\ Len(buf) \in Nat /\ Len(batch') \in Nat /\ Len(buf') \in Nat
          /\ Len(batch') + Len(buf') = Len(buf) /\ Len(batch) = 0
          /\ \A i \in 1 .. Len(batch') : batch'[i] = buf[i]
          /\ \A i \in 1 .. Len(buf') : buf'[i] = buf[Len(batch') + i]
        BY <1>1, <1>3, TakeBatchParts, EmptySeq
    <2>2. UNCHANGED <<accepted, metric, lost>> /\ accepted \in Nat
        BY <1>1, <1>3, ReportAssumption DEF TakeBatch, TypeOK
    <2>3. Handled' = Handled /\ Handled \in Nat
        <3>1. Handled \in Nat
            BY <1>1 DEF InOrder
        <3> QED
            BY <2>1, <2>2, <3>1 DEF Handled
    <2>4. \A i \in 1 .. Len(batch') : batch'[i] = Handled + i
        BY <1>1, <2>1, <2>3 DEF InOrder
    <2>5. ASSUME NEW i \in 1 .. Len(buf') PROVE buf'[i] = Handled + Len(batch') + i
        <3>1. Len(batch') + i \in 1 .. Len(buf)
            BY <2>1
        <3>2. buf[Len(batch') + i] = Handled + Len(batch) + (Len(batch') + i)
            BY <1>1, <3>1 DEF InOrder
        <3> QED
            BY <2>1, <2>3, <3>2
    <2> QED
        BY <1>1, <2>2, <2>3, <2>4, <2>5 DEF InOrder
<1>4. CASE CallSucceeds
    <2>1. /\ metric'["sent"] + metric'["failedFinal"] =
                  metric["sent"] + metric["failedFinal"] + Len(batch)
          /\ UNCHANGED <<accepted, buf, lost>> /\ batch' = <<>>
        <3>1. PICK S \in SUBSET BatchEvents :
                  /\ Cardinality(S) \in Nat
                  /\ metric'["sent"] = metric["sent"] + Cardinality(S)
                  /\ metric'["failedFinal"] =
                        metric["failedFinal"] + (Len(batch) - Cardinality(S))
            BY <1>4, SuccessCounts
        <3>2. metric["sent"] \in Nat /\ metric["failedFinal"] \in Nat /\ Len(batch) \in Nat
            BY <1>1, Numbers
        <3>3. metric'["sent"] + metric'["failedFinal"] =
                  metric["sent"] + metric["failedFinal"] + Len(batch)
            BY <3>1, <3>2
        <3> QED
            BY <1>4, <3>3 DEF CallSucceeds
    <2>2. metric' \in [Metrics -> Nat] /\ lost' \in Nat /\ lost \in Nat
        BY <1>1 DEF TypeOK
    <2>3. metric'["sent"] + metric'["failedFinal"] + lost' =
              metric["sent"] + metric["failedFinal"] + lost + Len(batch)
        <3>1. metric["sent"] \in Nat /\ metric["failedFinal"] \in Nat /\ Len(batch) \in Nat
            BY <1>1, Numbers
        <3>2. metric'["sent"] \in Nat /\ metric'["failedFinal"] \in Nat
            BY <2>2 DEF Metrics
        <3> QED
            BY <2>1, <2>2, <3>1, <3>2
    <2> QED
        BY <2>1, <2>2, <2>3, BatchHandled
<1>5. CASE CallFails
    <2>1. CASE attempt < RetryMax
        BY <1>1, <1>5, <2>1, InOrderKept DEF CallFails
    <2>2. CASE ~(attempt < RetryMax)
        <3>1. /\ metric'["failedFinal"] = metric["failedFinal"] + Len(batch)
              /\ metric'["sent"] = metric["sent"]
              /\ UNCHANGED <<accepted, buf, lost>> /\ batch' = <<>>
            BY <1>1, <1>5, <2>2 DEF CallFails, Add, TypeOK, Metrics
        <3>2. metric' \in [Metrics -> Nat] /\ lost' \in Nat
            BY <1>1 DEF TypeOK
        <3>3. metric'["sent"] + metric'["failedFinal"] + lost' =
                  metric["sent"] + metric["failedFinal"] + lost + Len(batch)
            <4>1. /\ metric["sent"] \in Nat /\ metric["failedFinal"] \in Nat
                  /\ Len(batch) \in Nat /\ lost \in Nat
                BY <1>1, Numbers
            <4> QED
                BY <3>1, <4>1
        <3> QED
            BY <3>1, <3>2, <3>3, BatchHandled
    <2> QED
        BY <2>1, <2>2
<1>6. CASE Panic
    <2>1. /\ metric'["failedFinal"] = metric["failedFinal"]
          /\ metric'["sent"] = metric["sent"]
          /\ UNCHANGED <<accepted, buf>> /\ batch' = <<>> /\ lost' = lost + Len(batch)
        BY <1>1, <1>6 DEF Panic, Add, TypeOK, Metrics
    <2>2. metric' \in [Metrics -> Nat] /\ lost' \in Nat
        BY <1>1 DEF TypeOK
    <2>3. metric'["sent"] + metric'["failedFinal"] + lost' =
              metric["sent"] + metric["failedFinal"] + lost + Len(batch)
        <3>1. /\ metric["sent"] \in Nat /\ metric["failedFinal"] \in Nat
              /\ Len(batch) \in Nat /\ lost \in Nat
            BY <1>1, Numbers
        <3> QED
            BY <2>1, <3>1
    <2> QED
        BY <2>1, <2>2, <2>3, BatchHandled
<1>7. ASSUME NEW h \in Handlers, Count(h) PROVE InOrder'
    <2>1. metric'["sent"] = metric["sent"] /\ metric'["failedFinal"] = metric["failedFinal"]
        BY <1>1, <1>7 DEF Count, Add, TypeOK, Metrics
    <2> QED
        BY <1>1, <1>7, <2>1, InOrderKept DEF Count
<1>8. ASSUME NEW h \in Handlers, Offer(h) \/ RefuseClosed(h) \/ DropFull(h) PROVE InOrder'
    BY <1>1, <1>8, InOrderKept DEF Offer, RefuseClosed, DropFull
<1>9. CASE WaitForEvents \/ EndWorker \/ Retry \/ WakeUp \/ Disable \/ Stop \/ UNCHANGED vars
    BY <1>1, <1>9, InOrderKept
    DEF WaitForEvents, EndWorker, Retry, WakeUp, Disable, Stop, Close, Flushed,
        FlushTimeout, Exit, vars
<1> QED
    BY <1>2, <1>3, <1>4, <1>5, <1>6, <1>7, <1>8, <1>9 DEF Next, Enqueue, Work, Call

-----------------------------------------------------------------------------
(* Stop *)

\* Every step keeps the order of Stop.
LEMMA StopOrderStep ==
    ASSUME QueueInv, [Next]_vars
    PROVE  StopOrder'
<1> USE DEF queueVars, workerVars, history, hub
<1>1. TypeOK /\ StopOrder
    BY DEF QueueInv
<1>2. ASSUME NEW h \in Handlers, Enqueue(h) PROVE StopOrder'
    <2>1. CASE Append1(h)
        BY <1>1, <2>1 DEF Append1, MayAppend, Signal, StopOrder
    <2>2. CASE Offer(h) \/ RefuseClosed(h) \/ DropFull(h) \/ Count(h)
        BY <1>1, <2>2 DEF Offer, RefuseClosed, DropFull, Count, StopOrder
    <2> QED
        BY <1>2, <2>1, <2>2 DEF Enqueue
<1>3. CASE Work
    <2>1. CASE TakeBatch
        BY <1>1, <2>1 DEF TakeBatch, StopOrder, TypeOK
    <2>2. CASE CallSucceeds \/ CallFails \/ Panic \/ Retry \/ WakeUp
        BY <1>1, <2>2 DEF CallSucceeds, CallFails, Panic, Retry, WakeUp, StopOrder
    <2>3. CASE WaitForEvents \/ EndWorker
        BY <1>1, <2>3 DEF WaitForEvents, EndWorker, StopOrder
    <2> QED
        BY <1>3, <2>1, <2>2, <2>3 DEF Work, Call
<1>4. CASE Disable
    BY <1>1, <1>4 DEF Disable, StopOrder
<1>5. CASE Stop
    <2>1. CASE Close
        BY <1>1, <2>1 DEF Close, Signal, StopOrder
    <2>2. CASE Flushed \/ FlushTimeout \/ Exit
        BY <1>1, <2>2 DEF Flushed, FlushTimeout, Exit, StopOrder
    <2> QED
        BY <1>5, <2>1, <2>2 DEF Stop
<1>6. CASE UNCHANGED vars
    BY <1>1, <1>6 DEF vars, StopOrder
<1> QED
    BY <1>2, <1>3, <1>4, <1>5, <1>6 DEF Next

-----------------------------------------------------------------------------
(* The hub *)

\* The handled events that the hub holds are finitely many, and none of them
\* goes away.
LEMMA HandledStoredGrows ==
    ASSUME TypeOK, TypeOK', Handled \in Nat, Handled' \in Nat, Handled <= Handled',
           \A e \in Events : stored[e] <= stored'[e]
    PROVE  /\ IsFiniteSet(HandledStored) /\ IsFiniteSet(HandledStored')
           /\ Cardinality(HandledStored) <= Cardinality(HandledStored')
           /\ Cardinality(HandledStored) \in Nat /\ Cardinality(HandledStored') \in Nat
<1>1. IsFiniteSet(Events)
    BY FS_Interval, ReportAssumption DEF Events
<1>2. ASSUME NEW e \in HandledStored PROVE e \in HandledStored'
    <2>1. e \in Events /\ e <= Handled /\ stored[e] > 0 /\ e \in Int
        BY ReportAssumption DEF HandledStored, Events
    <2>2. stored[e] \in Nat /\ stored'[e] \in Nat /\ stored[e] <= stored'[e]
        BY <2>1 DEF TypeOK
    <2>3. e <= Handled' /\ stored'[e] > 0
        BY <2>1, <2>2
    <2> QED
        BY <2>1, <2>3 DEF HandledStored
<1>3. HandledStored' \in SUBSET Events
    BY DEF HandledStored
<1>4. IsFiniteSet(HandledStored')
    BY <1>1, <1>3, FS_Subset
<1>5. HandledStored \in SUBSET HandledStored'
    BY <1>2
<1> QED
    BY <1>4, <1>5, FS_Subset, FS_CardinalityType

\* What a step leaves true that leaves batch, counters and hub alone.
LEMMA StoredOrderKept ==
    ASSUME TypeOK, StoredOrder, UNCHANGED <<batch, stored>>, Handled' = Handled,
           metric'["sent"] = metric["sent"], Attempts' = Attempts,
           worker' = "backoff" => attempt' < RetryMax
    PROVE  StoredOrder'
<1>1. HandledStored' = HandledStored
    BY DEF HandledStored
<1> QED
    BY <1>1 DEF StoredOrder

\* A batch that is disposed of: each of its events was stored once for each of
\* its attempts at most, and what is counted as sent was stored.
LEMMA StoredOrderHandled ==
    ASSUME TypeOK, InOrder, StoredOrder, TypeOK', Handled' = Handled + Len(batch),
           batch' = <<>>, worker' # "backoff", worker # "backoff",
           metric'["sent"] <= Cardinality(HandledStored'),
           \A e \in Events : stored'[e] \in {stored[e], stored[e] + 1},
           \A e \in Events : stored'[e] # stored[e] => e \in BatchEvents
    PROVE  StoredOrder'
<1>1. /\ Len(batch) \in Nat /\ Handled \in Nat /\ Len(batch') = 0
      /\ BatchEvents = Handled + 1 .. Handled + Len(batch)
    BY BatchIsInterval, EmptySeq
<1>2. ASSUME NEW e \in Events
      PROVE  /\ e <= Handled' => stored'[e] <= RetryMax + 1
             /\ e > Handled' => stored'[e] = 0
    <2>1. e \in Int /\ stored[e] \in Nat /\ attempt \in 0 .. RetryMax /\ RetryMax \in Nat
        <3>1. e \in Int
            BY ReportAssumption DEF Events
        <3>2. stored[e] \in Nat
            BY DEF TypeOK
        <3> QED
            BY <3>1, <3>2, ReportAssumption DEF TypeOK
    <2>2. Attempts = attempt
        BY DEF Attempts
    <2>3. CASE e <= Handled
        BY <1>1, <2>1, <2>3 DEF StoredOrder
    <2>4. CASE Handled < e /\ e <= Handled + Len(batch)
        <3>1. stored[e] <= attempt
            BY <2>2, <2>4 DEF StoredOrder
        <3>2. stored'[e] <= RetryMax + 1
            BY <2>1, <3>1
        <3> QED
            BY <1>1, <2>1, <2>4, <3>2
    <2>5. CASE e > Handled + Len(batch)
        <3>1. stored'[e] = 0
            BY <1>1, <2>1, <2>5 DEF StoredOrder
        <3> QED
            BY <1>1, <2>1, <2>5, <3>1
    <2> QED
        BY <1>1, <2>1, <2>3, <2>4, <2>5
<1>3. Handled' \in Nat
    BY <1>1
<1>4. \A e \in Events : ~(Handled' < e /\ e <= Handled' + Len(batch'))
    BY <1>1, <1>3, ReportAssumption DEF Events
<1>5. \A e \in Events : e > Handled' + Len(batch') => stored'[e] = 0
    BY <1>1, <1>2, <1>3
<1> QED
    BY <1>2, <1>4, <1>5 DEF StoredOrder

\* Every step keeps what the hub may hold.
LEMMA StoredOrderStep ==
    ASSUME QueueInv, [Next]_vars
    PROVE  StoredOrder'
<1> USE DEF queueVars, workerVars, history, hub
<1>1. /\ TypeOK /\ InOrder /\ StoredOrder /\ TypeOK' /\ InOrder'
      /\ Handled \in Nat /\ Handled' \in Nat /\ Len(batch) \in Nat
    BY TypeStep, InOrderStep, Numbers DEF QueueInv, InOrder
<1>2. ASSUME NEW h \in Handlers, Append1(h) PROVE StoredOrder'
    <2>1. /\ Len(buf) \in Nat /\ Len(buf') = Len(buf) + 1
          /\ accepted' = accepted + 1 /\ accepted \in Nat
        BY <1>2, AppendParts
    <2>2. UNCHANGED <<batch, attempt, metric, stored>>
        BY <1>2 DEF Append1
    <2>3. Handled' = Handled
        BY <1>1, <2>1, <2>2 DEF Handled
    <2>4. Attempts' = Attempts /\ (worker' = "backoff" => worker = "backoff")
        BY <1>2 DEF Append1, Signal, Attempts
    <2> QED
        BY <1>1, <2>2, <2>3, <2>4, StoredOrderKept DEF StoredOrder
<1>3. CASE TakeBatch
    <2>1. /\ batch = <<>> /\ Len(buf) \in Nat /\ Len(batch') \in Nat /\ Len(buf') \in Nat
          /\ Len(batch') + Len(buf') = Len(buf) /\ Len(batch) = 0
        BY <1>1, <1>3, TakeBatchParts, EmptySeq
    <2>2. UNCHANGED <<accepted, metric, stored>> /\ accepted \in Nat
        BY <1>1, <1>3, Numbers DEF TakeBatch
    <2>3. Handled' = Handled
        BY <2>1, <2>2 DEF Handled
    <2>4. worker' = "sending" /\ attempt' = 0 /\ Attempts' = 0
        BY <1>3 DEF TakeBatch, Attempts
    <2>5. HandledStored' = HandledStored
        BY <2>2, <2>3 DEF HandledStored
    <2>6. ASSUME NEW e \in Events
          PROVE  /\ e <= Handled' => stored'[e] <= RetryMax + 1
                 /\ e > Handled' => stored'[e] = 0
        BY <1>1, <2>1, <2>2, <2>3 DEF StoredOrder
    <2>7. \A e \in Events : e > Handled' + Len(batch') => e > Handled'
        BY <1>1, <2>1, ReportAssumption DEF Events
    <2>8. \A e \in Events : Handled' < e => e > Handled'
        BY <1>1, ReportAssumption DEF Events
    <2>9. metric'["sent"] <= Cardinality(HandledStored')
        BY <1>1, <2>2, <2>5 DEF StoredOrder
    <2>10. 0 <= 0
        OBVIOUS
    <2> QED
        BY <2>4, <2>6, <2>7, <2>8, <2>9, <2>10 DEF StoredOrder
<1>4. CASE CallSucceeds
    <2>1. PICK S \in SUBSET BatchEvents :
              /\ Store(S) /\ IsFiniteSet(S) /\ Cardinality(S) \in Nat
              /\ metric'["sent"] = metric["sent"] + Cardinality(S)
              /\ metric'["failedFinal"] =
                    metric["failedFinal"] + (Len(batch) - Cardinality(S))
        BY <1>4, SuccessCounts
    <2>2. UNCHANGED <<accepted, buf, lost>> /\ batch' = <<>> /\ worker = "sending"
          /\ worker' = "pulling"
        BY <1>4 DEF CallSucceeds
    <2>3. Handled' = Handled + Len(batch)
        <3>1. accepted \in Nat /\ Len(buf) \in Nat /\ Len(batch') = 0
            BY <1>1, <2>2, Numbers, EmptySeq
        <3> QED
            BY <1>1, <2>2, <3>1 DEF Handled
    <2>4. \A e \in Events : stored'[e] = stored[e] + IF e \in S THEN 1 ELSE 0
        BY <2>1 DEF Store
    <2>5. \A e \in Events : stored[e] \in Nat /\ stored'[e] \in Nat
        BY <1>1 DEF TypeOK
    <2>6. /\ IsFiniteSet(HandledStored) /\ IsFiniteSet(HandledStored')
          /\ Cardinality(HandledStored) \in Nat /\ Cardinality(HandledStored') \in Nat
        <3>1. Handled <= Handled' /\ \A e \in Events : stored[e] <= stored'[e]
            BY <1>1, <2>3, <2>4, <2>5
        <3> QED
            BY <1>1, <3>1, HandledStoredGrows
    <2>7. HandledStored \cup S \in SUBSET HandledStored' /\ HandledStored \cap S = {}
        <3>1. BatchEvents = Handled + 1 .. Handled + Len(batch)
            BY <1>1, BatchIsInterval
        <3>2. BatchEvents \subseteq Events
            <4>1. batch \in Seq(Events)
                BY <1>1 DEF TypeOK
            <4> QED
                BY <4>1, ElementOfSeq DEF BatchEvents
        <3>3. ASSUME NEW e \in S PROVE e \in HandledStored' /\ e \notin HandledStored
            <4>1. e \in Events /\ e \in Int /\ Handled < e /\ e <= Handled'
                BY <1>1, <2>3, <3>1, <3>2
            <4>2. stored'[e] > 0
                BY <2>4, <2>5, <4>1
            <4> QED
                BY <1>1, <4>1, <4>2 DEF HandledStored
        <3>4. ASSUME NEW e \in HandledStored PROVE e \in HandledStored'
            <4>1. e \in Events /\ e \in Int /\ e <= Handled /\ stored[e] > 0
                BY ReportAssumption DEF HandledStored, Events
            <4>2. stored'[e] > 0
                BY <2>4, <2>5, <4>1
            <4> QED
                BY <1>1, <2>3, <4>1, <4>2 DEF HandledStored
        <3> QED
            BY <3>3, <3>4
    <2>8. Cardinality(HandledStored) + Cardinality(S) <= Cardinality(HandledStored')
        <3>1. Cardinality(HandledStored \cup S) = Cardinality(HandledStored)
                  + Cardinality(S) - Cardinality(HandledStored \cap S)
            BY <2>1, <2>6, FS_Union, Zenon
        <3>2. Cardinality(HandledStored \cap S) = 0
            BY <2>7, FS_EmptySet
        <3>3. Cardinality(HandledStored \cup S) <= Cardinality(HandledStored')
            BY <2>6, <2>7, FS_Subset
        <3> QED
            BY <2>1, <2>6, <3>1, <3>2, <3>3
    <2>9. metric'["sent"] <= Cardinality(HandledStored')
        <3>1. metric["sent"] \in Nat /\ metric["sent"] <= Cardinality(HandledStored)
            BY <1>1, Numbers DEF StoredOrder
        <3> QED
            BY <2>1, <2>6, <2>8, <3>1
    <2>10. \A e \in Events : /\ stored'[e] \in {stored[e], stored[e] + 1}
                             /\ stored'[e] # stored[e] => e \in BatchEvents
        BY <2>4, <2>5
    <2> QED
        BY <1>1, <2>2, <2>3, <2>9, <2>10, StoredOrderHandled
<1>5. CASE CallFails
    <2>1. PICK S \in SUBSET BatchEvents : Store(S)
        BY <1>5 DEF CallFails
    <2>2. \A e \in Events : stored'[e] = stored[e] + IF e \in S THEN 1 ELSE 0
        BY <2>1 DEF Store
    <2>3. \A e \in Events : stored[e] \in Nat /\ stored'[e] \in Nat
        BY <1>1 DEF TypeOK
    <2>4. \A e \in Events : /\ stored'[e] \in {stored[e], stored[e] + 1}
                            /\ stored'[e] # stored[e] => e \in BatchEvents
        BY <2>2, <2>3
    <2>5. \A e \in Events : stored[e] <= stored'[e]
        BY <2>2, <2>3
    <2>6. /\ UNCHANGED <<accepted, buf, attempt>> /\ metric'["sent"] = metric["sent"]
          /\ worker = "sending"
        BY <1>1, <1>5 DEF CallFails, Add, TypeOK, Metrics
    <2>7. accepted \in Nat /\ Len(buf) \in Nat /\ metric["sent"] \in Nat
        BY <1>1, Numbers
    <2>8. CASE attempt < RetryMax
        <3>1. batch' = batch /\ worker' = "backoff"
            BY <1>5, <2>8 DEF CallFails
        <3>2. Handled' = Handled
            BY <2>6, <3>1 DEF Handled
        <3>3. /\ Cardinality(HandledStored) <= Cardinality(HandledStored')
              /\ Cardinality(HandledStored) \in Nat /\ Cardinality(HandledStored') \in Nat
            BY <1>1, <2>5, <3>2, HandledStoredGrows
        <3>4. metric'["sent"] <= Cardinality(HandledStored')
            BY <1>1, <2>6, <2>7, <3>3 DEF StoredOrder
        <3>5. Attempts = attempt /\ Attempts' = attempt + 1 /\ attempt \in Nat
            BY <1>1, <2>6, <3>1, ReportAssumption DEF Attempts, TypeOK
        <3>6. BatchEvents = Handled + 1 .. Handled + Len(batch)
            BY <1>1, BatchIsInterval
        <3>7. ASSUME NEW e \in Events
              PROVE  /\ e <= Handled => stored'[e] <= RetryMax + 1
                     /\ Handled < e /\ e <= Handled + Len(batch)
                            => stored'[e] <= attempt + 1
                     /\ e > Handled + Len(batch) => stored'[e] = 0
            <4>1. e \in Int
                BY ReportAssumption DEF Events
            <4>2. /\ e <= Handled => stored[e] <= RetryMax + 1
                  /\ Handled < e /\ e <= Handled + Len(batch) => stored[e] <= attempt
                  /\ e > Handled + Len(batch) => stored[e] = 0
                BY <1>1, <3>5 DEF StoredOrder
            <4> QED
                BY <1>1, <2>3, <2>4, <3>5, <3>6, <4>1, <4>2
        <3> QED
            BY <2>6, <2>8, <3>1, <3>2, <3>4, <3>5, <3>7 DEF StoredOrder
    <2>9. CASE ~(attempt < RetryMax)
        <3>1. batch' = <<>> /\ worker' = "pulling" /\ Len(batch') = 0
            BY <1>5, <2>9, EmptySeq DEF CallFails
        <3>2. Handled' = Handled + Len(batch)
            BY <1>1, <2>6, <2>7, <3>1 DEF Handled
        <3>3. /\ Cardinality(HandledStored) <= Cardinality(HandledStored')
              /\ Cardinality(HandledStored) \in Nat /\ Cardinality(HandledStored') \in Nat
            <4>1. Handled <= Handled'
                BY <1>1, <3>2
            <4> QED
                BY <1>1, <2>5, <4>1, HandledStoredGrows
        <3>4. metric'["sent"] <= Cardinality(HandledStored')
            BY <1>1, <2>6, <2>7, <3>3 DEF StoredOrder
        <3> QED
            BY <1>1, <2>4, <2>6, <3>1, <3>2, <3>4, StoredOrderHandled
    <2> QED
        BY <2>8, <2>9
<1>6. CASE Panic
    <2>1. /\ UNCHANGED <<accepted, buf, attempt, stored>> /\ metric'["sent"] = metric["sent"]
          /\ worker = "sending" /\ worker' # "backoff" /\ batch' = <<>> /\ Len(batch') = 0
        BY <1>1, <1>6, EmptySeq DEF Panic, Add, TypeOK, Metrics
    <2>2. accepted \in Nat /\ Len(buf) \in Nat /\ metric["sent"] \in Nat
        BY <1>1, Numbers
    <2>3. Handled' = Handled + Len(batch)
        BY <1>1, <2>1, <2>2 DEF Handled
    <2>4. \A e \in Events : /\ stored[e] <= stored'[e]
                            /\ stored'[e] \in {stored[e], stored[e] + 1}
                            /\ stored'[e] # stored[e] => e \in BatchEvents
        BY <1>1, <2>1 DEF TypeOK
    <2>5. /\ Cardinality(HandledStored) <= Cardinality(HandledStored')
          /\ Cardinality(HandledStored) \in Nat /\ Cardinality(HandledStored') \in Nat
        <3>1. Handled <= Handled'
            BY <1>1, <2>3
        <3> QED
            BY <1>1, <2>4, <3>1, HandledStoredGrows
    <2>6. metric'["sent"] <= Cardinality(HandledStored')
        BY <1>1, <2>1, <2>2, <2>5 DEF StoredOrder
    <2> QED
        BY <1>1, <2>1, <2>3, <2>4, <2>6, StoredOrderHandled
<1>7. CASE Retry
    <2>1. Attempts' = Attempts /\ worker' # "backoff" /\ Handled' = Handled
        BY <1>7 DEF Retry, Attempts, Handled
    <2> QED
        BY <1>1, <1>7, <2>1, StoredOrderKept DEF Retry
<1>8. ASSUME NEW h \in Handlers, Offer(h) \/ RefuseClosed(h) \/ DropFull(h) \/ Count(h)
      PROVE  StoredOrder'
    <2>1. /\ UNCHANGED <<worker, attempt, batch, buf, accepted, stored>>
          /\ metric'["sent"] = metric["sent"]
        BY <1>1, <1>8 DEF Offer, RefuseClosed, DropFull, Count, Add, TypeOK, Metrics
    <2>2. Attempts' = Attempts /\ Handled' = Handled
        BY <2>1 DEF Attempts, Handled
    <2> QED
        BY <1>1, <2>1, <2>2, StoredOrderKept DEF StoredOrder
<1>9. CASE WaitForEvents \/ EndWorker \/ WakeUp \/ Disable \/ Stop \/ UNCHANGED vars
    <2>1. /\ UNCHANGED <<attempt, batch, buf, accepted, stored, metric>>
          /\ worker' = "backoff" <=> worker = "backoff"
        BY <1>1, <1>9
        DEF WaitForEvents, EndWorker, WakeUp, Disable, Stop, Close, Flushed,
            FlushTimeout, Exit, Signal, vars
    <2>2. Attempts' = Attempts /\ Handled' = Handled
        BY <2>1 DEF Attempts, Handled
    <2> QED
        BY <1>1, <2>1, <2>2, StoredOrderKept DEF StoredOrder
<1> QED
    BY <1>2, <1>3, <1>4, <1>5, <1>6, <1>7, <1>8, <1>9 DEF Next, Enqueue, Work, Call

-----------------------------------------------------------------------------
(* The theorems *)

\* The invariant holds at first ...
LEMMA InitInv == Init => QueueInv
<1> SUFFICES ASSUME Init PROVE QueueInv
    OBVIOUS
<1>1. TypeOK
    <2>1. /\ buf = <<>> /\ buf \in Seq(Events) /\ Len(buf) = 0
          /\ batch = <<>> /\ batch \in Seq(Events) /\ Len(batch) = 0
        BY EmptySeq DEF Init
    <2>2. metric \in [Metrics -> Nat] /\ stored \in [Events -> Nat]
        BY DEF Init
    <2>3. Len(buf) <= SoftMax /\ Len(batch) <= BulkMax /\ attempt \in 0 .. RetryMax
        BY <2>1, ReportAssumption DEF Init
    <2>4. /\ reported \in 0 .. MaxEvents /\ accepted \in 0 .. MaxEvents
          /\ refused \in Nat /\ lost \in Nat /\ faults \in 0 .. MaxFaults
        BY ReportAssumption DEF Init
    <2> QED
        BY <2>1, <2>2, <2>3, <2>4 DEF Init, TypeOK
<1>2. Offering = {} /\ ReportedFirst
    <2>1. Offering = {}
        BY DEF Init, Offering
    <2> QED
        BY <2>1, FS_EmptySet DEF Init, ReportedFirst
<1>3. Handled = 0 /\ Len(batch) = 0 /\ Len(buf) = 0
    <2>1. Len(batch) = 0 /\ Len(buf) = 0 /\ accepted = 0
        BY EmptySeq DEF Init
    <2> QED
        BY <2>1 DEF Handled
<1>4. InOrder
    BY <1>3 DEF Init, InOrder, Metrics
<1>5. StopOrder
    BY DEF Init, StopOrder
<1>6. HandledStored = {}
    BY <1>3 DEF Init, HandledStored
<1>7. StoredOrder
    <2>1. Cardinality(HandledStored) = 0 /\ metric["sent"] = 0
        BY <1>6, FS_EmptySet DEF Init, Metrics
    <2> QED
        BY <1>3, <2>1, ReportAssumption DEF Init, StoredOrder, Attempts
<1> QED
    BY <1>1, <1>2, <1>4, <1>5, <1>7 DEF QueueInv

\* ... and for ever.
LEMMA Inductive == Spec => []QueueInv
<1>1. Init => QueueInv
    BY InitInv
<1>2. QueueInv /\ [Next]_vars => QueueInv'
    BY TypeStep, ReportedFirstStep, InOrderStep, StopOrderStep, StoredOrderStep
    DEF QueueInv
<1> QED
    BY <1>1, <1>2, PTL DEF Spec

\* Every reachable state of the queue, its worker and Stop is well typed; in
\* particular the soft limit of the queue and the size of a batch hold.
THEOREM TypeCorrect == Spec => []TypeOK
<1>1. QueueInv => TypeOK
    BY DEF QueueInv
<1> QED
    BY <1>1, Inductive, PTL

\* No event that was accepted disappears: the counters, the batch and the queue
\* together hold each of them once and in order, for any sizes, retries and
\* panics (enqueue, pullBatch, sendBulk).
THEOREM EventsAreAccountedFor == Spec => []NothingVanishes
<1>1. ASSUME QueueInv PROVE NothingVanishes
    <2>1. /\ batch \in Seq(Events) /\ buf \in Seq(Events)
          /\ Len(batch) \in Nat /\ Len(buf) \in Nat
        BY <1>1 DEF QueueInv, TypeOK
    <2>2. /\ Len(batch \o buf) = Len(batch) + Len(buf)
          /\ \A i \in 1 .. Len(batch) + Len(buf) : (batch \o buf)[i] =
                  IF i <= Len(batch) THEN batch[i] ELSE buf[i - Len(batch)]
        BY <2>1, ConcatProperties
    <2>3. ASSUME NEW i \in 1 .. Len(batch \o buf) PROVE (batch \o buf)[i] = Handled + i
        <3>1. Handled \in Nat
            BY <1>1 DEF QueueInv, InOrder
        <3>2. CASE i <= Len(batch)
            BY <1>1, <2>1, <2>2, <3>2 DEF QueueInv, InOrder
        <3>3. CASE ~(i <= Len(batch))
            <4>1. i - Len(batch) \in 1 .. Len(buf)
                BY <2>1, <2>2, <3>3
            <4>2. buf[i - Len(batch)] = Handled + Len(batch) + (i - Len(batch))
                BY <1>1, <4>1 DEF QueueInv, InOrder
            <4> QED
                BY <2>1, <2>2, <3>1, <3>3, <4>2
        <3> QED
            BY <3>2, <3>3
    <2> QED
        BY <1>1, <2>3 DEF NothingVanishes, QueueInv, InOrder
<1> QED
    BY <1>1, Inductive, PTL

\* What is counted as sent is in the hub, and no event is there more often than
\* it was attempted, for any number of retries and lost answers (sendBulk).
THEOREM SentEventsAreStored == Spec => []SentIsStored
<1>1. ASSUME QueueInv PROVE SentIsStored
    <2>1. TypeOK /\ InOrder /\ StoredOrder /\ Handled \in Nat /\ Len(batch) \in Nat
        BY <1>1, Numbers DEF QueueInv, InOrder
    <2> DEFINE Stored == {e \in Events : stored[e] > 0}
    <2>2. IsFiniteSet(Stored)
        <3>1. IsFiniteSet(Events) /\ Stored \in SUBSET Events
            BY FS_Interval, ReportAssumption DEF Events
        <3> QED
            BY <3>1, FS_Subset
    <2>3. HandledStored \in SUBSET Stored
        BY DEF HandledStored
    <2>4. Cardinality(HandledStored) <= Cardinality(Stored) /\ IsFiniteSet(HandledStored)
        BY <2>2, <2>3, FS_Subset
    <2>5. Cardinality(HandledStored) \in Nat /\ Cardinality(Stored) \in Nat
        BY <2>2, <2>4, FS_CardinalityType
    <2> HIDE DEF Stored
    <2>6. metric["sent"] <= Cardinality(Stored)
        BY <2>1, <2>4, <2>5, Numbers DEF StoredOrder
    <2>7. ASSUME NEW e \in Events
          PROVE  /\ stored[e] <= RetryMax + 1
                 /\ stored[e] > 0 => e <= Handled + Len(batch)
        <3>1. /\ e \in Int /\ RetryMax \in Nat
            BY ReportAssumption DEF Events
        <3>2. stored[e] \in Nat /\ attempt \in 0 .. RetryMax
            BY <2>1 DEF TypeOK
        <3>3. Attempts \in Nat /\ Attempts <= RetryMax + 1
            BY <2>1, <3>1, <3>2 DEF Attempts, StoredOrder
        <3>4. /\ e <= Handled => stored[e] <= RetryMax + 1
              /\ Handled < e /\ e <= Handled + Len(batch) => stored[e] <= Attempts
              /\ e > Handled + Len(batch) => stored[e] = 0
            BY <2>1 DEF StoredOrder
        <3> QED
            BY <2>1, <3>1, <3>2, <3>3, <3>4
    <2> QED
        BY <2>6, <2>7 DEF SentIsStored, Stored
<1> QED
    BY <1>1, Inductive, PTL

\* Once the worker has ended, and after a Stop without a timeout, queue and batch
\* are empty and stay so (the second check in enqueue).
THEOREM StopLeavesNothing == Spec => []FlushIsComplete
<1>1. QueueInv => FlushIsComplete
    BY DEF QueueInv, TypeOK, StopOrder, FlushIsComplete
<1> QED
    BY <1>1, Inductive, PTL
=============================================================================
