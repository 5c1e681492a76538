------------------------------ MODULE ReportQueue ------------------------------
(***************************************************************************)
(* The asynchronous report of an edge client's audit events to the log hub *)
(* (pkg/client/logHub): handlers append events to a queue, one worker takes *)
(* them in batches and hands each batch to the hub with up to RetryMax     *)
(* retries, and Stop closes the queue and waits for the worker.            *)
(*                                                                         *)
(* An event is its position among the accepted ones.  The mutex of the     *)
(* queue makes each critical section one step; the condition variable is   *)
(* the worker's state "waiting", left only when somebody signals.  The     *)
(* connections of the client outlive TacPlusSystem.Stop, which closes the  *)
(* listener only, so handlers may report before, during and after Stop.    *)
(***************************************************************************)
EXTENDS Naturals, Sequences, FiniteSets

CONSTANTS
    Handlers,      \* goroutines that report events
    SoftMax,       \* softMaxQueue
    BulkMax,       \* maxBulkSize
    RetryMax,      \* workerRetryMax
    MaxEvents,     \* bound on the events reported
    MaxFaults,     \* bound on the calls that fail
    MaxPanics      \* bound on the panics of the worker

ASSUME ReportAssumption ==
    /\ SoftMax \in Nat \ {0} /\ BulkMax \in Nat \ {0}
    /\ RetryMax \in Nat /\ MaxEvents \in Nat
    /\ MaxFaults \in Nat /\ MaxPanics \in Nat

VARIABLES
    Enable,
    bufClosed,
    buf,         \* the queue
    worker,      \* "pulling", "waiting" (in bufCond.Wait), "sending",
                 \* "backoff", "sleeping" (after a panic), "ended"
    batch,       \* what sendBulk holds
    attempt,     \* its attempt, from 0
    metric,      \* the counters
    pc,          \* handlers: "idle", "enabled", "appended", "full"
    stop,        \* Stop: "no", "closing", "waiting", "flushed", "timeout",
                 \* "exited" once the process has ended
    reported,    \* history: number of events reported
    refused,     \* history: number of events that found the queue stopped
    accepted,    \* history: number of events appended
    lost,        \* history: number of events that went with a panic
    stored,      \* the hub: how often it stored each event
    faults       \* history: number of calls that failed

vars == <<Enable, bufClosed, buf, worker, batch, attempt, metric, pc, stop,
          reported, refused, accepted, lost, stored, faults>>

queueVars == <<Enable, bufClosed, buf>>
workerVars == <<worker, batch, attempt>>
history == <<reported, refused, accepted>>
hub == <<lost, stored, faults>>

Events == 1 .. MaxEvents
Metrics == {"enqueued", "sent", "droppedFull", "failedFinal", "workerPanic"}
Add(counter, n) == metric' = [metric EXCEPT ![counter] = @ + n]

Init ==
    /\ Enable = TRUE /\ bufClosed = FALSE /\ buf = <<>>
    /\ worker = "pulling" /\ batch = <<>> /\ attempt = 0
    /\ metric = [c \in Metrics |-> 0]
    /\ pc = [h \in Handlers |-> "idle"] /\ stop = "no"
    /\ reported = 0 /\ refused = 0 /\ accepted = 0
    /\ lost = 0 /\ stored = [e \in Events |-> 0] /\ faults = 0

Running == stop # "exited"

-----------------------------------------------------------------------------
(* enqueue *)

\* The check of Enable is made outside the mutex.
Offer(h) ==
    /\ pc[h] = "idle" /\ reported < MaxEvents
    /\ reported' = reported + 1
    /\ IF Enable
       THEN /\ pc' = [pc EXCEPT ![h] = "enabled"]
            /\ UNCHANGED refused
       ELSE /\ refused' = refused + 1
            /\ UNCHANGED pc
    /\ UNCHANGED <<queueVars, workerVars, metric, stop, accepted, hub>>

\* Mutant: no second check under the mutex.
MayAppendUnchecked == TRUE

\* The second check, under the mutex.
MayAppend == ~bufClosed

Full == Len(buf) >= SoftMax

RefuseClosed(h) ==
    /\ pc[h] = "enabled" /\ ~MayAppend
    /\ pc' = [pc EXCEPT ![h] = "idle"]
    /\ refused' = refused + 1
    /\ UNCHANGED <<queueVars, workerVars, metric, stop, reported, accepted, hub>>

DropFull(h) ==
    /\ pc[h] = "enabled" /\ MayAppend /\ Full
    /\ pc' = [pc EXCEPT ![h] = "full"]
    /\ UNCHANGED <<queueVars, workerVars, metric, stop, history, hub>>

\* Mutant: the worker is not woken.
NoSignal == UNCHANGED worker

\* bufCond.Signal, and Broadcast: there is one waiter at most.
Signal == worker' = IF worker = "waiting" THEN "pulling" ELSE worker

Append1(h) ==
    /\ pc[h] = "enabled" /\ MayAppend /\ ~Full
    /\ pc' = [pc EXCEPT ![h] = "appended"]
    /\ accepted' = accepted + 1
    /\ buf' = Append(buf, accepted + 1)
    /\ Signal
    /\ UNCHANGED <<Enable, bufClosed, batch, attempt, metric, stop, reported,
                   refused, hub>>

\* The counters are increased after the mutex was released.
Count(h) ==
    /\ pc[h] \in {"appended", "full"}
    /\ Add(IF pc[h] = "appended" THEN "enqueued" ELSE "droppedFull", 1)
    /\ pc' = [pc EXCEPT ![h] = "idle"]
    /\ UNCHANGED <<queueVars, workerVars, stop, history, hub>>

-----------------------------------------------------------------------------
(* pullBatch *)

WaitForEvents ==
    /\ worker = "pulling" /\ buf = <<>> /\ ~bufClosed
    /\ worker' = "waiting"
    /\ UNCHANGED <<queueVars, batch, attempt, metric, pc, stop, history, hub>>

EndWorker ==
    /\ worker = "pulling" /\ buf = <<>> /\ bufClosed
    /\ worker' = "ended"
    /\ UNCHANGED <<queueVars, batch, attempt, metric, pc, stop, history, hub>>

TakeBatch ==
    /\ worker = "pulling" /\ buf # <<>>
    /\ LET n == IF Len(buf) > BulkMax THEN BulkMax ELSE Len(buf) IN
       /\ batch' = SubSeq(buf, 1, n)
       /\ buf' = SubSeq(buf, n + 1, Len(buf))
    /\ worker' = "sending" /\ attempt' = 0
    /\ UNCHANGED <<Enable, bufClosed, metric, pc, stop, history, hub>>

-----------------------------------------------------------------------------
(* sendBulk *)

BatchEvents == {batch[i] : i \in 1 .. Len(batch)}
Store(S) == stored' = [e \in Events |-> stored[e] + IF e \in S THEN 1 ELSE 0]

\* A truthful answer to a batch of which S was stored: counts, or items with
\* the counts left at zero, or nothing at all when everything was stored.
Answers(S) ==
    LET ok == Cardinality(S)
        bad == Len(batch) - ok
    IN  {[success |-> ok, failure |-> bad, items |-> {}],
         [success |-> 0, failure |-> 0, items |-> BatchEvents]}
        \cup IF bad = 0 THEN {[success |-> 0, failure |-> 0, items |-> {}]} ELSE {}

\* Mutant: an answer without counts and items counts for nothing.
SuccessesCounted(answer, S) ==
    IF answer.success # 0 \/ answer.failure # 0 THEN answer.success
    ELSE Cardinality(S \cap answer.items)

\* Mutant: every item counts.
SuccessesUnchecked(answer, S) ==
    IF answer.success # 0 \/ answer.failure # 0 THEN answer.success
    ELSE Len(batch)

\* What the worker counts as sent; S are the items marked as successful.
Successes(answer, S) ==
    IF answer.success # 0 \/ answer.failure # 0 THEN answer.success
    ELSE IF answer.items # {} THEN Cardinality(S)
    ELSE Len(batch)

Failures(answer, S) ==
    IF answer.success # 0 \/ answer.failure # 0 THEN answer.failure
    ELSE Cardinality(answer.items \ S)

CallSucceeds ==
    /\ worker = "sending"
    /\ \E S \in SUBSET BatchEvents : \E answer \in Answers(S) :
          /\ Store(S)
          /\ metric' = [metric EXCEPT !["sent"] = @ + Successes(answer, S),
                                      !["failedFinal"] = @ + Failures(answer, S)]
    /\ worker' = "pulling" /\ batch' = <<>>
    /\ UNCHANGED <<queueVars, attempt, pc, stop, history, lost, faults>>

\* An error, or three seconds without an answer: the hub may have stored the
\* batch or a part of it all the same.
CallFails ==
    /\ worker = "sending" /\ faults < MaxFaults
    /\ faults' = faults + 1
    /\ \E S \in SUBSET BatchEvents : Store(S)
    /\ IF attempt < RetryMax
       THEN /\ worker' = "backoff"
            /\ UNCHANGED <<batch, attempt, metric>>
       ELSE /\ Add("failedFinal", Len(batch))
            /\ worker' = "pulling" /\ batch' = <<>>
            /\ UNCHANGED attempt
    /\ UNCHANGED <<queueVars, pc, stop, history, lost>>

Retry ==
    /\ worker = "backoff"
    /\ worker' = "sending" /\ attempt' = attempt + 1
    /\ UNCHANGED <<queueVars, batch, metric, pc, stop, history, hub>>

\* A panic in sendBulk is recovered by workerIteration, which has forgotten the
\* batch; it pauses unless Stop has begun.
Panic ==
    /\ worker = "sending" /\ metric["workerPanic"] < MaxPanics
    /\ Add("workerPanic", 1)
    /\ lost' = lost + Len(batch)
    /\ batch' = <<>>
    /\ worker' = IF Enable THEN "sleeping" ELSE "pulling"
    /\ UNCHANGED <<queueVars, attempt, pc, stop, history, stored, faults>>

WakeUp ==
    /\ worker = "sleeping"
    /\ worker' = "pulling"
    /\ UNCHANGED <<queueVars, batch, attempt, metric, pc, stop, history, hub>>

-----------------------------------------------------------------------------
(* Stop, called once *)

Disable ==
    /\ stop = "no" /\ Enable
    /\ Enable' = FALSE /\ stop' = "closing"
    /\ UNCHANGED <<bufClosed, buf, workerVars, metric, pc, history, hub>>

\* bufClosed and Broadcast, under the mutex.
Close ==
    /\ stop = "closing"
    /\ bufClosed' = TRUE /\ stop' = "waiting"
    /\ Signal
    /\ UNCHANGED <<Enable, buf, batch, attempt, metric, pc, history, hub>>

Flushed ==
    /\ stop = "waiting" /\ worker = "ended"
    /\ stop' = "flushed"
    /\ UNCHANGED <<queueVars, workerVars, metric, pc, history, hub>>

FlushTimeout ==
    /\ stop = "waiting"
    /\ stop' = "timeout"
    /\ UNCHANGED <<queueVars, workerVars, metric, pc, history, hub>>

Exit ==
    /\ stop \in {"flushed", "timeout"}
    /\ stop' = "exited"
    /\ UNCHANGED <<queueVars, workerVars, metric, pc, history, hub>>

Enqueue(h) == Offer(h) \/ RefuseClosed(h) \/ DropFull(h) \/ Append1(h) \/ Count(h)
Call == CallSucceeds \/ CallFails \/ Panic
Work == WaitForEvents \/ EndWorker \/ TakeBatch \/ Call \/ Retry \/ WakeUp
Stop == Close \/ Flushed \/ FlushTimeout \/ Exit

Next == Running /\ ((\E h \in Handlers : Enqueue(h)) \/ Work \/ Disable \/ Stop)

Spec == Init /\ [][Next]_vars

\* Goroutines run on, a call ends within its three seconds, pauses and Stop's
\* timer end.  Nobody has to report anything, and nobody has to stop the client.
FairSpec ==
    /\ Spec
    /\ WF_vars(Running /\ Work)
    /\ WF_vars(Running /\ Stop)
    /\ \A h \in Handlers : WF_vars(Running /\ (RefuseClosed(h) \/ DropFull(h)
                                               \/ Append1(h) \/ Count(h)))

-----------------------------------------------------------------------------
TypeOK ==
    /\ Enable \in BOOLEAN /\ bufClosed \in BOOLEAN
    /\ buf \in Seq(Events) /\ batch \in Seq(Events) /\ Len(buf) <= SoftMax
    /\ worker \in {"pulling", "waiting", "sending", "backoff", "sleeping", "ended"}
    /\ Len(batch) <= BulkMax /\ (batch # <<>> <=> worker \in {"sending", "backoff"})
    /\ attempt \in 0 .. RetryMax
    /\ metric \in [Metrics -> Nat]
    /\ pc \in [Handlers -> {"idle", "enabled", "appended", "full"}]
    /\ stop \in {"no", "closing", "waiting", "flushed", "timeout", "exited"}
    /\ reported \in 0 .. MaxEvents /\ accepted \in 0 .. MaxEvents
    /\ refused \in Nat /\ lost \in Nat /\ faults \in 0 .. MaxFaults
    /\ stored \in [Events -> Nat]

\* Batch and queue are, in order and without a gap, the events accepted last,
\* and all those before them were counted exactly once as sent or failed or went
\* with a panic (pullBatch's copies, sendBulk's counters).
Handled == accepted - Len(batch) - Len(buf)

NothingVanishes ==
    /\ \A i \in 1 .. Len(batch \o buf) : (batch \o buf)[i] = Handled + i
    /\ Handled = metric["sent"] + metric["failedFinal"] + lost

\* An event counted as sent is in the hub, and a retried batch is there at most
\* once per attempt (sendBulk retries the whole batch after an error and never
\* after a partial failure).
SentIsStored ==
    /\ metric["sent"] <= Cardinality({e \in Events : stored[e] > 0})
    /\ \A e \in Events : /\ stored[e] <= RetryMax + 1
                         /\ stored[e] > 0 => e <= Handled + Len(batch)

\* Once the worker has ended nobody appends any more, whichever handler had
\* passed the check of Enable before Stop: a Stop without a timeout leaves
\* nothing behind (the second check, of bufClosed, in enqueue).
FlushIsComplete ==
    worker = "ended" \/ stop = "flushed" => bufClosed /\ buf = <<>> /\ batch = <<>>

\* The worker is never left asleep while there is something to send, and Stop
\* returns: lost wake-ups of bufCond, panics and retries notwithstanding.
QueueDrains ==
    /\ \A e \in Events : (accepted >= e) ~> (Handled >= e \/ stop = "exited")
    /\ (stop = "closing") ~> (stop = "exited")

=============================================================================
