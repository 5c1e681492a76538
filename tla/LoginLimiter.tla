----------------------------- MODULE LoginLimiter -----------------------------
(***************************************************************************)
(* The login limiter of the web front end (pkg/swm/http/ratelimit.go, used *)
(* by handleLogin and handleCreateUser): a bucket per source address, per  *)
(* account and one for the whole process.  A bucket counts attempts in a   *)
(* window and failed passwords until a lock-out, which outlasts the        *)
(* window; the failure is recorded after the management service answered,  *)
(* in another critical section than the admission.                         *)
(***************************************************************************)
EXTENDS SequencesExt, Naturals

CONSTANTS
    Sources, Accounts, Global,  \* the keys of the buckets
    Attempts,                   \* requests in flight
    None,
    Window, LockFor,            \* loginAttemptWindow, lockoutDur
    AttemptMax, GlobalMax,      \* loginAttemptMax, globalAttemptMax
    MaxBuckets,                 \* maxRateBuckets
    MaxTime, MaxAttempts        \* bounds

Keys == Sources \cup Accounts \cup {Global}
Limit(k) == IF k = Global THEN GlobalMax ELSE AttemptMax

VARIABLES
    now,
    buckets,   \* ipBuckets; None: there is none for this key
    attempt,   \* the keys of each request that waits for its answer
    admitted,  \* history: the attempts a bucket let pass, each with its time
    made

vars == <<now, buckets, attempt, admitted, made>>

Bucket == [count : Nat, start : Nat, fails : Nat, until : Nat]
NewBucket == [count |-> 0, start |-> now, fails |-> 0, until |-> 0]

Init ==
    /\ now = 1
    /\ buckets = [k \in Keys |-> None]
    /\ attempt = [a \in Attempts |-> None]
    /\ admitted = [k \in Keys |-> {}]
    /\ made = 0

Tick ==
    /\ now < MaxTime
    /\ now' = now + 1
    /\ UNCHANGED <<buckets, attempt, admitted, made>>

-----------------------------------------------------------------------------
(* getBucketLocked. *)

\* Mutant: a new window ends the lock-out as well.
WindowEndsLock(b) ==
    IF now - b.start > Window THEN NewBucket ELSE b

\* A new window of requests begins; a lock-out goes on.
Refreshed(b) ==
    IF now - b.start > Window
    THEN IF now < b.until THEN [b EXCEPT !.start = now, !.count = 0]
                          ELSE NewBucket
    ELSE b

Forgettable(b) == now - b.start > 2 * Window /\ now > b.until

Forgotten(bs) ==
    [k \in Keys |-> IF bs[k] # None /\ Forgettable(bs[k]) THEN None ELSE bs[k]]

Full(bs) == Cardinality({k \in Keys : bs[k] # None}) >= MaxBuckets

\* The buckets after the one of k was asked for; none is made when, after the
\* old ones were forgotten, they are still too many.
Fetch(bs, k) ==
    LET room == IF Full(bs) THEN Forgotten(bs) ELSE bs
    IN  IF bs[k] # None THEN [bs EXCEPT ![k] = Refreshed(@)]
        ELSE IF Full(room) THEN room
        ELSE [room EXCEPT ![k] = NewBucket]

Locked(bs, k) == bs[k] # None /\ now < bs[k].until

-----------------------------------------------------------------------------
(* LoginRateLimit: it refuses a locked key, counts, refuses what is over the *)
(* limit, and lets the request pass to its handler.                          *)

\* rateLimitKeys: the account is unknown in a request without a form.
KeysOf(s, u) == <<s, Global>> \o (IF u = None THEN <<>> ELSE <<u>>)

\* A loop over those two or three keys.
Loop(Body(_, _), start, keys) ==
    LET one == Body(start, keys[1])
        two == Body(one, keys[2])
    IN  IF Len(keys) = 2 THEN two ELSE Body(two, keys[3])

\* The first loop over the keys ends at one that is locked.
FetchAll(keys) ==
    LET Body(acc, k) ==
            IF acc.locked THEN acc
            ELSE LET bs == Fetch(acc.bs, k)
                 IN  [bs |-> bs, locked |-> Locked(bs, k)]
    IN  Loop(Body, [bs |-> buckets, locked |-> FALSE], keys)

\* Mutant: one attempt too many passes.
OverLate(b, k) == b.count > Limit(k) + 1

Over(b, k) == b.count > Limit(k)

\* A second loop counts, and refuses if any of the counts is over.
Count(bs, keys) ==
    LET Body(acc, k) ==
            LET fetched == Fetch(acc, k)
            IN  IF fetched[k] = None THEN fetched
                ELSE [fetched EXCEPT ![k].count = @ + 1]
    IN  Loop(Body, bs, keys)

LoginRateLimit(a, keys) ==
    /\ attempt[a] = None
    /\ made < MaxAttempts
    /\ made' = made + 1
    /\ LET fetched == FetchAll(keys)
           counting == Count(fetched.bs, keys)
           counted == {k \in ToSet(keys) : counting[k] # None}
       IN  \/ /\ fetched.locked
              /\ buckets' = fetched.bs
              /\ UNCHANGED <<attempt, admitted>>
           \/ /\ ~fetched.locked
              /\ \E k \in counted : Over(counting[k], k)
              /\ buckets' = counting
              /\ UNCHANGED <<attempt, admitted>>
           \/ /\ ~fetched.locked
              /\ \A k \in counted : ~Over(counting[k], k)
              /\ buckets' = counting
              /\ attempt' = [attempt EXCEPT ![a] = keys]
              /\ admitted' = [k \in Keys |->
                     IF k \in counted THEN admitted[k] \cup {<<made', now>>}
                                      ELSE admitted[k]]
    /\ UNCHANGED now

-----------------------------------------------------------------------------
(* handleLogin, once the management service has answered. *)

Done(a) ==
    /\ attempt[a] # None
    /\ attempt' = [attempt EXCEPT ![a] = None]
    /\ UNCHANGED <<now, admitted, made>>

\* RecordLoginFailure.
Failed(b, k) ==
    IF b.fails + 1 >= Limit(k)
    THEN [b EXCEPT !.fails = 0, !.until = now + LockFor]
    ELSE [b EXCEPT !.fails = @ + 1]

RecordLoginFailure(a) ==
    /\ Done(a)
    /\ LET Body(acc, k) ==
               LET bs == Fetch(acc, k)
               IN  IF bs[k] = None THEN bs
                   ELSE [bs EXCEPT ![k] = Failed(@, k)]
       IN  buckets' = Loop(Body, buckets, attempt[a])

\* ResetLoginCounter; the global bucket is left alone.
ResetLoginCounter(a) ==
    /\ Done(a)
    /\ buckets' = [k \in Keys |->
           IF k # Global /\ k \in ToSet(attempt[a]) /\ buckets[k] # None
           THEN [buckets[k] EXCEPT !.fails = 0, !.until = 0]
           ELSE buckets[k]]

\* handleCreateUser, and a login refused for its form, record nothing.
RecordNothing(a) == Done(a) /\ UNCHANGED buckets

-----------------------------------------------------------------------------
\* The goroutine of startCleanupOnce.
Cleanup ==
    /\ buckets' = Forgotten(buckets)
    /\ buckets' # buckets
    /\ UNCHANGED <<now, attempt, admitted, made>>

Next ==
    \/ Tick
    \/ \E a \in Attempts, s \in Sources, u \in Accounts \cup {None} :
           LoginRateLimit(a, KeysOf(s, u))
    \/ \E a \in Attempts :
           RecordLoginFailure(a) \/ ResetLoginCounter(a) \/ RecordNothing(a)
    \/ Cleanup

Spec == Init /\ [][Next]_vars

-----------------------------------------------------------------------------
TypeOK ==
    /\ now \in 1..MaxTime
    /\ buckets \in [Keys -> Bucket \cup {None}]
    /\ attempt \in [Attempts -> Seq(Keys) \cup {None}]
    /\ Cardinality({k \in Keys : buckets[k] # None}) <= MaxBuckets
    /\ admitted \in [Keys -> SUBSET ((1..MaxAttempts) \X (1..MaxTime))]
    /\ made \in 0..MaxAttempts

\* A lock-out lasts: no window that begins, no bucket that is forgotten to make
\* room or by the cleanup, and no answer but one shortens it, a further failure
\* of the same source or account included.  That one is ResetLoginCounter, of a
\* login of the same source or account, which may have been admitted before the
\* lock-out; it never ends the lock-out of the whole process.
LockOutLasts ==
    [][\A k \in Keys :
           Locked(buckets, k) =>
               \/ buckets'[k] # None /\ buckets'[k].until >= buckets[k].until
               \/ k # Global /\ \E a \in Attempts :
                      ResetLoginCounter(a) /\ k \in ToSet(attempt[a])]_vars

\* Over any stretch of time as long as a window, a bucket lets at most twice its
\* limit pass, although windows begin anew and buckets are forgotten and made
\* again.
BurstIsBounded ==
    \A k \in Keys :
        Cardinality({pass \in admitted[k] : now - Window <= pass[2]}) <= 2 * Limit(k)
=============================================================================
