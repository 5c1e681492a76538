------------------------------ MODULE Management ------------------------------
(***************************************************************************)
(* Three parts of the management side that run next to each other and      *)
(* share no state: the template catalogue (Catalogue), the duty table      *)
(* (OnDuty) and the login limiter of the web front end (LoginLimiter).     *)
(***************************************************************************)
EXTENDS Catalogue

CONSTANTS
    Users, Updates, Main, MaxRosters, MaxLists,             \* OnDuty
    Sources, Accounts, Global, Attempts, Window, LockFor,   \* LoginLimiter
    AttemptMax, GlobalMax, MaxBuckets, MaxTime, MaxAttempts

VARIABLES
    roster, whitelist, duty, listening, update, episode,    \* OnDuty
    rosters, lists, dutyFaults,
    now, buckets, attempt, admitted, made                   \* LoginLimiter

dutyVars == <<roster, whitelist, duty, listening, update, episode,
              rosters, lists, dutyFaults>>
limiterVars == <<now, buckets, attempt, admitted, made>>
allVars == <<vars, dutyVars, limiterVars>>

D == INSTANCE OnDuty WITH faults <- dutyFaults
L == INSTANCE LoginLimiter

ASSUME DutyAssumption ==
    /\ Main \in Updates
    /\ None \notin D!Update

ASSUME LimiterAssumption ==
    /\ L!IsFiniteSet(Sources) /\ L!IsFiniteSet(Accounts)
    /\ None \notin L!Bucket /\ None \notin Seq(L!Keys)
    /\ Window \in Nat /\ LockFor \in Nat
    /\ AttemptMax \in Nat \ {0} /\ GlobalMax \in Nat \ {0}
    /\ MaxBuckets \in Nat /\ MaxTime \in Nat \ {0} /\ MaxAttempts \in Nat

CatalogueMoves == Next /\ UNCHANGED <<dutyVars, limiterVars>>
DutyMoves      == D!Next /\ UNCHANGED <<vars, limiterVars>>
LimiterMoves   == L!Next /\ UNCHANGED <<vars, dutyVars>>

ManagementInit == Init /\ D!Init /\ L!Init
ManagementNext == CatalogueMoves \/ DutyMoves \/ LimiterMoves
ManagementSpec == ManagementInit /\ [][ManagementNext]_allVars

-----------------------------------------------------------------------------
\* The types of all three.
TypesOK == TypeOK /\ D!TypeOK /\ L!TypeOK

\* OnDuty: overlapping updates of the duty table agree on its result.
UpdatesAgree == D!UpdatesAgree

\* LoginLimiter: lock-outs last, and bursts are bounded.
LockOutLasts == L!LockOutLasts
BurstIsBounded == L!BurstIsBounded
=============================================================================
