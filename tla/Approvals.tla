------------------------------- MODULE Approvals -------------------------------
(***************************************************************************)
(* Temporary permissions: requests (table tacacs_approval), the decisions  *)
(* taken by page (handler_approval.go) and by message card (feishuws), the *)
(* two sweeps of approvalSystem that close requests, and the part of       *)
(* permissionSystem that turns approved requests into the role column of   *)
(* tacacs_user and warns of their end.                                     *)
(*                                                                         *)
(* Time counts in units of twelve hours.  Each database statement is one   *)
(* step.  A decision is one step: what its handler reads before            *)
(* ApproveWithLock, the applicant, never changes.  Who may call a handler  *)
(* is modelled in AccessPath.                                              *)
(***************************************************************************)
EXTENDS Naturals, FiniteSets, RangeMerge

CONSTANTS
    Users,
    Roles,           \* names of role templates
    PermitAny,       \* those whose name contains permitAny
    Periods,         \* the periods asked for
    None,
    MaxRequests,     \* bound on the requests created
    MaxTime,         \* bound on time
    MaxFaults        \* bound on the database statements that fail and on the
                     \* restarts of the server, together

Day == 2
approvalTimeout == Day
Times == 0 .. MaxTime
Ends == 0 .. MaxTime + 1
Requests == 1 .. MaxRequests

\* The status column.
ManualShutdown == 0
TimeoutShutdown == 1
ApprovalFailed == 2
ApprovalUnderReview == 3
ApprovalPass == 4
ExpiredShutdown == 6
Status == {ManualShutdown, TimeoutShutdown, ApprovalFailed,
           ApprovalUnderReview, ApprovalPass, ExpiredShutdown}

Period == [StartTime : Times, EndTime : Ends]
TacacsApproval ==
    [User : Users, ApprovalPermissions : Roles, CreateTime : Times,
     StartTime : Times, EndTime : Ends, Status : Status]

ASSUME ApprovalsAssumption ==
    /\ PermitAny \subseteq Roles /\ Periods \subseteq Period
    /\ MaxRequests \in Nat /\ MaxTime \in Nat /\ MaxFaults \in Nat
    /\ None \notin TacacsApproval

VARIABLES
    now,
    approvals,     \* tacacs_approval: a row or None for each id
    role,          \* tacacs_user: the roles of each user it holds
    mutex,         \* ApprovalSystem.mutex: "free", "review" or "expiry"
    missions,      \* the rows its holder has listed and not yet looked at
    userInfos,     \* PermissionSystem.userInfos
    permissions,   \* PermissionSystem.permissionsInfo
    task,          \* periodicUserUpdate: "users", "roles", "database"
    alarms,        \* roleExpiryAlarmHistory: the warnings of the last day, and when
                   \* they were sent (older ones do not matter any more)
    decisions,     \* history: how often each request was decided
    passed,        \* history: the requests an administrator passed
    faults

requestVars == <<approvals, decisions, passed>>
sweepVars == <<mutex, missions>>
daemonVars == <<userInfos, permissions, task>>
vars == <<now, requestVars, role, sweepVars, daemonVars, alarms, faults>>

\* A map with no keys.
Empty == [u \in {} |-> {}]
NoPermissions == [u \in {} |-> <<>>]

Init ==
    /\ now = 0
    /\ approvals = [i \in Requests |-> None]
    /\ role = Empty
    /\ mutex = "free" /\ missions = {}
    /\ userInfos = Empty /\ permissions = NoPermissions /\ task = "users"
    /\ alarms = {}
    /\ decisions = [i \in Requests |-> 0] /\ passed = {}
    /\ faults = 0

Rows == {i \in Requests : approvals[i] # None}
InStatus(s) == {i \in Rows : approvals[i].Status = s}
Fault == faults < MaxFaults /\ faults' = faults + 1

-----------------------------------------------------------------------------
(* Users, requests and decisions *)

\* CreateUser: the role column is "null".
CreateUser(u) ==
    /\ u \in Users \ DOMAIN role
    /\ role' = [v \in DOMAIN role \cup {u} |-> IF v = u THEN {} ELSE role[v]]
    /\ UNCHANGED <<now, requestVars, sweepVars, daemonVars, alarms, faults>>

\* httpApiApprovalCreate: by a number of days from now, or by start and end.
ValidRange(r, p) ==
    /\ r.StartTime < r.EndTime /\ now < r.EndTime
    /\ p \in PermitAny => r.EndTime - r.StartTime <= Day

Create(u, p, r) ==
    /\ u \in DOMAIN role /\ ValidRange(r, p)
    /\ \E i \in Requests \ Rows :
          /\ \A j \in Requests \ Rows : i <= j
          /\ approvals' = [approvals EXCEPT ![i] =
                [User |-> u, ApprovalPermissions |-> p, CreateTime |-> now,
                 StartTime |-> r.StartTime, EndTime |-> r.EndTime,
                 Status |-> ApprovalUnderReview]]
    /\ UNCHANGED <<now, decisions, passed, role, sweepVars, daemonVars, alarms, faults>>

\* Mutant: the status is not part of the condition of the update.
LockedAny(i) == i \in Rows

\* WHERE id = ? AND status = 3
Locked(i) == i \in InStatus(ApprovalUnderReview)

\* The approver and the time of approval are only displayed, and left out.
\* Nothing changes for those who come too late: they are told so.
ApproveWithLock(i, newStatus) ==
    /\ Locked(i)
    /\ approvals' = [approvals EXCEPT ![i].Status = newStatus]
    /\ decisions' = [decisions EXCEPT ![i] = @ + 1]
    /\ passed' = IF newStatus = ApprovalPass THEN passed \cup {i} ELSE passed
    /\ UNCHANGED <<now, role, sweepVars, daemonVars, alarms, faults>>

\* httpApiApprovalUpdate: administrators pass and reject, they and the applicant
\* withdraw.
DecideByPage(i) ==
    \E s \in {ApprovalPass, ApprovalFailed, ManualShutdown} : ApproveWithLock(i, s)

\* handleCardAction, after resolveAdminByOpenId found an administrator.
DecideByCard(i) ==
    \E s \in {ApprovalPass, ApprovalFailed} : ApproveWithLock(i, s)

-----------------------------------------------------------------------------
(* approvalSystem: two tasks that share a mutex *)

\* Each lists the rows of one status; if there are none it ends at once.
StartSweep(name, s) ==
    /\ mutex = "free" /\ InStatus(s) # {}
    /\ mutex' = name /\ missions' = InStatus(s)
    /\ UNCHANGED <<now, requestVars, role, daemonVars, alarms, faults>>

StartReviewSweep == StartSweep("review", ApprovalUnderReview)
StartExpirySweep == StartSweep("expiry", ApprovalPass)

\* UpdateTacacsApprovalStatus has no condition on the status, and its error is
\* ignored: the sweep goes on as if the row had been closed.
CloseMission(i, newStatus) ==
    \/ approvals' = [approvals EXCEPT ![i].Status = newStatus] /\ UNCHANGED faults
    \/ Fault /\ UNCHANGED approvals

ReviewOver(i) == now - approvals[i].CreateTime > approvalTimeout
\* Mutant: the start is looked at instead of the end.
PermissionBegun(i) == now > approvals[i].StartTime
\* More than a second past the end.
PermissionOver(i) == now > approvals[i].EndTime

\* Mutant: a sweep whose last update failed returns without unlocking.
UnlockOnSuccess == IF missions' = {} /\ faults' = faults THEN "free" ELSE mutex
Unlock == IF missions' = {} THEN "free" ELSE mutex

SweepMission(i) ==
    /\ i \in missions
    /\ missions' = missions \ {i}
    /\ CASE mutex = "review" /\ ReviewOver(i) -> CloseMission(i, TimeoutShutdown)
         [] mutex = "expiry" /\ PermissionOver(i) -> CloseMission(i, ExpiredShutdown)
         [] OTHER -> UNCHANGED <<approvals, faults>>
    /\ mutex' = Unlock
    /\ UNCHANGED <<now, decisions, passed, role, daemonVars, alarms>>

-----------------------------------------------------------------------------
(* permissionSystem *)

\* Each step of periodicUserUpdate goes on to the next one whether it
\* succeeded or kept the old pointer.
UpdateUserInfos ==
    /\ task = "users" /\ task' = "roles"
    /\ \/ userInfos' = role /\ UNCHANGED faults
       \/ Fault /\ UNCHANGED userInfos
    /\ UNCHANGED <<now, requestVars, role, sweepVars, permissions, alarms>>

RangesOf(S, u, p) ==
    {[StartTime |-> approvals[i].StartTime, EndTime |-> approvals[i].EndTime] :
        i \in {j \in S : approvals[j].User = u /\ approvals[j].ApprovalPermissions = p}}

\* The merged ranges of each role of each user of the snapshot.
PermissionsInfo ==
    LET rows == InStatus(ApprovalPass)
        holders == {approvals[i].User : i \in rows} \cap DOMAIN userInfos
    IN  [u \in holders |->
            [p \in {approvals[i].ApprovalPermissions :
                        i \in {j \in rows : approvals[j].User = u}} |->
                mergeRangeTimes(RangesOf(rows, u, p))]]

UpdateRoleInfos ==
    /\ task = "roles" /\ task' = "database"
    /\ \/ permissions' = PermissionsInfo /\ UNCHANGED faults
       \/ Fault /\ UNCHANGED permissions
    /\ UNCHANGED <<now, requestVars, role, sweepVars, userInfos, alarms>>

\* The ranges of a role that hold now: one at most, as they are merged.
Current(u, p) == {k \in DOMAIN permissions[u][p] : Inside(permissions[u][p][k], now)}

getCurrentUserRoleAt(u) ==
    IF u \in DOMAIN permissions
    THEN {p \in DOMAIN permissions[u] : Current(u, p) # {}}
    ELSE {}

\* BatchUpdateUserRole for the users whose role differs from the snapshot's.
UpdateDatabase ==
    /\ task = "database" /\ task' = "users"
    /\ \/ /\ role' = [u \in DOMAIN role |->
                        IF u \in DOMAIN userInfos /\ userInfos[u] # getCurrentUserRoleAt(u)
                        THEN getCurrentUserRoleAt(u) ELSE role[u]]
          /\ UNCHANGED faults
       \/ Fault /\ UNCHANGED role
    /\ UNCHANGED <<now, requestVars, sweepVars, userInfos, permissions, alarms>>

\* computeRoleExpiryAlerts
Tier(remain) ==
    IF remain <= Day \div 2 THEN "12h"
    ELSE IF remain <= Day THEN "1d"
    ELSE IF remain <= 3 * Day THEN "3d" ELSE "none"

Alerts ==
    UNION {UNION {{[user |-> u, level |-> p, expireAt |-> permissions[u][p][k].EndTime,
                    tier |-> Tier(permissions[u][p][k].EndTime - now)] :
                        k \in Current(u, p)} : p \in DOMAIN permissions[u]} :
           u \in DOMAIN permissions}

\* Not sent again within a day: the key holds user, role, end and tier.
Pending ==
    {a \in Alerts : a.tier # "none" /\ \A old \in alarms : old.key # a}

\* Cards may fail to be sent: only those sent are remembered.
CheckRolePermissionExpiry ==
    /\ Pending # {}
    /\ \E sent \in (SUBSET Pending) \ {{}} :
          alarms' = alarms \cup {[key |-> a, sent |-> now] : a \in sent}
    /\ UNCHANGED <<now, requestVars, role, sweepVars, daemonVars, faults>>

-----------------------------------------------------------------------------
Restart ==
    /\ Fault
    /\ mutex' = "free" /\ missions' = {}
    /\ userInfos' = Empty /\ permissions' = NoPermissions /\ task' = "users"
    /\ alarms' = {}
    /\ UNCHANGED <<now, requestVars, role>>

Tick ==
    /\ now < MaxTime /\ now' = now + 1
    /\ alarms' = {old \in alarms : now' - old.sent < Day}
    /\ UNCHANGED <<requestVars, role, sweepVars, daemonVars, faults>>

Decide == \E i \in Requests : DecideByPage(i) \/ DecideByCard(i)
Sweep == StartReviewSweep \/ StartExpirySweep \/ \E i \in Requests : SweepMission(i)
PeriodicUserUpdate == UpdateUserInfos \/ UpdateRoleInfos \/ UpdateDatabase

Next ==
    \/ \E u \in Users : CreateUser(u)
    \/ \E u \in Users, p \in Roles, r \in Periods : Create(u, p, r)
    \/ Decide \/ Sweep \/ PeriodicUserUpdate \/ CheckRolePermissionExpiry
    \/ Restart \/ Tick

Spec == Init /\ [][Next]_vars

\* The loops of the two tasks and of the daemon, and time.  sync.RWMutex lets a
\* task in that waits for it, which is why the start of each sweep is strongly
\* fair.  Nobody has to decide.
FairSpec ==
    /\ Spec
    /\ WF_vars(PeriodicUserUpdate) /\ WF_vars(Tick)
    /\ SF_vars(StartReviewSweep) /\ SF_vars(StartExpirySweep)
    /\ \A i \in Requests : WF_vars(SweepMission(i))

-----------------------------------------------------------------------------
PartialMap(T) == UNION {[D -> T] : D \in SUBSET Users}

TypeOK ==
    /\ now \in Times
    /\ approvals \in [Requests -> TacacsApproval \cup {None}]
    /\ role \in PartialMap(SUBSET Roles) /\ userInfos \in PartialMap(SUBSET Roles)
    /\ mutex \in {"free", "review", "expiry"} /\ (mutex = "free" <=> missions = {})
    /\ missions \subseteq Rows
    /\ task \in {"users", "roles", "database"}
    /\ DOMAIN permissions \subseteq Users
    /\ \A u \in DOMAIN permissions : \A p \in DOMAIN permissions[u] :
          /\ p \in Roles /\ permissions[u][p] \in Seq(Period)
          /\ Cardinality(Current(u, p)) <= 1
    /\ \A a \in alarms : a.sent \in Times /\ a.key.user \in Users
    /\ decisions \in [Requests -> Nat] /\ passed \subseteq Rows
    /\ faults \in 0 .. MaxFaults

\* Two administrators, the applicant and the message card may decide the same
\* request at once: one of them does (ApproveWithLock).
OneDecision == \A i \in Requests : decisions[i] <= 1

\* A decision stands.  Approval ends only after the granted time; otherwise
\* only a review sweep that listed the request while it was pending can set it
\* to timed out (UpdateTacacsApprovalStatus is unconditional).
DecisionsStand ==
    [][\A i \in Rows :
         approvals[i].Status # ApprovalUnderReview
            /\ approvals'[i].Status # approvals[i].Status
         => \/ /\ approvals[i].Status = ApprovalPass
               /\ approvals'[i].Status = ExpiredShutdown
               /\ now > approvals[i].EndTime
            \/ /\ mutex = "review" /\ i \in missions
               /\ approvals'[i].Status = TimeoutShutdown]_vars

\* The requests for role p of user u that an administrator ever passed.
Passed(u, p) ==
    {i \in passed : approvals[i].User = u /\ approvals[i].ApprovalPermissions = p}

\* A role is given only while requests that an administrator passed cover the
\* moment, whatever snapshots of users and requests the daemon works on
\* (getCurrentUserRoleAt on ranges merged earlier).
RoleWithinWindow ==
    [][\A u \in DOMAIN role \cap DOMAIN role' : \A p \in role'[u] \ role[u] :
         Covered(RangesOf(Passed(u, p), u, p), now)]_vars

\* In the end the role column says what the passed requests grant: failed
\* queries, restarts and stale snapshots are made up for by later rounds.
RolesSettle ==
    <>[](\A u \in DOMAIN role :
           role[u] = {p \in Roles :
                LET requests == InStatus(ApprovalPass) \cup InStatus(ExpiredShutdown)
                IN  Covered(RangesOf(requests, u, p), now)})

\* A request that waits too long, and one whose granted time is over, is
\* closed in the end, also when a first attempt failed unnoticed.
RequestsClose ==
    \A i \in Requests :
        /\ (i \in InStatus(ApprovalUnderReview) /\ now - approvals[i].CreateTime > approvalTimeout)
              ~> (i \notin InStatus(ApprovalUnderReview))
        /\ (i \in InStatus(ApprovalPass) /\ now > approvals[i].EndTime)
              ~> (i \notin InStatus(ApprovalPass))

\* Nobody is warned of the end of a permission that another request, passed
\* when the daemon last looked, continues without a gap (mergeRangeTimes).
NoFalseWarning ==
    [][\A a \in alarms' \ alarms :
         \A k \in DOMAIN permissions[a.key.user][a.key.level] :
            LET r == permissions[a.key.user][a.key.level][k] IN
            ~(r.StartTime <= a.key.expireAt /\ a.key.expireAt < r.EndTime)]_vars
=============================================================================
