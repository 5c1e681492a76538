-------------------------------- MODULE Accounts --------------------------------
(***************************************************************************)
(* Accounts and passwords: the rows of tacacs_user as the handlers of      *)
(* handler_user.go write them, the counters of failed passwords, and the   *)
(* two tasks of permissionSystem that pause accounts whose password is too *)
(* old and restore them.                                                   *)
(*                                                                         *)
(* Each database statement and each critical section of the counters is    *)
(* one step.  Which password a row holds is left out: that the one given   *)
(* is right or wrong is chosen when it is compared.  Who may call a        *)
(* handler is modelled in AccessPath; e-mail, telephone, notes and the     *)
(* cards sent to users are left out, the role column is in Approvals.      *)
(***************************************************************************)
EXTENDS Naturals, FiniteSets

CONSTANTS
    Users,
    Requests,            \* the requests served at the same time
    None,
    PasswordTimeout,     \* in units of time
    MaxTime,             \* bound on time
    MaxFaults            \* bound on the failed statements and the restarts of
                         \* the server, together

ASSUME AccountsAssumption ==
    /\ PasswordTimeout \in Nat /\ MaxTime \in Nat /\ MaxFaults \in Nat
    /\ IsFiniteSet(Requests)

Times == 0 .. MaxTime

\* The status column.
StatusDelete == 0
StatusNormal == 1
StatusPause == 2
Status == {StatusDelete, StatusNormal, StatusPause}

TacacsUser == [Status : Status, PasswordUpdateTime : Times]

\* A request checks a password (login) or changes one.
Kinds == {"check", "update"}
Request == [kind : Kinds, user : Users,
            stage : {"counted", "wrong", "right", "updated"}]

ASSUME NoneAssumption == None \notin TacacsUser /\ None \notin Request

VARIABLES
    now,
    users,         \* tacacs_user: a row or None for each name
    userInfos,     \* PermissionSystem.userInfos: the rows last read
    expires,       \* CheckPasswordTimeout: users it is about to pause
    restored,      \* CheckPasswordUnTimeout: users it is about to restore
    errUser,       \* checkPasswordErrUser, updatePasswordErrUser
    request,       \* what each request is doing, or None
    faults

daemonVars == <<userInfos, expires, restored>>
vars == <<now, users, daemonVars, errUser, request, faults>>

NoErrors == [k \in Kinds |-> [u \in Users |-> 0]]
NoInfos == [u \in {} |-> None]

Init ==
    /\ now = 0 /\ users = [u \in Users |-> None]
    /\ userInfos = NoInfos /\ expires = {} /\ restored = {}
    /\ errUser = NoErrors
    /\ request = [q \in Requests |-> None]
    /\ faults = 0

Fault == faults < MaxFaults /\ faults' = faults + 1
Exists(u) == users[u] # None
HasStatus(u, S) == Exists(u) /\ users[u].Status \in S

-----------------------------------------------------------------------------
(* Rows *)

NewRow == [Status |-> StatusNormal, PasswordUpdateTime |-> now]

\* CreateUser.  The name is unique in the table, so the check against a list
\* read earlier does not matter.
CreateUser(u) ==
    /\ ~Exists(u)
    /\ users' = [users EXCEPT ![u] = NewRow]
    /\ UNCHANGED <<now, daemonVars, errUser, request, faults>>

\* CASE WHEN status = '2' THEN '1' ELSE status END
StatusAfterUpdate(status) == IF status = StatusPause THEN StatusNormal ELSE status

UpdateUserPassword(u) ==
    users' = [users EXCEPT ![u] = [Status |-> StatusAfterUpdate(@.Status),
                                   PasswordUpdateTime |-> now]]

\* httpApiUserResetPassword, by an administrator who gave the own password: one
\* transaction, and right after it the counter of failed logins.
ResetUserPassword(u) ==
    /\ Exists(u)
    /\ users' = [users EXCEPT ![u] = NewRow]
    /\ errUser' = [errUser EXCEPT !["check"][u] = 0]
    /\ UNCHANGED <<now, daemonVars, request, faults>>

\* httpApiUserDelete: rows stay.
DeleteUser(u) ==
    /\ Exists(u)
    /\ users' = [users EXCEPT ![u].Status = StatusDelete]
    /\ UNCHANGED <<now, daemonVars, errUser, request, faults>>

\* The statement sets password_update_time, too.
UpdateUserNotes(u) ==
    /\ Exists(u)
    /\ users' = [users EXCEPT ![u].PasswordUpdateTime = now]
    /\ UNCHANGED <<now, daemonVars, errUser, request, faults>>

-----------------------------------------------------------------------------
(* httpApiCheckUser and httpApiUserUpdatePassword *)

\* Mutant: one more attempt.
TooManyBeyond(kind, u) == errUser[kind][u] > 4
\* Refused for the rest of the hour.
TooMany(kind, u) == errUser[kind][u] > 3

Ends(q) == request' = [request EXCEPT ![q] = None]
Stage(q, stage) == request' = [request EXCEPT ![q].stage = stage]

Begin(q, kind, u) ==
    /\ request[q] = None /\ ~TooMany(kind, u)
    /\ request' = [request EXCEPT ![q] =
          [kind |-> kind, user |-> u, stage |-> "counted"]]
    /\ UNCHANGED <<now, users, daemonVars, errUser, faults>>

\* GetTacacsUserInfos: nobody is found if it fails.
ReadUser(q) ==
    /\ request[q] # None /\ request[q].stage = "counted"
    /\ LET u == request[q].user IN
       \/ Fault /\ Ends(q)
       \/ /\ ~HasStatus(u, {StatusNormal, StatusPause})
          /\ Ends(q) /\ UNCHANGED faults
       \/ /\ HasStatus(u, {StatusNormal, StatusPause})
          /\ Stage(q, "right") \/ Stage(q, "wrong")
          /\ UNCHANGED faults
    /\ UNCHANGED <<now, users, daemonVars, errUser>>

\* incrementCheckPasswordFailure and incrementPasswordUpdateFailure
Increment(q) ==
    /\ request[q] # None /\ request[q].stage = "wrong"
    /\ errUser' = [errUser EXCEPT ![request[q].kind][request[q].user] =
                        IF @ < 127 THEN @ + 1 ELSE @]
    /\ Ends(q)
    /\ UNCHANGED <<now, users, daemonVars, faults>>

\* The update itself, for whatever the row holds by now.
Update(q) ==
    /\ request[q] # None /\ request[q].stage = "right" /\ request[q].kind = "update"
    /\ \/ /\ UpdateUserPassword(request[q].user)
          /\ Stage(q, "updated") /\ UNCHANGED faults
       \/ Fault /\ Ends(q) /\ UNCHANGED users
    /\ UNCHANGED <<now, daemonVars, errUser>>

\* resetCheckPasswordFailure and resetPasswordUpdateFailure
Succeed(q) ==
    /\ request[q] # None
    /\ request[q].stage = IF request[q].kind = "check" THEN "right" ELSE "updated"
    /\ errUser' = [errUser EXCEPT ![request[q].kind][request[q].user] = 0]
    /\ Ends(q)
    /\ UNCHANGED <<now, users, daemonVars, faults>>

\* Every hour, and when an administrator asks for it.
ClearFailures(kind) ==
    /\ errUser[kind] # NoErrors[kind]
    /\ errUser' = [errUser EXCEPT ![kind] = NoErrors[kind]]
    /\ UNCHANGED <<now, users, daemonVars, request, faults>>

-----------------------------------------------------------------------------
(* permissionSystem: the tasks run side by side *)

UpdateUserInfos ==
    /\ \/ /\ userInfos' = [u \in {v \in Users : Exists(v)} |-> users[u]]
          /\ UNCHANGED faults
       \/ Fault /\ UNCHANGED userInfos
    /\ UNCHANGED <<now, users, expires, restored, errUser, request>>

Age(info) == now - info.PasswordUpdateTime

\* Mutant: accounts that were disabled are taken along.
MayRestoreAny(info) == info.Status # StatusNormal /\ Age(info) < PasswordTimeout

MayRestore(info) == info.Status = StatusPause /\ Age(info) < PasswordTimeout

\* Mutant: a unit of grace.
MustPauseLate(info) == info.Status = StatusNormal /\ Age(info) > PasswordTimeout + 1

MustPause(info) == info.Status = StatusNormal /\ Age(info) > PasswordTimeout

\* Each task first goes through the snapshot, then writes one batch.
CheckPasswordTimeout ==
    /\ expires = {} /\ expires' = {u \in DOMAIN userInfos : MustPause(userInfos[u])}
    /\ expires' # {}
    /\ UNCHANGED <<now, users, userInfos, restored, errUser, request, faults>>

CheckPasswordUnTimeout ==
    /\ restored = {} /\ restored' = {u \in DOMAIN userInfos : MayRestore(userInfos[u])}
    /\ restored' # {}
    /\ UNCHANGED <<now, users, userInfos, expires, errUser, request, faults>>

\* BatchUpdateUserStatus has no condition on what the rows hold by now.
BatchUpdateUserStatus(S, status) ==
    \/ /\ users' = [u \in Users |-> IF u \in S THEN [users[u] EXCEPT !.Status = status]
                                    ELSE users[u]]
       /\ UNCHANGED faults
    \/ Fault /\ UNCHANGED users

Pause ==
    /\ expires # {} /\ expires' = {}
    /\ BatchUpdateUserStatus(expires, StatusPause)
    /\ UNCHANGED <<now, userInfos, restored, errUser, request>>

Restore ==
    /\ restored # {} /\ restored' = {}
    /\ BatchUpdateUserStatus(restored, StatusNormal)
    /\ UNCHANGED <<now, userInfos, expires, errUser, request>>

-----------------------------------------------------------------------------
Restart ==
    /\ Fault
    /\ userInfos' = NoInfos /\ expires' = {} /\ restored' = {}
    /\ errUser' = NoErrors
    /\ request' = [q \in Requests |-> None]
    /\ UNCHANGED <<now, users>>

Tick ==
    /\ now < MaxTime /\ now' = now + 1
    /\ UNCHANGED <<users, daemonVars, errUser, request, faults>>

Administer(u) ==
    \/ CreateUser(u) \/ ResetUserPassword(u)
    \/ DeleteUser(u) \/ UpdateUserNotes(u)

Serve(q) ==
    \/ \E k \in Kinds, u \in Users : Begin(q, k, u)
    \/ ReadUser(q) \/ Increment(q) \/ Update(q) \/ Succeed(q)

Next ==
    \/ \E u \in Users : Administer(u)
    \/ \E q \in Requests : Serve(q)
    \/ \E k \in Kinds : ClearFailures(k)
    \/ UpdateUserInfos \/ CheckPasswordTimeout \/ CheckPasswordUnTimeout
    \/ Pause \/ Restore
    \/ Restart \/ Tick

Spec == Init /\ [][Next]_vars

\* Each task of the daemon runs in an endless loop of its own.
FairSpec ==
    /\ Spec
    /\ WF_vars(UpdateUserInfos)
    /\ WF_vars(CheckPasswordTimeout) /\ WF_vars(Pause)
    /\ WF_vars(CheckPasswordUnTimeout) /\ WF_vars(Restore)

-----------------------------------------------------------------------------
TypeOK ==
    /\ now \in Times
    /\ users \in [Users -> TacacsUser \cup {None}]
    /\ DOMAIN userInfos \subseteq {u \in Users : Exists(u)}
    /\ \A u \in DOMAIN userInfos :
          /\ userInfos[u] \in TacacsUser
          /\ userInfos[u].PasswordUpdateTime <= users[u].PasswordUpdateTime
    /\ expires \subseteq {u \in Users : Exists(u)}
    /\ restored \subseteq {u \in Users : Exists(u)}
    /\ errUser \in [Kinds -> [Users -> 0 .. 127]]
    /\ request \in [Requests -> Request \cup {None}]
    /\ faults \in 0 .. MaxFaults

\* Count and increment are critical sections of their own, so requests that run
\* together may all pass the check; more than one attempt each is not gained
\* (passwordUpdateFailureCount, incrementPasswordUpdateFailure).
FailuresBounded ==
    \A k \in Kinds, u \in Users : errUser[k][u] <= 3 + Cardinality(Requests)

\* The account is disabled, the daemon knows and is not writing about it.
Disabled(u) ==
    /\ HasStatus(u, {StatusDelete})
    /\ u \in DOMAIN userInfos => userInfos[u].Status = StatusDelete
    /\ u \notin expires \cup restored

\* From then on neither the daemon nor a change of password that was accepted
\* before brings the account back: an administrator has to reset it
\* (UpdateUserPassword, CheckPasswordUnTimeout).
DisabledStays ==
    [][\A u \in Users :
         Disabled(u) => Disabled(u)' \/ ResetUserPassword(u)]_vars

Overdue(u) ==
    Exists(u) /\ users[u].Status = StatusNormal /\ Age(users[u]) > PasswordTimeout
Renewed(u) ==
    Exists(u) /\ users[u].Status = StatusPause /\ Age(users[u]) < PasswordTimeout

\* Whatever snapshot a task worked on: an account whose password is too old
\* does not stay in use, one whose password is fresh does not stay paused.
StatusFollowsPassword ==
    \A u \in Users :
        /\ Overdue(u) ~> ~Overdue(u)
        /\ Renewed(u) ~> ~Renewed(u)

=============================================================================
