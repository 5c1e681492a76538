------------------------------- MODULE UserData -------------------------------
(***************************************************************************)
(* The data of the permission snapshot that every edge client keeps in     *)
(* memory (pkg/client/tac_plus/user.go): how it is assembled from the      *)
(* tables of the database and what a login or a command request is         *)
(* answered from it.  No state of its own.                                 *)
(*                                                                         *)
(* A "command" stands for the pair (command line, target device) of an     *)
(* authorization request.  A role's command templates (regular             *)
(* expressions) and its server templates (addresses and address ranges)    *)
(* are each the set of pairs they accept, so that the role permits the     *)
(* intersection of the two.                                                *)
(***************************************************************************)
CONSTANTS
    Users,       \* account names
    Roles,       \* names of role templates
    Cmds,        \* (command line, device) pairs
    Passwords,   \* clear-text passwords
    Hashes,      \* bcrypt hashes (several hashes may stand for one password)
    HashedFrom,  \* the password each hash was made from
    NoRow,       \* no row of tacacs_user has this name
    NoUser,      \* the snapshot has no entry of this name
    NoRole       \* the role is not held, or has no template

ASSUME HashAssumption == HashedFrom \in [Hashes -> Passwords]
Status == {"0", "1", "2"}    \* deleted, normal, paused
StatusNormal == "1"

UserRow == [status : Status, role : SUBSET Roles, password : Hashes]

\* The tables the snapshot is read from, named as their tacacs_meta keys.
Database == [role    : SUBSET Roles,
             server  : [Roles -> SUBSET Cmds],
             command : [Roles -> SUBSET Cmds],
             user    : [Users -> UserRow \cup {NoRow}],
             on_duty : SUBSET Users]

RoleInfo == [Roles -> {NoRole} \cup SUBSET Cmds]
UserInfo == [isOnDuty : BOOLEAN, role : RoleInfo, password : Hashes]
Snapshot == [Users -> UserInfo \cup {NoUser}]

ASSUME SentinelAssumption ==
    /\ NoRow \notin UserRow
    /\ NoUser \notin UserInfo
    /\ \A permitted \in SUBSET Cmds : NoRole # permitted

EmptySnapshot == [u \in Users |-> NoUser]
NoRoles == [r \in Roles |-> NoRole]

\* What a flawless getAllRoleCmdsServers returns for database d.
RolesOf(d) ==
    [r \in Roles |-> IF r \in d.role THEN d.server[r] \cap d.command[r]
                                    ELSE NoRole]

\* The map updateUsers builds from the three reads: only accounts in normal
\* status, only roles that have a template.
BuildUsers(roleInfo, users, onDutyUsers) ==
    [u \in Users |->
        IF users[u] = NoRow \/ users[u].status # StatusNormal
        THEN NoUser
        ELSE [isOnDuty |-> u \in onDutyUsers,
              role     |-> [r \in Roles |-> IF r \in users[u].role
                                            THEN roleInfo[r] ELSE NoRole],
              password |-> users[u].password]]

\* The snapshot that says exactly what database d holds.
SnapshotOf(d) == BuildUsers(RolesOf(d), d.user, d.on_duty)

-----------------------------------------------------------------------------
CheckPasswordHash(password, hash) == HashedFrom[hash] = password

\* generateRoleKey: the names of the roles held, nothing of their contents.
RolesKey(info) == {r \in Roles : info.role[r] # NoRole}

\* checkRoleMatch over all the roles of an account.
SomeRoleMatches(cmd, info) == \E r \in RolesKey(info) : cmd \in info.role[r]

\* The answer HandleAuthenStart owes to a login with this account entry.
AuthenRule(info, password) ==
    /\ info # NoUser
    /\ CheckPasswordHash(password, info.password)
    /\ info.isOnDuty \/ RolesKey(info) # {}

\* The answer HandleAuthorRequest owes to a command with this account entry.
AuthorRule(info, cmd) ==
    /\ info # NoUser
    /\ info.isOnDuty \/ SomeRoleMatches(cmd, info)
=============================================================================
