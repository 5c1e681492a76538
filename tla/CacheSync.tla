------------------------------ MODULE CacheSync ------------------------------
(***************************************************************************)
(* How an edge client keeps its permission snapshot in step with the       *)
(* database (pkg/client/tac_plus/user.go, updateUsers), and how the        *)
(* management server signals changes through the version counters of       *)
(* tacacs_meta (pkg/public/db/meta.go and the triggers of                  *)
(* static/sql/tacacs_meta.sql).                                            *)
(*                                                                         *)
(* updateUsers issues one query after another while the server keeps       *)
(* writing, so each of its queries is a step of its own.                   *)
(***************************************************************************)
EXTENDS UserData, Naturals

CONSTANTS
    InitialDatabases,  \* what the database may hold when the client starts
    Triggers,          \* cfg DatabaseTriggers: a write bumps its version itself
    Swallowed,         \* the queries that may lose rows without an error being seen
    NoVersion,         \* the empty string in tempTacacsTableUpdateTime
    MaxChanges,        \* bound on writes to the database
    MaxFaults          \* bound on failed queries, lost bumps and restarts

\* The keys of tacacs_meta (MetaKeys).
Tables == {"user", "role", "server", "command", "on_duty", "approval"}
Versions == [Tables -> Nat]

\* The queries of updateUsers whose errors nobody looks at, in whole (the row of a
\* role, its templates, the duty list) or of rows.Err() (the two lists).
Queries == {"roles", "row", "servers", "commands", "users", "on_duty"}

ASSUME SyncAssumption ==
    /\ InitialDatabases \subseteq Database
    /\ Triggers \in BOOLEAN
    /\ Swallowed \subseteq Queries
    /\ NoVersion \notin Versions
    /\ NoVersion \notin Database
    /\ MaxChanges \in Nat
    /\ MaxFaults \in Nat

VARIABLES
    db,        \* the tables
    meta,      \* tacacs_meta: the version of each table
    pending,   \* per table: application writes whose bump is still to come
    phase,     \* what updateUsers does next; "idle": it is not running
    seen,      \* tacacsTableUpdateTime, read when updateUsers started
    todo,      \* listed roles whose templates are still to be read
    current,   \* the role whose templates are being read
    roleInfo,  \* the map getAllRoleCmdsServers fills
    users,     \* the rows GetTacacsUserInfos returned
    onDuty,    \* the names GetTacacsOnDutyUser returned
    snapshot,  \* tacacsUserInfo: what requests are answered from
    acked,     \* tempTacacsTableUpdateTime
    changes,   \* writes so far
    faults,    \* faults so far
    unbumped,  \* history: has a write not been followed by a bump yet?
    begun      \* history: the tables when seen was read; NoVersion when idle

tables  == <<db, meta, pending, changes, unbumped>>
reads   == <<todo, current, roleInfo, users, onDuty>>
refresh == <<phase, seen, begun>>
serving == <<snapshot, acked>>
vars    == <<tables, reads, refresh, serving, faults>>

Phases == {"idle", "roles", "row", "servers", "commands", "on_duty",
           "recheck", "store", "ack"}

NoUsers == [u \in Users |-> NoRow]

Init ==
    /\ db \in InitialDatabases
    /\ meta = [t \in Tables |-> 0]
    /\ pending = [t \in Tables |-> 0]
    /\ phase = "idle"
    /\ seen = NoVersion
    /\ todo = {}
    /\ current = NoRole
    /\ roleInfo = NoRoles
    /\ users = NoUsers
    /\ onDuty = {}
    /\ snapshot = EmptySnapshot
    /\ acked = NoVersion
    /\ changes = 0
    /\ faults = 0
    /\ unbumped = FALSE
    /\ begun = NoVersion

-----------------------------------------------------------------------------
(* The management server. *)

Bumped(t) == [meta EXCEPT ![t] = @ + 1]

Fault ==
    /\ faults < MaxFaults
    /\ faults' = faults + 1

\* Rows of a monitored table change: of several accounts in a batch, of a
\* template that several roles list, of a role deleted, or created with its
\* lists of templates.  tacacs_approval is monitored too, but the snapshot holds
\* nothing of it.
Change(t) ==
    CASE t = "user"     -> \E rows \in [Users -> UserRow \cup {NoRow}] :
                               db' = [db EXCEPT !.user = rows]
      [] t = "role"     -> \E r \in Roles :
                               \/ db' = [db EXCEPT !.role = @ \ {r}]
                               \/ \E servers, commands \in SUBSET Cmds :
                                      db' = [db EXCEPT !.role = @ \cup {r},
                                                       !.server[r] = servers,
                                                       !.command[r] = commands]
      [] t = "server"   -> \E permitted \in [Roles -> SUBSET Cmds] :
                               db' = [db EXCEPT !.server = permitted]
      [] t = "command"  -> \E permitted \in [Roles -> SUBSET Cmds] :
                               db' = [db EXCEPT !.command = permitted]
      [] t = "on_duty"  -> \E names \in SUBSET Users :
                               db' = [db EXCEPT !.on_duty = names]
      [] t = "approval" -> UNCHANGED db

\* A write under DatabaseTriggers, where the trigger bumps in the same
\* transaction, or ResetUserPassword, which does so itself without triggers.
TriggeredWrite(t) ==
    /\ Triggers \/ t = "user"
    /\ changes < MaxChanges
    /\ Change(t)
    /\ meta' = Bumped(t)
    /\ unbumped' = FALSE
    /\ changes' = changes + 1
    /\ UNCHANGED <<pending, reads, refresh, serving, faults>>

\* A write without triggers: the handler goes on to BumpMetaVersion(t).
PlainWrite(t) ==
    /\ ~Triggers
    /\ changes < MaxChanges
    /\ Change(t)
    /\ pending' = [pending EXCEPT ![t] = @ + 1]
    /\ unbumped' = TRUE
    /\ changes' = changes + 1
    /\ UNCHANGED <<meta, reads, refresh, serving, faults>>

BumpMetaVersion(t) ==
    /\ pending[t] > 0
    /\ pending' = [pending EXCEPT ![t] = @ - 1]
    /\ meta' = Bumped(t)
    /\ unbumped' = FALSE
    /\ UNCHANGED <<db, changes, reads, refresh, serving, faults>>

\* The Exec of BumpMetaVersion fails, which is only logged; or the writer
\* returns before it, as AddTacacsServerTemplates and CoverTacacsOnDutyUser do
\* when a later statement of theirs fails.
LoseBump(t) ==
    /\ pending[t] > 0
    /\ Fault
    /\ pending' = [pending EXCEPT ![t] = @ - 1]
    /\ UNCHANGED <<db, meta, changes, unbumped, reads, refresh, serving>>

\* One key of an administrator's RefreshAllMeta, which may stop at any key.
RefreshAllMeta(t) ==
    /\ changes < MaxChanges
    /\ meta' = Bumped(t)
    /\ unbumped' = FALSE
    /\ changes' = changes + 1
    /\ UNCHANGED <<db, pending, reads, refresh, serving, faults>>

-----------------------------------------------------------------------------
(* The refresh of the client: updateUsers. *)

GoTo(p) == phase' = p /\ UNCHANGED <<seen, begun>>

\* What is left of a run of updateUsers when it returns.
Return ==
    /\ phase' = "idle"
    /\ seen' = NoVersion
    /\ begun' = NoVersion
    /\ todo' = {}
    /\ current' = NoRole
    /\ roleInfo' = NoRoles
    /\ users' = NoUsers
    /\ onDuty' = {}

\* What a query for the rows of S may return, whether its errors are seen or not.
Delivered(query, S) ==
    IF query \in Swallowed /\ faults < MaxFaults THEN SUBSET S ELSE {S}
CountFault(S, delivered) ==
    faults' = IF delivered = S THEN faults ELSE faults + 1

\* Mutant: the client refreshes only while no version is acknowledged.
StartUpdateOnce ==
    /\ phase = "idle"
    /\ acked = NoVersion
    /\ phase' = "roles"
    /\ seen' = meta
    /\ begun' = db
    /\ UNCHANGED <<tables, reads, serving, faults>>

\* The cron entry fires, the flag isUpdateUsersRunning is free, and
\* GetTablesUpdateTime returns something new.
StartUpdate ==
    /\ phase = "idle"
    /\ acked # meta
    /\ phase' = "roles"
    /\ seen' = meta
    /\ begun' = db
    /\ UNCHANGED <<tables, reads, serving, faults>>

\* GetTacacsRoleTemplates.
ListRoles ==
    /\ phase = "roles"
    /\ \E listed \in Delivered("roles", db.role) :
           /\ todo' = listed
           /\ CountFault(db.role, listed)
    /\ GoTo("row")
    /\ UNCHANGED <<tables, current, roleInfo, users, onDuty, serving>>

\* GetTacacsRoleTemplateByTemplate finds the row of a listed role.
FindRow(r) ==
    /\ phase = "row"
    /\ r \in todo
    /\ r \in db.role
    /\ current' = r
    /\ GoTo("servers")
    /\ UNCHANGED <<tables, todo, roleInfo, users, onDuty, serving, faults>>

\* It does not: the role is gone, or the error was swallowed.
SkipRole(r) ==
    /\ phase = "row"
    /\ r \in todo
    /\ \/ r \notin db.role /\ UNCHANGED faults
       \/ "row" \in Swallowed /\ Fault
    /\ todo' = todo \ {r}
    /\ UNCHANGED <<tables, refresh, current, roleInfo, users, onDuty, serving>>

\* GetTacacsServerTemplatesByTemplate, error discarded.
ReadServers ==
    /\ phase = "servers"
    /\ \E permitted \in Delivered("servers", db.server[current]) :
           /\ roleInfo' = [roleInfo EXCEPT ![current] = permitted]
           /\ CountFault(db.server[current], permitted)
    /\ GoTo("commands")
    /\ UNCHANGED <<tables, todo, current, users, onDuty, serving>>

\* GetTacacsCommandTemplatesByTemplate, error discarded; the role is done.
ReadCommands ==
    /\ phase = "commands"
    /\ \E permitted \in Delivered("commands", db.command[current]) :
           /\ roleInfo' = [roleInfo EXCEPT ![current] = @ \cap permitted]
           /\ CountFault(db.command[current], permitted)
    /\ todo' = todo \ {current}
    /\ current' = NoRole
    /\ GoTo("row")
    /\ UNCHANGED <<tables, users, onDuty, serving>>

\* GetTacacsUserInfos, once every listed role was handled.
ReadUsers ==
    /\ phase = "row"
    /\ todo = {}
    /\ \E kept \in Delivered("users", Users) :
           /\ users' = [u \in Users |-> IF u \in kept THEN db.user[u]
                                                      ELSE NoRow]
           /\ CountFault(Users, kept)
    /\ GoTo("on_duty")
    /\ UNCHANGED <<tables, todo, current, roleInfo, onDuty, serving>>

\* GetTacacsOnDutyUser, which has no error result.
ReadOnDuty ==
    /\ phase = "on_duty"
    /\ \E names \in Delivered("on_duty", db.on_duty) :
           /\ onDuty' = names
           /\ CountFault(db.on_duty, names)
    /\ GoTo("recheck")
    /\ UNCHANGED <<tables, todo, current, roleInfo, users, serving>>

\* Mutant: the version is not read a second time.
ConfirmUnchecked ==
    /\ phase = "recheck"
    /\ GoTo("store")
    /\ UNCHANGED <<tables, reads, serving, faults>>

\* The second GetTablesUpdateTime agrees with the first ...
Confirm ==
    /\ phase = "recheck"
    /\ meta = seen
    /\ GoTo("store")
    /\ UNCHANGED <<tables, reads, serving, faults>>

\* ... or something changed meanwhile, and the next poll starts over.
Discard ==
    /\ phase = "recheck"
    /\ meta # seen
    /\ Return
    /\ UNCHANGED <<tables, serving, faults>>

\* A query whose error is checked fails.
AbortUpdate ==
    /\ phase \in {"roles", "row", "recheck"}
    /\ phase = "row" => todo = {}
    /\ Fault
    /\ Return
    /\ UNCHANGED <<tables, serving>>

\* updateTacacsUserInfoAndCache.
StoreSnapshot ==
    /\ phase = "store"
    /\ snapshot' = BuildUsers(roleInfo, users, onDuty)
    /\ GoTo("ack")
    /\ UNCHANGED <<tables, reads, acked, faults>>

\* Mutant: the version of the moment is acknowledged, not the one confirmed.
AcknowledgeNewest ==
    /\ phase = "ack"
    /\ acked' = meta
    /\ Return
    /\ UNCHANGED <<tables, snapshot, faults>>

\* tempTacacsTableUpdateTime = latestTacacsTableUpdateTime
Acknowledge ==
    /\ phase = "ack"
    /\ acked' = seen
    /\ Return
    /\ UNCHANGED <<tables, snapshot, faults>>

\* Mutant: the five-minute cron entry was not registered.
NoClear ==
    /\ acked = NoVersion
    /\ UNCHANGED vars

\* The five-minute cron entry; it does not look at isUpdateUsersRunning.
ClearTempTacacsTableUpdateTime ==
    /\ acked' = NoVersion
    /\ UNCHANGED <<tables, reads, refresh, snapshot, faults>>

\* The client process dies and is started again.
Restart ==
    /\ Fault
    /\ Return
    /\ snapshot' = EmptySnapshot
    /\ acked' = NoVersion
    /\ UNCHANGED tables

-----------------------------------------------------------------------------
Server == \E t \in Tables : TriggeredWrite(t) \/ PlainWrite(t)
                            \/ RefreshAllMeta(t) \/ LoseBump(t)
Bump == \E t \in Tables : BumpMetaVersion(t)

UpdateUsers ==
    \/ StartUpdate \/ ListRoles
    \/ \E r \in Roles : FindRow(r) \/ SkipRole(r)
    \/ ReadServers \/ ReadCommands \/ ReadUsers \/ ReadOnDuty
    \/ Confirm \/ Discard \/ StoreSnapshot \/ Acknowledge

Next ==
    \/ Server \/ Bump
    \/ UpdateUsers \/ AbortUpdate \/ ClearTempTacacsTableUpdateTime
    \/ Restart

Spec == Init /\ [][Next]_vars

\* robfig/cron keeps firing both entries, a handler that wrote goes on to its
\* bump, and a query returns.  Writes and faults are owed nothing.
PollSpec == Spec /\ WF_vars(UpdateUsers) /\ WF_vars(Bump)
FairSpec == PollSpec /\ WF_vars(ClearTempTacacsTableUpdateTime)

-----------------------------------------------------------------------------
(* What the refresh is for. *)

TypeOK ==
    /\ db \in Database
    /\ meta \in Versions
    /\ pending \in Versions
    /\ phase \in Phases
    /\ seen \in Versions \cup {NoVersion}
    /\ todo \in SUBSET Roles
    /\ current \in Roles \cup {NoRole}
    /\ roleInfo \in RoleInfo
    /\ users \in [Users -> UserRow \cup {NoRow}]
    /\ onDuty \in SUBSET Users
    /\ snapshot \in Snapshot
    /\ acked \in Versions \cup {NoVersion}
    /\ changes \in Nat
    /\ faults \in Nat
    /\ unbumped \in BOOLEAN
    /\ begun \in Database \cup {NoVersion}

\* A version is acknowledged only for a complete snapshot: while the client
\* believes to be up to date (it skips the rebuild because the version is the
\* acknowledged one) and every write was followed by a bump, requests are
\* answered from exactly what the tables hold.
AckedIsCurrent ==
    acked = meta /\ ~unbumped => snapshot = SnapshotOf(db)

\* The snapshot about to be published is the content of the database at one
\* moment, though it was read with many queries: never roles of one moment and
\* users of another.  (With triggers only: without them a write is not visible
\* in the version until its bump.)
PublishedIsAtomic ==
    phase = "store" => BuildUsers(roleInfo, users, onDuty) = SnapshotOf(begun)

\* When the writes and the faults are over, the client ends up answering from
\* what the tables hold and stays there.
EventuallyConsistent == <>[](snapshot = SnapshotOf(db))

\* With triggers and visible errors, all of this machinery amounts to copies of
\* single moments: the database is the content, a refresh takes its candidate
\* when it reads the version, and the copy is certified while the acknowledged
\* version is the newest.
Copy == INSTANCE PublishedCopy WITH
            Contents  <- Database,
            Initially <- InitialDatabases,
            Image     <- SnapshotOf,
            EmptyCopy <- EmptySnapshot,
            NoContent <- NoVersion,
            content   <- db,
            candidate <- begun,
            published <- snapshot,
            certified <- acked = meta /\ ~unbumped

\* updateUsers implements PublishedCopy: whatever the server writes between two
\* of its queries, it publishes contents of one moment, nothing else ever
\* changes what requests are answered from, and every write revokes the
\* client's belief to be up to date.
PublishesCopies == Copy!Spec

-----------------------------------------------------------------------------
(* Why these hold: the inductive invariant of CacheSyncProofs. *)

AtMost(v, w) == \A t \in Tables : v[t] <= w[t]

\* Versions only grow, and a refresh runs only while the acknowledged version
\* is behind the one it started from, so behind every later one as well.
VersionsOrdered ==
    /\ phase # "idle" =>
           /\ seen \in Versions
           /\ begun \in Database
           /\ AtMost(seen, meta)
           /\ acked \in Versions => AtMost(acked, seen) /\ acked # seen
    /\ acked \in Versions => AtMost(acked, meta)

\* Where updateUsers is in its two loops.
LoopsInOrder ==
    /\ phase \in {"idle", "roles"} => todo = {} /\ roleInfo = NoRoles
    /\ phase \in {"servers", "commands"} => current \in todo
    /\ phase \in {"on_duty", "recheck", "store", "ack"} => todo = {}
    /\ phase = "ack" => snapshot = BuildUsers(roleInfo, users, onDuty)

\* What was read so far agrees with database d.
ReadsAgree(d) ==
    /\ phase # "roles" =>
           /\ todo \subseteq d.role
           /\ \A r \in Roles \ todo : roleInfo[r] = RolesOf(d)[r]
    /\ phase = "commands" => roleInfo[current] = d.server[current]
    /\ phase \in {"on_duty", "recheck", "store", "ack"} => users = d.user
    /\ phase \in {"recheck", "store", "ack"} => onDuty = d.on_duty

Undisturbed == phase # "idle" /\ seen = meta /\ ~unbumped

SyncInv ==
    /\ TypeOK
    /\ VersionsOrdered
    /\ LoopsInOrder
    /\ Undisturbed => begun = db /\ ReadsAgree(db)
    /\ Triggers => ~unbumped
    /\ Triggers /\ phase \in {"store", "ack"} => ReadsAgree(begun)
    /\ AckedIsCurrent
=============================================================================
