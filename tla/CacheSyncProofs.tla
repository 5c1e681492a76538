--------------------------- MODULE CacheSyncProofs ---------------------------
(* Proofs about CacheSync, for any numbers of accounts, roles and changes. *)
EXTENDS CacheSync, TLAPS

\* Any change to a table leaves the database well-formed.
LEMMA ChangeType ==
    ASSUME NEW t \in Tables, db \in Database, Change(t)
    PROVE  db' \in Database
<1>1. CASE t = "user"
    BY <1>1 DEF Change, Database
<1>2. CASE t = "role"
    <2>1. PICK r \in Roles :
              \/ db' = [db EXCEPT !.role = @ \ {r}]
              \/ \E servers, commands \in SUBSET Cmds :
                     db' = [db EXCEPT !.role = @ \cup {r},
                                      !.server[r] = servers,
                                      !.command[r] = commands]
        BY <1>2 DEF Change
    <2>2. CASE db' = [db EXCEPT !.role = @ \ {r}]
        BY <2>2 DEF Database
    <2>3. ASSUME NEW servers \in SUBSET Cmds, NEW commands \in SUBSET Cmds,
                 db' = [db EXCEPT !.role = @ \cup {r},
                                  !.server[r] = servers,
                                  !.command[r] = commands]
          PROVE  db' \in Database
        BY <2>3 DEF Database
    <2> QED  BY <2>1, <2>2, <2>3
<1>3. CASE t = "server"
    BY <1>3 DEF Change, Database
<1>4. CASE t = "command"
    BY <1>4 DEF Change, Database
<1>5. CASE t = "on_duty"
    BY <1>5 DEF Change, Database
<1>6. CASE t = "approval"
    BY <1>6 DEF Change
<1> QED
    BY <1>1, <1>2, <1>3, <1>4, <1>5, <1>6 DEF Tables

\* Building a snapshot from well-formed reads gives a well-formed snapshot.
LEMMA BuildUsersType ==
    ASSUME NEW ri \in RoleInfo,
           NEW us \in [Users -> UserRow \cup {NoRow}],
           NEW od \in SUBSET Users
    PROVE  BuildUsers(ri, us, od) \in Snapshot
<1>1. SUFFICES ASSUME NEW u \in Users, us[u] # NoRow
               PROVE  [isOnDuty |-> u \in od,
                       role     |-> [r \in Roles |-> IF r \in us[u].role
                                                     THEN ri[r] ELSE NoRole],
                       password |-> us[u].password] \in UserInfo
    BY DEF BuildUsers, Snapshot
<1>2. us[u] \in UserRow
    BY <1>1
<1>3. [r \in Roles |-> IF r \in us[u].role THEN ri[r] ELSE NoRole] \in RoleInfo
    BY DEF RoleInfo
<1> QED
    BY <1>2, <1>3 DEF UserInfo, UserRow

\* A read that fails midway delivers some of the rows.
LEMMA DeliveredType ==
    ASSUME NEW query, NEW S, NEW delivered \in Delivered(query, S)
    PROVE  delivered \subseteq S
    BY DEF Delivered

-----------------------------------------------------------------------------
\* A client that starts has well-typed state.
LEMMA InitType == Init => TypeOK
<1> SUFFICES ASSUME Init PROVE TypeOK
    OBVIOUS
<1> USE SyncAssumption DEF Init
<1>1. db \in Database
    OBVIOUS
<1>2. meta \in Versions /\ pending \in Versions
    BY DEF Versions
<1>3. roleInfo \in RoleInfo /\ users \in [Users -> UserRow \cup {NoRow}]
    BY DEF NoRoles, RoleInfo, NoUsers
<1>4. snapshot \in Snapshot
    BY DEF EmptySnapshot, Snapshot
<1> QED
    BY <1>1, <1>2, <1>3, <1>4 DEF TypeOK, Phases

\* Every step of the database and of the refresh keeps the types.
LEMMA NextType == TypeOK /\ [Next]_vars => TypeOK'
<1> SUFFICES ASSUME TypeOK, [Next]_vars PROVE TypeOK'
    OBVIOUS
<1> USE SyncAssumption
<1>b. \A t \in Tables : Bumped(t) \in Versions
    BY DEF TypeOK, Versions, Bumped
<1>p. \A t \in Tables : /\ [pending EXCEPT ![t] = @ + 1] \in Versions
                        /\ pending[t] > 0 =>
                               [pending EXCEPT ![t] = @ - 1] \in Versions
    BY DEF TypeOK, Versions
<1>n. changes + 1 \in Nat /\ faults + 1 \in Nat
    BY DEF TypeOK
<1>1. ASSUME NEW t \in Tables, TriggeredWrite(t) PROVE TypeOK'
    <2>1. db' \in Database /\ meta' \in Versions
        BY <1>1, <1>b, ChangeType DEF TypeOK, TriggeredWrite
    <2>2. changes' \in Nat /\ unbumped' \in BOOLEAN
        BY <1>1, <1>n DEF TriggeredWrite
    <2> QED
        BY <1>1, <2>1, <2>2 DEF TypeOK, TriggeredWrite, reads, refresh, serving
<1>2. ASSUME NEW t \in Tables, PlainWrite(t) PROVE TypeOK'
    <2>1. db' \in Database /\ pending' \in Versions
        BY <1>2, <1>p, ChangeType DEF TypeOK, PlainWrite
    <2>2. changes' \in Nat /\ unbumped' \in BOOLEAN
        BY <1>2, <1>n DEF PlainWrite
    <2> QED
        BY <1>2, <2>1, <2>2 DEF TypeOK, PlainWrite, reads, refresh, serving
<1>3. ASSUME NEW t \in Tables, BumpMetaVersion(t) PROVE TypeOK'
    BY <1>3, <1>b, <1>p DEF TypeOK, BumpMetaVersion, reads, refresh, serving
<1>4. ASSUME NEW t \in Tables, LoseBump(t) PROVE TypeOK'
    <2>1. pending' \in Versions /\ faults' \in Nat
        BY <1>4, <1>p, <1>n DEF LoseBump, Fault
    <2> QED
        BY <1>4, <2>1 DEF TypeOK, LoseBump, reads, refresh, serving
<1>5. ASSUME NEW t \in Tables, RefreshAllMeta(t) PROVE TypeOK'
    <2>1. meta' \in Versions /\ changes' \in Nat /\ unbumped' \in BOOLEAN
        BY <1>5, <1>b, <1>n DEF RefreshAllMeta
    <2> QED
        BY <1>5, <2>1 DEF TypeOK, RefreshAllMeta, reads, refresh, serving
<1>6. CASE StartUpdate
    BY <1>6 DEF TypeOK, StartUpdate, Phases, tables, reads, serving
<1>7. CASE ListRoles
    BY <1>7, DeliveredType
       DEF TypeOK, ListRoles, GoTo, CountFault, Phases, Database, tables, serving
<1>8. ASSUME NEW r \in Roles, FindRow(r) PROVE TypeOK'
    BY <1>8 DEF TypeOK, FindRow, GoTo, Phases, tables, serving
<1>9. ASSUME NEW r \in Roles, SkipRole(r) PROVE TypeOK'
    BY <1>9 DEF TypeOK, SkipRole, Fault, tables, refresh, serving
<1>10. CASE ReadServers
    <2>1. PICK permitted \in Delivered("servers", db.server[current]) :
              /\ roleInfo' = [roleInfo EXCEPT ![current] = permitted]
              /\ CountFault(db.server[current], permitted)
        BY <1>10 DEF ReadServers
    <2>2. current \in Roles => permitted \in SUBSET Cmds
        BY <2>1, DeliveredType DEF TypeOK, Database
    <2>3. roleInfo' \in RoleInfo
        BY <2>1, <2>2 DEF TypeOK, RoleInfo
    <2> QED
        BY <1>10, <2>1, <2>3
           DEF TypeOK, ReadServers, GoTo, CountFault, Phases, tables, serving
<1>11. CASE ReadCommands
    <2>1. PICK permitted \in Delivered("commands", db.command[current]) :
              /\ roleInfo' = [roleInfo EXCEPT ![current] = @ \cap permitted]
              /\ CountFault(db.command[current], permitted)
        BY <1>11 DEF ReadCommands
    <2>2. current \in Roles => permitted \in SUBSET Cmds
        BY <2>1, DeliveredType DEF TypeOK, Database
    <2>3. roleInfo' \in RoleInfo
        BY <2>1, <2>2 DEF TypeOK, RoleInfo
    <2> QED
        BY <1>11, <2>1, <2>3
           DEF TypeOK, ReadCommands, GoTo, CountFault, Phases, tables, serving
<1>12. CASE ReadUsers
    BY <1>12 DEF TypeOK, ReadUsers, GoTo, CountFault, Phases, Database,
                 tables, serving
<1>13. CASE ReadOnDuty
    BY <1>13, DeliveredType
       DEF TypeOK, ReadOnDuty, GoTo, CountFault, Phases, Database, tables, serving
<1>r. Return => /\ phase' \in Phases
                /\ seen' \in Versions \cup {NoVersion}
                /\ begun' \in Database \cup {NoVersion}
                /\ todo' \in SUBSET Roles
                /\ current' \in Roles \cup {NoRole}
                /\ roleInfo' \in RoleInfo
                /\ users' \in [Users -> UserRow \cup {NoRow}]
                /\ onDuty' \in SUBSET Users
    BY DEF Return, Phases, NoRoles, RoleInfo, NoUsers
<1>14. CASE Confirm
    BY <1>14 DEF TypeOK, Confirm, GoTo, Phases, tables, reads, serving
<1>15. CASE Discard
    BY <1>15, <1>r DEF TypeOK, Discard, tables, serving
<1>16. CASE AbortUpdate
    BY <1>16, <1>r DEF TypeOK, AbortUpdate, Fault, tables, serving
<1>17. CASE StoreSnapshot
    BY <1>17, BuildUsersType
       DEF TypeOK, StoreSnapshot, GoTo, Phases, tables, reads
<1>18. CASE Acknowledge
    BY <1>18, <1>r DEF TypeOK, Acknowledge, tables
<1>19. CASE ClearTempTacacsTableUpdateTime
    BY <1>19 DEF TypeOK, ClearTempTacacsTableUpdateTime, tables, reads, refresh
<1>20. CASE Restart
    <2>1. EmptySnapshot \in Snapshot
        BY DEF EmptySnapshot, Snapshot
    <2> QED  BY <1>20, <1>r, <2>1 DEF TypeOK, Restart, Fault, tables
<1>21. CASE UNCHANGED vars
    BY <1>21 DEF TypeOK, vars, tables, reads, refresh, serving
<1> QED
    BY <1>1, <1>2, <1>3, <1>4, <1>5, <1>6, <1>7, <1>8, <1>9, <1>10, <1>11,
       <1>12, <1>13, <1>14, <1>15, <1>16, <1>17, <1>18, <1>19, <1>20, <1>21
       DEF Next, Server, Bump, UpdateUsers

\* Every variable keeps its type.
THEOREM TypeCorrect == Spec => []TypeOK
    BY InitType, NextType, PTL DEF Spec

-----------------------------------------------------------------------------
(* The acknowledged version and the snapshot. *)

\* A bump leaves every older version strictly behind.
LEMMA BumpedIsNewer ==
    ASSUME NEW t \in Tables, NEW v \in Versions,
           meta \in Versions, AtMost(v, meta)
    PROVE  AtMost(v, Bumped(t)) /\ v # Bumped(t)
<1>1. v[t] <= meta[t] /\ Bumped(t)[t] = meta[t] + 1
    BY DEF AtMost, Bumped, Versions
<1>2. v[t] # Bumped(t)[t]
    BY <1>1 DEF Versions
<1>3. \A s \in Tables : v[s] <= Bumped(t)[s]
    BY DEF AtMost, Bumped, Versions
<1> QED
    BY <1>2, <1>3 DEF AtMost

\* Versions that bound each other are the same.
LEMMA AtMostAntisymmetric ==
    ASSUME NEW v \in Versions, NEW w \in Versions, AtMost(v, w), AtMost(w, v)
    PROVE  v = w
<1>1. \A t \in Tables : v[t] = w[t]
    BY DEF AtMost, Versions
<1> QED
    BY <1>1 DEF Versions

\* While a refresh runs, the acknowledged version is not the current one.
LEMMA BehindWhileRunning ==
    ASSUME TypeOK, VersionsOrdered, phase # "idle"
    PROVE  acked # meta
<1>1. CASE acked \in Versions
    <2>1. seen \in Versions /\ AtMost(acked, seen) /\ acked # seen
          /\ AtMost(seen, meta)
        BY <1>1 DEF VersionsOrdered
    <2> QED
        BY <1>1, <2>1, AtMostAntisymmetric
<1>2. CASE acked = NoVersion
    BY <1>2, SyncAssumption DEF TypeOK
<1> QED
    BY <1>1, <1>2 DEF TypeOK

\* Reads that agree with a database make up its snapshot.
LEMMA AgreedSnapshot ==
    ASSUME TypeOK, LoopsInOrder, NEW d \in Database,
           phase \in {"store", "ack"}, ReadsAgree(d)
    PROVE  BuildUsers(roleInfo, users, onDuty) = SnapshotOf(d)
<1>1. \A r \in Roles : roleInfo[r] = RolesOf(d)[r]
    BY DEF LoopsInOrder, ReadsAgree
<1>2. roleInfo = RolesOf(d)
    BY <1>1 DEF TypeOK, RoleInfo, RolesOf
<1> QED
    BY <1>2 DEF ReadsAgree, SnapshotOf

\* A client that starts, holding no version, is in sync.
LEMMA InitSync == Init => SyncInv
<1> SUFFICES ASSUME Init PROVE SyncInv
    OBVIOUS
<1>1. /\ acked = NoVersion /\ phase = "idle" /\ unbumped = FALSE
      /\ todo = {} /\ roleInfo = NoRoles
    BY DEF Init
<1>2. acked \notin Versions /\ acked # meta
    BY <1>1, InitType, SyncAssumption DEF TypeOK
<1> QED
    BY <1>1, <1>2, InitType
       DEF SyncInv, VersionsOrdered, LoopsInOrder, Undisturbed, AckedIsCurrent

\* While no read error is swallowed, every step keeps the invariant.
LEMMA NextSync ==
    ASSUME Swallowed = {}, SyncInv, [Next]_vars
    PROVE  SyncInv'
<1> USE SyncAssumption
<1>t. TypeOK /\ TypeOK'
    BY NextType DEF SyncInv
<1>v. VersionsOrdered /\ LoopsInOrder
    BY DEF SyncInv
\* A bump by the server: whatever the refresh read is now out of date.
<1>1. ASSUME NEW t \in Tables, meta' = Bumped(t), unbumped' = FALSE,
             UNCHANGED <<reads, refresh, serving>>
      PROVE  SyncInv'
    <2> USE <1>1 DEF reads, refresh, serving
    <2>1. phase # "idle" => AtMost(seen, meta') /\ seen # meta'
        BY <1>t, <1>v, BumpedIsNewer DEF VersionsOrdered, TypeOK
    <2>2. acked \in Versions => AtMost(acked, meta') /\ acked # meta'
        BY <1>t, <1>v, BumpedIsNewer DEF VersionsOrdered, TypeOK
    <2>3. VersionsOrdered'
        BY <1>v, <2>1, <2>2 DEF VersionsOrdered, AtMost
    <2>4. LoopsInOrder'
        BY <1>v DEF LoopsInOrder
    <2>5. ~Undisturbed'
        BY <2>1 DEF Undisturbed
    <2>6. AckedIsCurrent'
        BY <2>2, <1>t DEF AckedIsCurrent, TypeOK
    <2>7. (Triggers /\ phase \in {"store", "ack"} => ReadsAgree(begun))'
        BY DEF SyncInv, ReadsAgree
    <2> QED
        BY <1>t, <2>3, <2>4, <2>5, <2>6, <2>7 DEF SyncInv
<1>2. ASSUME NEW t \in Tables, PlainWrite(t) PROVE SyncInv'
    <2> USE <1>2 DEF PlainWrite, reads, refresh, serving
    <2>1. VersionsOrdered'
        BY <1>v DEF VersionsOrdered, AtMost
    <2>2. LoopsInOrder'
        BY <1>v DEF LoopsInOrder
    <2> QED
        BY <1>t, <2>1, <2>2 DEF SyncInv, Undisturbed, AckedIsCurrent
\* The version and the tables stay, and so does what was read.
<1>3. ASSUME UNCHANGED <<db, meta, unbumped, reads, refresh, snapshot>>,
             acked' = acked \/ acked' = NoVersion
      PROVE  SyncInv'
    <2> USE <1>3 DEF reads, refresh
    <2>1. VersionsOrdered'
        BY <1>v DEF VersionsOrdered, AtMost
    <2>2. LoopsInOrder'
        BY <1>v DEF LoopsInOrder
    <2>3. AckedIsCurrent'
        BY <1>t DEF SyncInv, AckedIsCurrent, TypeOK
    <2>4. (Undisturbed => begun = db /\ ReadsAgree(db))'
        BY DEF SyncInv, Undisturbed, ReadsAgree
    <2>5. (Triggers /\ phase \in {"store", "ack"} => ReadsAgree(begun))'
        BY DEF SyncInv, ReadsAgree
    <2> QED
        BY <1>t, <2>1, <2>2, <2>3, <2>4, <2>5 DEF SyncInv
\* A step of a running refresh that keeps what it started from: it is enough
\* that the loops stay in order and the reads keep agreeing.
<1>4. ASSUME UNCHANGED <<tables, seen, begun, acked>>,
             phase # "idle", phase' # "idle",
             LoopsInOrder',
             Undisturbed => ReadsAgree(db)',
             Triggers /\ phase' \in {"store", "ack"} => ReadsAgree(begun)'
      PROVE  SyncInv'
    <2> USE <1>4 DEF tables
    <2>1. VersionsOrdered'
        BY <1>v DEF VersionsOrdered, AtMost
    <2>2. AckedIsCurrent'
        BY <1>t, <1>v, BehindWhileRunning DEF AckedIsCurrent
    <2>3. (Undisturbed => begun = db /\ ReadsAgree(db))'
        BY DEF SyncInv, Undisturbed
    <2> QED
        BY <1>t, <2>1, <2>2, <2>3 DEF SyncInv
\* A refresh that ends, and what it leaves acknowledged.
<1>5. ASSUME UNCHANGED tables, Return,
             acked' \in Versions => AtMost(acked', meta),
             AckedIsCurrent'
      PROVE  SyncInv'
    <2>1. phase' = "idle" /\ meta' = meta
        BY <1>5 DEF Return, tables
    <2>2. VersionsOrdered'
        BY <1>5, <2>1 DEF VersionsOrdered, AtMost
    <2>3. LoopsInOrder' /\ ~Undisturbed'
        BY <1>5, <2>1 DEF LoopsInOrder, Undisturbed, Return
    <2> QED
        BY <1>t, <1>5, <2>1, <2>2, <2>3 DEF SyncInv, tables
<1>d. \A query, S : Delivered(query, S) = {S}
    BY DEF Delivered
<1>6. CASE StartUpdate
    <2> USE <1>6 DEF StartUpdate, tables, reads, serving
    <2>1. VersionsOrdered'
        BY <1>t, <1>v DEF VersionsOrdered, AtMost, TypeOK, Versions
    <2>2. LoopsInOrder'
        BY <1>v DEF LoopsInOrder
    <2>3. AckedIsCurrent'
        BY DEF AckedIsCurrent
    <2> QED
        BY <1>t, <2>1, <2>2, <2>3 DEF SyncInv, ReadsAgree
<1>7. CASE ListRoles
    <2>1. todo' = db.role /\ phase = "roles" /\ phase' = "row"
          /\ UNCHANGED <<tables, seen, begun, acked, current, roleInfo, users,
                        onDuty, snapshot>>
        BY <1>7, <1>d DEF ListRoles, GoTo, serving
    <2>2. LoopsInOrder'
        BY <2>1 DEF LoopsInOrder
    <2>3. ReadsAgree(db)'
        BY <2>1, <1>t, <1>v
           DEF ReadsAgree, LoopsInOrder, RolesOf, NoRoles, tables
    <2> QED
        BY <2>1, <2>2, <2>3, <1>4
<1>8. ASSUME NEW r \in Roles, FindRow(r) PROVE SyncInv'
    <2>1. r \in todo /\ current' = r /\ phase = "row" /\ phase' = "servers"
          /\ UNCHANGED <<tables, seen, begun, acked, todo, roleInfo, users,
                        onDuty, snapshot>>
        BY <1>8 DEF FindRow, GoTo, serving
    <2>2. LoopsInOrder'
        BY <2>1 DEF LoopsInOrder
    <2>3. Undisturbed => ReadsAgree(db)'
        BY <2>1 DEF SyncInv, ReadsAgree, RolesOf, tables
    <2> QED
        BY <2>1, <2>2, <2>3, <1>4
<1>9. ASSUME NEW r \in Roles, SkipRole(r) PROVE SyncInv'
    <2>1. r \in todo /\ r \notin db.role /\ todo' = todo \ {r}
          /\ phase = "row" /\ phase' = "row"
          /\ UNCHANGED <<tables, seen, begun, acked, current, roleInfo, users,
                        onDuty, snapshot>>
        BY <1>9 DEF SkipRole, refresh, serving
    <2>2. LoopsInOrder'
        BY <2>1 DEF LoopsInOrder
    \* A role listed and not found was deleted: the version moved on.
    <2>3. ~Undisturbed
        BY <2>1 DEF SyncInv, ReadsAgree
    <2> QED
        BY <2>1, <2>2, <2>3, <1>4
<1>10. CASE ReadServers
    <2>1. phase = "servers" /\ phase' = "commands"
          /\ roleInfo' = [roleInfo EXCEPT ![current] = db.server[current]]
          /\ UNCHANGED <<tables, seen, begun, acked, todo, current, users,
                        onDuty, snapshot>>
        BY <1>10, <1>d DEF ReadServers, GoTo, serving
    <2>2. LoopsInOrder'
        BY <2>1, <1>v DEF LoopsInOrder
    <2>3. current \in todo /\ current \in Roles
        BY <2>1, <1>t, <1>v DEF LoopsInOrder, TypeOK
    <2>4. roleInfo'[current] = db.server[current]
          /\ \A r \in Roles \ todo : roleInfo'[r] = roleInfo[r]
        BY <2>1, <2>3, <1>t DEF TypeOK, RoleInfo
    <2>5. Undisturbed => ReadsAgree(db)'
        BY <2>1, <2>4 DEF SyncInv, ReadsAgree, RolesOf, tables
    <2> QED
        BY <2>1, <2>2, <2>5, <1>4
<1>11. CASE ReadCommands
    <2>1. phase = "commands" /\ phase' = "row" /\ todo' = todo \ {current}
          /\ roleInfo' = [roleInfo EXCEPT ![current] =
                                             @ \cap db.command[current]]
          /\ UNCHANGED <<tables, seen, begun, acked, users, onDuty, snapshot>>
        BY <1>11, <1>d DEF ReadCommands, GoTo, serving
    <2>2. LoopsInOrder'
        BY <2>1, <1>v DEF LoopsInOrder
    <2>3. current \in todo /\ current \in Roles
        BY <2>1, <1>t, <1>v DEF LoopsInOrder, TypeOK
    <2>4. roleInfo'[current] = roleInfo[current] \cap db.command[current]
          /\ \A r \in Roles \ {current} : roleInfo'[r] = roleInfo[r]
        BY <2>1, <2>3, <1>t DEF TypeOK, RoleInfo
    <2>5. ASSUME Undisturbed PROVE ReadsAgree(db)'
        <3>1. ReadsAgree(db)
            BY <2>5 DEF SyncInv
        <3>2. roleInfo'[current] = RolesOf(db)[current]
            BY <3>1, <2>1, <2>3, <2>4 DEF ReadsAgree, RolesOf
        <3>3. \A r \in Roles \ todo' : roleInfo'[r] = RolesOf(db)[r]
            BY <3>1, <3>2, <2>1, <2>4 DEF ReadsAgree
        <3> QED
            BY <3>1, <3>3, <2>1 DEF ReadsAgree, RolesOf, tables
    <2> QED
        BY <2>1, <2>2, <2>5, <1>4
<1>12. CASE ReadUsers
    <2>1. phase = "row" /\ phase' = "on_duty" /\ todo = {}
          /\ users' = [u \in Users |-> db.user[u]]
          /\ UNCHANGED <<tables, seen, begun, acked, todo, current, roleInfo,
                        onDuty, snapshot>>
        BY <1>12, <1>d DEF ReadUsers, GoTo, serving
    <2>2. users' = db.user
        BY <2>1, <1>t DEF TypeOK, Database
    <2>3. LoopsInOrder'
        BY <2>1, <1>v DEF LoopsInOrder
    <2>4. Undisturbed => ReadsAgree(db)'
        BY <2>1, <2>2 DEF SyncInv, ReadsAgree, RolesOf, tables
    <2> QED
        BY <2>1, <2>3, <2>4, <1>4
<1>13. CASE ReadOnDuty
    <2>1. phase = "on_duty" /\ phase' = "recheck" /\ onDuty' = db.on_duty
          /\ UNCHANGED <<tables, seen, begun, acked, todo, current, roleInfo,
                        users, snapshot>>
        BY <1>13, <1>d DEF ReadOnDuty, GoTo, serving
    <2>2. LoopsInOrder'
        BY <2>1, <1>v DEF LoopsInOrder
    <2>3. Undisturbed => ReadsAgree(db)'
        BY <2>1 DEF SyncInv, ReadsAgree, RolesOf, tables
    <2> QED
        BY <2>1, <2>2, <2>3, <1>4
\* Here the version read last vouches for everything read since the first.
<1>14. CASE Confirm
    <2>1. phase = "recheck" /\ phase' = "store" /\ meta = seen
          /\ UNCHANGED <<tables, seen, begun, acked, todo, current, roleInfo,
                        users, onDuty, snapshot>>
        BY <1>14 DEF Confirm, GoTo, reads, serving
    <2>2. LoopsInOrder'
        BY <2>1, <1>v DEF LoopsInOrder
    <2>3. ASSUME Undisturbed PROVE begun = db /\ ReadsAgree(db)'
        BY <2>1, <2>3 DEF SyncInv, ReadsAgree, RolesOf, tables
    <2>4. Triggers => Undisturbed
        BY <2>1 DEF SyncInv, Undisturbed
    <2>5. Triggers => ReadsAgree(begun)'
        BY <2>1, <2>3, <2>4 DEF ReadsAgree, RolesOf, tables
    <2> QED
        BY <2>1, <2>2, <2>3, <2>5, <1>4
<1>15. CASE Discard
    BY <1>15, <1>v, <1>5
       DEF Discard, serving, VersionsOrdered, SyncInv, AckedIsCurrent, tables
<1>16. CASE AbortUpdate
    BY <1>16, <1>v, <1>5
       DEF AbortUpdate, serving, VersionsOrdered, SyncInv, AckedIsCurrent, tables
<1>17. CASE StoreSnapshot
    <2>1. phase = "store" /\ phase' = "ack"
          /\ snapshot' = BuildUsers(roleInfo, users, onDuty)
          /\ UNCHANGED <<tables, seen, begun, acked, todo, current, roleInfo,
                        users, onDuty>>
        BY <1>17 DEF StoreSnapshot, GoTo, reads
    <2>2. LoopsInOrder'
        BY <2>1, <1>v DEF LoopsInOrder
    <2>3. Undisturbed => ReadsAgree(db)'
        BY <2>1 DEF SyncInv, ReadsAgree, RolesOf, tables
    <2>4. Triggers => ReadsAgree(begun)'
        BY <2>1 DEF SyncInv, ReadsAgree, RolesOf, tables
    <2> QED
        BY <2>1, <2>2, <2>3, <2>4, <1>4
<1>18. CASE Acknowledge
    <2>1. phase = "ack" /\ acked' = seen /\ Return
          /\ UNCHANGED <<tables, snapshot>>
        BY <1>18 DEF Acknowledge
    <2>2. AtMost(acked', meta)
        BY <2>1, <1>v DEF VersionsOrdered
    <2>3. ASSUME seen = meta, ~unbumped PROVE snapshot = SnapshotOf(db)
        BY <2>1, <2>3, <1>t, <1>v, AgreedSnapshot
           DEF SyncInv, Undisturbed, LoopsInOrder, TypeOK
    <2>4. AckedIsCurrent'
        BY <2>1, <2>3 DEF AckedIsCurrent, tables
    <2> QED
        BY <2>1, <2>2, <2>4, <1>5
<1>19. CASE ClearTempTacacsTableUpdateTime
    BY <1>19, <1>3 DEF ClearTempTacacsTableUpdateTime, tables
<1>20. CASE Restart
    <2>1. AckedIsCurrent'
        BY <1>20, <1>t DEF Restart, AckedIsCurrent, TypeOK
    <2> QED
        BY <1>20, <2>1, <1>5 DEF Restart
<1>21. ASSUME NEW t \in Tables, LoseBump(t) PROVE SyncInv'
    BY <1>21, <1>3 DEF LoseBump, serving
<1>22. CASE UNCHANGED vars
    BY <1>22, <1>3 DEF vars, tables, serving
<1> QED
    BY <1>1, <1>2, <1>6, <1>7, <1>8, <1>9, <1>10, <1>11, <1>12, <1>13, <1>14,
       <1>15, <1>16, <1>17, <1>18, <1>19, <1>20, <1>21, <1>22
       DEF Next, Server, Bump, UpdateUsers, TriggeredWrite, BumpMetaVersion,
           RefreshAllMeta

\* The acknowledged version vouches for the snapshot, whatever the server
\* writes between any two queries of updateUsers, provided that no query loses
\* rows silently.
THEOREM AckedSnapshotIsCurrent ==
    ASSUME Swallowed = {}
    PROVE  Spec => []AckedIsCurrent
<1>1. Init => SyncInv
    BY InitSync
<1>2. SyncInv /\ [Next]_vars => SyncInv'
    BY NextSync
<1>3. SyncInv => AckedIsCurrent
    BY DEF SyncInv
<1> QED
    BY <1>1, <1>2, <1>3, PTL DEF Spec

\* With triggers, a snapshot put together with many queries is the content of
\* the database at the one moment its version was read.
THEOREM PublishedSnapshotIsAtomic ==
    ASSUME Swallowed = {}, Triggers
    PROVE  Spec => []PublishedIsAtomic
<1>1. Init => SyncInv
    BY InitSync
<1>2. SyncInv /\ [Next]_vars => SyncInv'
    BY NextSync
<1>3. SyncInv => PublishedIsAtomic
    BY AgreedSnapshot DEF SyncInv, VersionsOrdered, PublishedIsAtomic
<1> QED
    BY <1>1, <1>2, <1>3, PTL DEF Spec

-----------------------------------------------------------------------------
(* The refinement. *)

\* The server's steps, seen from outside: a write, or a certificate withdrawn.
LEMMA ServerRefines ==
    ASSUME Triggers, SyncInv, SyncInv', Server \/ Bump
    PROVE  [Copy!Next]_Copy!vars
<1> USE DEF Copy!Next, Copy!vars, reads, refresh, serving
<1>1. ASSUME NEW t \in Tables, TriggeredWrite(t) PROVE Copy!Write
    <2>1. acked' # meta'
        BY <1>1, BumpedIsNewer
           DEF TriggeredWrite, SyncInv, VersionsOrdered, TypeOK, serving
    <2> QED
        BY <1>1, <2>1
           DEF TriggeredWrite, Copy!Write, SyncInv, TypeOK
<1>2. ASSUME NEW t \in Tables, meta' = Bumped(t),
             UNCHANGED <<db, begun, snapshot, acked>>
      PROVE  Copy!Doubt
    <2>1. acked' # meta'
        BY <1>2, BumpedIsNewer DEF SyncInv, VersionsOrdered, TypeOK
    <2> QED
        BY <1>2, <2>1 DEF Copy!Doubt
<1>3. ASSUME NEW t \in Tables, LoseBump(t) PROVE UNCHANGED Copy!vars
    BY <1>3 DEF LoseBump
<1>4. ASSUME NEW t \in Tables PROVE ~PlainWrite(t)
    BY <1>4 DEF PlainWrite
<1> QED
    BY <1>1, <1>2, <1>3, <1>4
       DEF Server, Bump, RefreshAllMeta, BumpMetaVersion

\* The refresh: it takes a candidate, publishes it, and may certify it.
LEMMA RefreshRefines ==
    ASSUME Swallowed = {}, Triggers, SyncInv, SyncInv', UpdateUsers
    PROVE  [Copy!Next]_Copy!vars
<1> USE DEF Copy!Next, Copy!vars, tables, reads, refresh, serving
<1>t. TypeOK /\ VersionsOrdered /\ LoopsInOrder
    BY DEF SyncInv
<1>1. CASE StartUpdate
    BY <1>1 DEF StartUpdate, Copy!Take
<1>2. CASE UNCHANGED <<tables, begun, serving>>
    BY <1>2
<1>3. CASE Discard
    <2>1. begun' = NoVersion
        BY <1>3 DEF Discard, Return
    <2> QED
        BY <1>3, <2>1 DEF Discard, Copy!GiveUp
<1>4. CASE StoreSnapshot
    <2>1. begun \in Database /\ snapshot' = SnapshotOf(begun)
        BY <1>4, <1>t, AgreedSnapshot
           DEF StoreSnapshot, SyncInv, VersionsOrdered
    <2> QED
        BY <1>4, <2>1 DEF StoreSnapshot, GoTo, Copy!Publish
<1>5. CASE Acknowledge
    <2>1. begun \in Database /\ snapshot = SnapshotOf(begun)
        BY <1>5, <1>t, AgreedSnapshot
           DEF Acknowledge, SyncInv, VersionsOrdered, LoopsInOrder
    <2>2. ~unbumped
        BY DEF SyncInv
    <2>3. seen = meta => begun = db
        BY <1>5, <2>2 DEF Acknowledge, SyncInv, Undisturbed
    <2>4. begun' = NoVersion /\ acked' = seen
          /\ UNCHANGED <<db, meta, unbumped, snapshot>>
        BY <1>5 DEF Acknowledge, Return
    <2> DEFINE certified == acked = meta /\ ~unbumped
    <2>5. certified' \in {FALSE, begun = db}
        BY <2>2, <2>3, <2>4
    <2>6. Copy!Finish
        BY <2>1, <2>4, <2>5 DEF Copy!Finish
    <2> QED
        BY <2>6
<1>6. ASSUME NEW r \in Roles, FindRow(r) \/ SkipRole(r)
      PROVE  UNCHANGED <<tables, begun, serving>>
    BY <1>6 DEF FindRow, SkipRole, GoTo
<1>7. CASE ListRoles \/ ReadServers \/ ReadCommands \/ ReadUsers
           \/ ReadOnDuty \/ Confirm
    <2>1. UNCHANGED <<tables, begun, serving>>
        BY <1>7 DEF ListRoles, ReadServers, ReadCommands, ReadUsers,
                    ReadOnDuty, Confirm, GoTo
    <2> QED
        BY <2>1, <1>2
<1> QED
    BY <1>1, <1>2, <1>3, <1>4, <1>5, <1>6, <1>7 DEF UpdateUsers

\* updateUsers, for any number of accounts, roles, writes, faults and restarts,
\* implements PublishedCopy: its many queries amount to one look at the
\* database, and its two version reads to a certificate.
THEOREM RefreshPublishesCopies ==
    ASSUME Swallowed = {}, Triggers
    PROVE  Spec => PublishesCopies
<1>1. Init => SyncInv
    BY InitSync
<1>2. SyncInv /\ [Next]_vars => SyncInv'
    BY NextSync
<1>3. Init => Copy!Init
    <2>1. Init => acked # meta
        BY InitType, SyncAssumption DEF Init, TypeOK
    <2> QED
        BY <2>1 DEF Init, Copy!Init
<1>4. ASSUME SyncInv, SyncInv', [Next]_vars PROVE [Copy!Next]_Copy!vars
    <2>1. CASE Server \/ Bump
        BY <2>1, <1>4, ServerRefines
    <2>2. CASE UpdateUsers
        BY <2>2, <1>4, RefreshRefines
    <2>3. CASE AbortUpdate
        BY <2>3 DEF AbortUpdate, Return, tables, serving, Copy!GiveUp,
                    Copy!Next, Copy!vars
    <2>4. CASE ClearTempTacacsTableUpdateTime
        <3>1. acked' # meta'
            BY <2>4, <1>4, SyncAssumption
               DEF ClearTempTacacsTableUpdateTime, SyncInv, TypeOK
        <3> QED
            BY <2>4, <3>1 DEF ClearTempTacacsTableUpdateTime, tables, refresh,
                              Copy!Doubt, Copy!Next
    <2>5. CASE Restart
        <3>1. acked' # meta'
            BY <2>5, <1>4, SyncAssumption DEF Restart, SyncInv, TypeOK
        <3> QED
            BY <2>5, <3>1 DEF Restart, Return, tables, Copy!StartAgain,
                              Copy!Next
    <2>6. CASE UNCHANGED vars
        BY <2>6 DEF vars, tables, refresh, serving, Copy!vars
    <2> QED
        BY <1>4, <2>1, <2>2, <2>3, <2>4, <2>5, <2>6 DEF Next
<1> QED
    BY <1>1, <1>2, <1>3, <1>4, PTL DEF Spec, PublishesCopies, Copy!Spec
=============================================================================
