---------------------------- MODULE AccountsProofs ----------------------------
(***************************************************************************)
(* Proofs about Accounts for any users, requests and password time-out.    *)
(***************************************************************************)
EXTENDS Accounts, FiniteSetTheorems, TLAPS

\* No password is newer than the clock.
Dated == \A u \in Users : Exists(u) => users[u].PasswordUpdateTime <= now

\* The requests of one kind about one user.
Pending(k, u) ==
    {q \in Requests : /\ request[q] # None
                      /\ request[q].kind = k /\ request[q].user = u}

\* Failures counted and failures that may still be counted.
Budget ==
    \A k \in Kinds, u \in Users :
        errUser[k][u] + Cardinality(Pending(k, u)) <= 3 + Cardinality(Requests)

\* A password was compared only for a row, and rows stay.
Found ==
    \A q \in Requests :
        request[q] # None /\ request[q].stage # "counted" => Exists(request[q].user)

AccountsInv == TypeOK /\ Dated /\ Found /\ Budget

-----------------------------------------------------------------------------
(* Rows and snapshots *)

RowsOK ==
    /\ users \in [Users -> TacacsUser \cup {None}]
    /\ DOMAIN userInfos \subseteq {u \in Users : Exists(u)}
    /\ \A u \in DOMAIN userInfos :
          /\ userInfos[u] \in TacacsUser
          /\ userInfos[u].PasswordUpdateTime <= users[u].PasswordUpdateTime
    /\ expires \subseteq {u \in Users : Exists(u)}
    /\ restored \subseteq {u \in Users : Exists(u)}

RowsStay == \A u \in Users : Exists(u) => Exists(u)'

\* Statements that write rows neither remove one nor date it back, so what the
\* daemon has read stays older than what the table holds.
LEMMA RowsWritten ==
    ASSUME TypeOK, Dated, UNCHANGED <<now, userInfos>>,
           users' \in [Users -> TacacsUser \cup {None}],
           \A u \in Users : Exists(u)' =>
               \/ users'[u].PasswordUpdateTime = now
               \/ Exists(u) /\ users'[u].PasswordUpdateTime = users[u].PasswordUpdateTime,
           \A u \in Users : Exists(u) => Exists(u)',
           expires' \subseteq expires, restored' \subseteq restored
    PROVE  RowsOK' /\ Dated' /\ RowsStay
<1>1. ASSUME NEW u \in Users, Exists(u)
      PROVE  /\ users[u].PasswordUpdateTime \in Nat
             /\ users[u].PasswordUpdateTime <= users'[u].PasswordUpdateTime
    <2>1. users[u] \in TacacsUser
        BY <1>1 DEF TypeOK, Exists
    <2>2. users[u].PasswordUpdateTime \in Nat
        BY <2>1, AccountsAssumption DEF TacacsUser, Times
    <2> QED
        BY <1>1, <2>2 DEF Dated
<1>2. now \in Nat
    BY AccountsAssumption DEF TypeOK, Times
<1>3. Dated'
    BY <1>2 DEF Dated
<1>4. ASSUME NEW u \in DOMAIN userInfos
      PROVE  /\ Exists(u)' /\ u \in Users /\ userInfos[u] \in TacacsUser
             /\ userInfos[u].PasswordUpdateTime <= users'[u].PasswordUpdateTime
    <2>1. u \in Users /\ Exists(u) /\ userInfos[u] \in TacacsUser
        BY <1>4 DEF TypeOK
    <2>2. userInfos[u].PasswordUpdateTime \in Nat
        BY <2>1, AccountsAssumption DEF TacacsUser, Times
    <2>3. userInfos[u].PasswordUpdateTime <= users[u].PasswordUpdateTime
        BY <1>4 DEF TypeOK
    <2>4. users'[u] \in TacacsUser
        BY <2>1 DEF Exists
    <2>5. users'[u].PasswordUpdateTime \in Nat
        BY <2>4, AccountsAssumption DEF TacacsUser, Times
    <2> QED
        BY <1>1, <2>1, <2>2, <2>3, <2>5
<1>5. expires \subseteq {u \in Users : Exists(u)} /\ restored \subseteq {u \in Users : Exists(u)}
    BY DEF TypeOK
<1> QED
    BY <1>3, <1>4, <1>5 DEF RowsOK, RowsStay

\* What a step that writes no row may do to the daemon.
LEMMA RowsKept ==
    ASSUME TypeOK, Dated, UNCHANGED users, now' \in Times, now <= now',
           \/ UNCHANGED userInfos
           \/ userInfos' = [u \in {v \in Users : Exists(v)} |-> users[u]]
           \/ userInfos' = NoInfos,
           expires' \subseteq {u \in Users : Exists(u)},
           restored' \subseteq {u \in Users : Exists(u)}
    PROVE  RowsOK' /\ Dated' /\ RowsStay
<1>1. \A u \in Users : Exists(u)' <=> Exists(u)
    BY DEF Exists
<1>2. \A u \in Users : Exists(u) =>
          /\ users[u] \in TacacsUser /\ users[u].PasswordUpdateTime \in Nat
          /\ users[u].PasswordUpdateTime <= now
    BY AccountsAssumption DEF TypeOK, Dated, Exists, TacacsUser, Times
<1>3. Dated'
    <2>1. now \in Nat /\ now' \in Nat
        BY AccountsAssumption DEF TypeOK, Times
    <2> QED
        BY <1>1, <1>2, <2>1 DEF Dated
<1>4. CASE UNCHANGED userInfos
    BY <1>1, <1>3, <1>4 DEF TypeOK, RowsOK, RowsStay
<1>5. CASE userInfos' = [u \in {v \in Users : Exists(v)} |-> users[u]]
    BY <1>1, <1>2, <1>3, <1>5 DEF TypeOK, RowsOK, RowsStay
<1>6. CASE userInfos' = NoInfos
    BY <1>1, <1>3, <1>6 DEF TypeOK, RowsOK, NoInfos, RowsStay
<1> QED
    BY <1>4, <1>5, <1>6

\* Rows and clock, for every step.
LEMMA RowsStep ==
    ASSUME AccountsInv, [Next]_vars
    PROVE  RowsOK' /\ Dated' /\ RowsStay /\ now' \in Times
<1> USE AccountsAssumption, NoneAssumption
<1> USE DEF AccountsInv, daemonVars
<1>1. now \in Times /\ now \in Nat /\ now <= now
    BY DEF TypeOK, Times
<1>2. \A u \in Users : Exists(u) => users[u] \in TacacsUser
    BY DEF TypeOK, Exists
<1>3. /\ expires \subseteq {u \in Users : Exists(u)}
      /\ restored \subseteq {u \in Users : Exists(u)}
    BY DEF TypeOK
<1>4. NewRow \in TacacsUser /\ NewRow.PasswordUpdateTime = now
    BY <1>1 DEF NewRow, TacacsUser, Status, StatusNormal
<1>5. ASSUME NEW u \in Users, Administer(u) PROVE RowsOK' /\ Dated' /\ RowsStay /\ now' \in Times
    <2>1. CASE CreateUser(u) \/ ResetUserPassword(u)
        <3>1. users' = [users EXCEPT ![u] = NewRow] /\ UNCHANGED <<now, daemonVars>>
            BY <2>1 DEF CreateUser, ResetUserPassword
        <3>2. /\ users' \in [Users -> TacacsUser \cup {None}]
              /\ users'[u] = NewRow /\ \A v \in Users : v # u => users'[v] = users[v]
            BY <1>4, <3>1 DEF TypeOK
        <3> QED
            BY <1>1, <1>4, <3>1, <3>2, RowsWritten DEF Exists
    <2>2. CASE DeleteUser(u) \/ UpdateUserNotes(u)
        <3>1. UNCHANGED <<now, daemonVars>> /\ Exists(u) /\ users[u] \in TacacsUser
            BY <1>2, <2>2 DEF DeleteUser, UpdateUserNotes
        <3>2. /\ \A v \in Users : v # u => users'[v] = users[v]
              /\ \/ users'[u] = [users[u] EXCEPT !.Status = StatusDelete]
                 \/ users'[u] = [users[u] EXCEPT !.PasswordUpdateTime = now]
              /\ DOMAIN users' = Users /\ users' = [v \in Users |-> users'[v]]
            BY <2>2 DEF DeleteUser, UpdateUserNotes, TypeOK
        <3>3. /\ users'[u] \in TacacsUser
              /\ users'[u].PasswordUpdateTime \in {now, users[u].PasswordUpdateTime}
            BY <1>1, <3>1, <3>2 DEF TacacsUser, Status, StatusDelete
        <3>4. users' \in [Users -> TacacsUser \cup {None}]
            BY <3>2, <3>3 DEF TypeOK
        <3> QED
            BY <1>1, <3>1, <3>2, <3>3, <3>4, RowsWritten DEF Exists
    <2> QED
        BY <1>5, <2>1, <2>2 DEF Administer
<1>6. ASSUME NEW q \in Requests, Update(q), UpdateUserPassword(request[q].user)
      PROVE  RowsOK' /\ Dated' /\ RowsStay /\ now' \in Times
    <2> DEFINE u == request[q].user
    <2>1. u \in Users /\ UNCHANGED <<now, daemonVars>>
        BY <1>6 DEF Update, TypeOK, Request
    <2>2. users' = [users EXCEPT ![u] = [Status |-> StatusAfterUpdate(@.Status),
                                         PasswordUpdateTime |-> now]]
        BY <1>6 DEF UpdateUserPassword
    <2>3. /\ users'[u] = [Status |-> StatusAfterUpdate(users[u].Status),
                          PasswordUpdateTime |-> now]
          /\ \A v \in Users : v # u => users'[v] = users[v]
        BY <2>1, <2>2 DEF TypeOK
    <2>4. Exists(u) /\ users[u] \in TacacsUser
        BY <1>2, <1>6, <2>1 DEF Found, Update
    <2>5. users'[u] \in TacacsUser /\ users'[u].PasswordUpdateTime = now
        BY <1>1, <2>3, <2>4 DEF TacacsUser, Status, StatusAfterUpdate, StatusNormal, StatusPause
    <2>6. users' \in [Users -> TacacsUser \cup {None}]
        BY <2>2, <2>3, <2>5 DEF TypeOK
    <2> HIDE DEF u
    <2> QED
        BY <1>1, <2>1, <2>3, <2>5, <2>6, RowsWritten DEF Exists
<1>7. ASSUME NEW S \in SUBSET Users, NEW status \in Status, S \subseteq {u \in Users : Exists(u)},
             BatchUpdateUserStatus(S, status), UNCHANGED <<now, userInfos>>,
             expires' \subseteq expires, restored' \subseteq restored
      PROVE  RowsOK' /\ Dated' /\ RowsStay /\ now' \in Times
    <2>1. CASE UNCHANGED users
        <3>1. now' \in Times /\ now <= now'
            BY <1>1, <1>7
        <3>2. /\ expires' \subseteq {u \in Users : Exists(u)}
              /\ restored' \subseteq {u \in Users : Exists(u)}
            BY <1>3, <1>7
        <3> QED
            BY <1>7, <2>1, <3>1, <3>2, RowsKept
    <2>2. CASE users' = [u \in Users |-> IF u \in S THEN [users[u] EXCEPT !.Status = status]
                                          ELSE users[u]]
        <3>1. ASSUME NEW u \in Users, Exists(u)
              PROVE  /\ users'[u] \in TacacsUser
                     /\ users'[u].PasswordUpdateTime = users[u].PasswordUpdateTime
            <4>1. users[u] \in TacacsUser
                BY <1>2, <3>1
            <4> QED
                BY <2>2, <4>1 DEF TacacsUser
        <3>2. ASSUME NEW u \in Users, ~Exists(u) PROVE users'[u] = None
            BY <1>7, <2>2, <3>2 DEF Exists
        <3>3. users' \in [Users -> TacacsUser \cup {None}]
            BY <2>2, <3>1, <3>2
        <3> QED
            BY <1>1, <1>7, <3>1, <3>2, <3>3, RowsWritten DEF Exists
    <2> QED
        BY <1>7, <2>1, <2>2 DEF BatchUpdateUserStatus
<1>8. CASE Pause
    <2>1. expires \in SUBSET Users /\ StatusPause \in Status
        BY <1>3 DEF Status
    <2> QED
        BY <1>3, <1>7, <1>8, <2>1 DEF Pause
<1>9. CASE Restore
    <2>1. restored \in SUBSET Users /\ StatusNormal \in Status
        BY <1>3 DEF Status
    <2> QED
        BY <1>3, <1>7, <1>9, <2>1 DEF Restore
<1>10. CASE UpdateUserInfos
    BY <1>1, <1>3, <1>10, RowsKept DEF UpdateUserInfos
<1>11. CASE CheckPasswordTimeout \/ CheckPasswordUnTimeout
    <2>1. DOMAIN userInfos \subseteq {u \in Users : Exists(u)}
        BY DEF TypeOK
    <2>2. /\ expires' \subseteq {u \in Users : Exists(u)}
          /\ restored' \subseteq {u \in Users : Exists(u)}
        BY <1>3, <1>11, <2>1 DEF CheckPasswordTimeout, CheckPasswordUnTimeout
    <2>3. UNCHANGED <<now, users, userInfos>>
        BY <1>11 DEF CheckPasswordTimeout, CheckPasswordUnTimeout
    <2> QED
        BY <1>1, <2>2, <2>3, RowsKept
<1>12. CASE Restart
    <2>1. /\ UNCHANGED <<now, users>> /\ userInfos' = NoInfos
          /\ expires' = {} /\ restored' = {}
        BY <1>12 DEF Restart
    <2> QED
        BY <1>1, <2>1, RowsKept
<1>13. CASE Tick
    <2>1. now' \in Times /\ now <= now' /\ UNCHANGED <<users, daemonVars>>
        BY <1>1, <1>13 DEF Tick, Times
    <2> QED
        BY <1>3, <2>1, RowsKept
<1>14. ASSUME UNCHANGED <<now, users, daemonVars>>
       PROVE  RowsOK' /\ Dated' /\ RowsStay /\ now' \in Times
    BY <1>1, <1>3, <1>14, RowsKept
<1>15. ASSUME NEW q \in Requests, Serve(q) PROVE RowsOK' /\ Dated' /\ RowsStay /\ now' \in Times
    <2>1. \/ UNCHANGED <<now, users, daemonVars>>
          \/ Update(q) /\ UpdateUserPassword(request[q].user)
        BY <1>15 DEF Serve, Begin, ReadUser, Increment, Update, Succeed
    <2> QED
        BY <1>6, <1>14, <2>1
<1>16. ASSUME NEW k \in Kinds, ClearFailures(k) PROVE RowsOK' /\ Dated' /\ RowsStay /\ now' \in Times
    BY <1>14, <1>16 DEF ClearFailures
<1>17. CASE UNCHANGED vars
    BY <1>14, <1>17 DEF vars
<1> QED
    BY <1>5, <1>8, <1>9, <1>10, <1>11, <1>12, <1>13, <1>15, <1>16, <1>17 DEF Next

-----------------------------------------------------------------------------
(* Requests and counters *)

\* Every step keeps the types of counters and requests.
LEMMA RequestsStep ==
    ASSUME AccountsInv, [Next]_vars
    PROVE  /\ errUser' \in [Kinds -> [Users -> 0 .. 127]]
           /\ request' \in [Requests -> Request \cup {None}]
           /\ faults' \in 0 .. MaxFaults
<1> USE AccountsAssumption, NoneAssumption
<1> DEFINE Goal == /\ errUser' \in [Kinds -> [Users -> 0 .. 127]]
                   /\ request' \in [Requests -> Request \cup {None}]
                   /\ faults' \in 0 .. MaxFaults
<1>1. /\ errUser \in [Kinds -> [Users -> 0 .. 127]]
      /\ request \in [Requests -> Request \cup {None}]
      /\ faults \in 0 .. MaxFaults
    BY DEF AccountsInv, TypeOK
<1>2. NoErrors \in [Kinds -> [Users -> 0 .. 127]]
    BY DEF NoErrors
<1>3. faults' \in 0 .. MaxFaults
    <2>1. UNCHANGED faults \/ Fault
        BY DEF Next, Administer, CreateUser, ResetUserPassword, DeleteUser, UpdateUserNotes,
               Serve, Begin, ReadUser, Increment, Update, Succeed, ClearFailures,
               UpdateUserInfos, CheckPasswordTimeout, CheckPasswordUnTimeout, Pause, Restore,
               BatchUpdateUserStatus, Restart, Tick, vars
    <2> QED
        BY <1>1, <2>1 DEF Fault
<1>4. ASSUME NEW k \in Kinds, NEW u \in Users, NEW n \in 0 .. 127,
             errUser' = [errUser EXCEPT ![k][u] = n]
      PROVE  errUser' \in [Kinds -> [Users -> 0 .. 127]]
    <2>1. [errUser[k] EXCEPT ![u] = n] \in [Users -> 0 .. 127]
        BY <1>1
    <2> QED
        BY <1>1, <1>4, <2>1
<1>5. ASSUME NEW q \in Requests, Serve(q) PROVE Goal
    <2>1. CASE \E k \in Kinds, u \in Users : Begin(q, k, u)
        <3>1. PICK k \in Kinds, u \in Users : Begin(q, k, u)
            BY <2>1
        <3>2. [kind |-> k, user |-> u, stage |-> "counted"] \in Request
            BY DEF Request
        <3> QED
            BY <1>1, <1>3, <3>1, <3>2 DEF Begin
    <2>2. ASSUME request[q] # None,
                 \/ Ends(q)
                 \/ \E stage \in {"right", "wrong", "updated"} : Stage(q, stage)
          PROVE  request' \in [Requests -> Request \cup {None}]
        <3>1. CASE Ends(q)
            BY <1>1, <3>1 DEF Ends
        <3>2. CASE \E stage \in {"right", "wrong", "updated"} : Stage(q, stage)
            <4>1. PICK stage \in {"right", "wrong", "updated"} :
                      request' = [request EXCEPT ![q].stage = stage]
                BY <3>2 DEF Stage
            <4>2. request[q] \in Request
                BY <1>1, <2>2
            <4>3. [request[q] EXCEPT !.stage = stage] \in Request
                BY <4>2 DEF Request
            <4> QED
                BY <1>1, <4>1, <4>3
        <3> QED
            BY <2>2, <3>1, <3>2
    <2>3. CASE ReadUser(q) \/ Update(q)
        BY <1>1, <1>3, <2>2, <2>3 DEF ReadUser, Update
    <2>4. CASE Increment(q) \/ Succeed(q)
        <3>1. request[q] \in Request
            BY <1>1, <2>4 DEF Increment, Succeed
        <3>2. request[q].kind \in Kinds /\ request[q].user \in Users
            BY <3>1 DEF Request
        <3> DEFINE k == request[q].kind
                   u == request[q].user
        <3>3. errUser[k][u] \in 0 .. 127
            BY <1>1, <3>2
        <3>4. CASE Succeed(q)
            <4>1. errUser' = [errUser EXCEPT ![k][u] = 0] /\ 0 \in 0 .. 127
                BY <3>4 DEF Succeed
            <4>2. errUser' \in [Kinds -> [Users -> 0 .. 127]]
                BY <1>4, <3>2, <4>1
            <4> QED
                BY <1>3, <2>2, <3>4, <4>2 DEF Succeed
        <3>5. CASE Increment(q)
            <4>1. errUser' = [errUser EXCEPT ![k][u] =
                                 IF errUser[k][u] < 127 THEN errUser[k][u] + 1 ELSE errUser[k][u]]
                BY <1>1, <3>2, <3>5 DEF Increment
            <4>2. (IF errUser[k][u] < 127 THEN errUser[k][u] + 1 ELSE errUser[k][u]) \in 0 .. 127
                <5>1. \A n \in 0 .. 127 : (IF n < 127 THEN n + 1 ELSE n) \in 0 .. 127
                    OBVIOUS
                <5> HIDE DEF k, u
                <5> QED
                    BY ONLY <3>3, <5>1
            <4>3. errUser' \in [Kinds -> [Users -> 0 .. 127]]
                BY <1>4, <3>2, <4>1, <4>2
            <4> QED
                BY <1>3, <2>2, <3>5, <4>3 DEF Increment
        <3> QED
            BY <2>4, <3>4, <3>5
    <2> QED
        BY <1>5, <2>1, <2>3, <2>4 DEF Serve
<1>6. ASSUME NEW u \in Users, Administer(u) PROVE Goal
    <2>1. CASE ResetUserPassword(u)
        <3>1. "check" \in Kinds /\ 0 \in 0 .. 127
            BY DEF Kinds
        <3> QED
            BY <1>1, <1>3, <1>4, <2>1, <3>1 DEF ResetUserPassword
    <2>2. CASE CreateUser(u) \/ DeleteUser(u) \/ UpdateUserNotes(u)
        BY <1>1, <1>3, <2>2 DEF CreateUser, DeleteUser, UpdateUserNotes
    <2> QED
        BY <1>6, <2>1, <2>2 DEF Administer
<1>7. ASSUME NEW k \in Kinds, ClearFailures(k) PROVE Goal
    BY <1>1, <1>2, <1>3, <1>7 DEF ClearFailures
<1>8. CASE Restart
    BY <1>1, <1>2, <1>3, <1>8 DEF Restart
<1>9. CASE \/ UpdateUserInfos \/ CheckPasswordTimeout \/ CheckPasswordUnTimeout
           \/ Pause \/ Restore \/ Tick \/ UNCHANGED vars
    BY <1>1, <1>3, <1>9
    DEF UpdateUserInfos, CheckPasswordTimeout, CheckPasswordUnTimeout, Pause, Restore, Tick, vars
<1> QED
    BY <1>5, <1>6, <1>7, <1>8, <1>9 DEF Next

\* Every step keeps that compared passwords belong to rows.
LEMMA FoundStep ==
    ASSUME AccountsInv, [Next]_vars, RowsStay
    PROVE  Found'
<1> USE NoneAssumption
<1>1. request \in [Requests -> Request \cup {None}] /\ Found
    BY DEF AccountsInv, TypeOK
<1>2. ASSUME UNCHANGED request PROVE Found'
    <2>1. \A q \in Requests : request[q] # None => request[q].user \in Users
        BY <1>1 DEF Request
    <2> QED
        BY <1>1, <1>2, <2>1 DEF Found, RowsStay
<1>3. ASSUME NEW q \in Requests, Serve(q) PROVE Found'
    <2>1. \A r \in Requests : r # q => request'[r] = request[r]
        BY <1>1, <1>3 DEF Serve, Begin, ReadUser, Increment, Update, Succeed, Ends, Stage
    <2>2. \A r \in Requests : request[r] # None => request[r].user \in Users
        BY <1>1 DEF Request
    <2>3. ASSUME request'[q] # None, request'[q].stage # "counted"
          PROVE  request'[q].user \in Users /\ Exists(request'[q].user)
        <3>1. CASE \E k \in Kinds, u \in Users : Begin(q, k, u)
            BY <1>1, <2>3, <3>1 DEF Begin
        <3>2. CASE Increment(q) \/ Succeed(q)
            BY <1>1, <2>3, <3>2 DEF Increment, Succeed, Ends
        <3>3. CASE ReadUser(q) \/ Update(q)
            <4>1. request[q] # None /\ request[q] \in Request
                BY <1>1, <3>3 DEF ReadUser, Update
            <4>2. request'[q] # None => request'[q].user = request[q].user
                BY <1>1, <3>3, <4>1 DEF ReadUser, Update, Ends, Stage, Request
            <4>3. Exists(request[q].user)
                BY <1>1, <2>3, <3>3, <4>1 DEF ReadUser, Update, Ends, HasStatus, Found
            <4> QED
                BY <2>2, <2>3, <4>1, <4>2, <4>3
        <3> QED
            BY <1>3, <3>1, <3>2, <3>3 DEF Serve
    <2> QED
        BY <1>1, <2>1, <2>2, <2>3 DEF Found, RowsStay
<1>4. CASE Restart
    BY <1>4 DEF Restart, Found
<1>5. ASSUME NEW u \in Users, Administer(u) PROVE Found'
    BY <1>2, <1>5
    DEF Administer, CreateUser, ResetUserPassword, DeleteUser, UpdateUserNotes
<1>6. ASSUME NEW k \in Kinds, ClearFailures(k) PROVE Found'
    BY <1>2, <1>6 DEF ClearFailures
<1>7. CASE \/ UpdateUserInfos \/ CheckPasswordTimeout \/ CheckPasswordUnTimeout
           \/ Pause \/ Restore \/ Tick \/ UNCHANGED vars
    BY <1>2, <1>7
    DEF UpdateUserInfos, CheckPasswordTimeout, CheckPasswordUnTimeout, Pause, Restore, Tick, vars
<1> QED
    BY <1>3, <1>4, <1>5, <1>6, <1>7 DEF Next

\* A failure is counted at the expense of the request that reports it, so no
\* step exceeds the budget.
LEMMA BudgetStep ==
    ASSUME AccountsInv, [Next]_vars, TypeOK'
    PROVE  Budget'
<1> USE AccountsAssumption, NoneAssumption
<1>1. /\ request \in [Requests -> Request \cup {None}]
      /\ errUser \in [Kinds -> [Users -> 0 .. 127]]
      /\ errUser' \in [Kinds -> [Users -> 0 .. 127]] /\ Budget
    BY DEF AccountsInv, TypeOK
<1>12. ASSUME NEW k \in Kinds, NEW u \in Users
       PROVE  errUser[k][u] \in Nat /\ errUser'[k][u] \in Nat
    <2>1. errUser[k] \in [Users -> 0 .. 127] /\ errUser'[k] \in [Users -> 0 .. 127]
        BY <1>1
    <2>2. errUser[k][u] \in 0 .. 127 /\ errUser'[k][u] \in 0 .. 127
        BY <2>1
    <2> QED
        BY <2>2
<1>2. /\ IsFiniteSet(Requests) /\ Cardinality(Requests) \in Nat
      /\ \A k, u : /\ Pending(k, u) \in SUBSET Requests /\ IsFiniteSet(Pending(k, u))
                   /\ Cardinality(Pending(k, u)) \in Nat
                   /\ IsFiniteSet(Pending(k, u)')
                   /\ Cardinality(Pending(k, u)') \in Nat
                   /\ Cardinality(Pending(k, u)') <= Cardinality(Requests)
    <2>1. \A k, u : /\ Pending(k, u) \in SUBSET Requests
                   /\ Pending(k, u)' \in SUBSET Requests
        BY DEF Pending
    <2> QED
        BY <2>1, FS_Subset, FS_CardinalityType
<1>3. ASSUME \A k \in Kinds, u \in Users :
                 /\ errUser'[k][u] <= errUser[k][u]
                 /\ Pending(k, u)' \subseteq Pending(k, u)
      PROVE  Budget'
    <2> SUFFICES ASSUME NEW k \in Kinds, NEW u \in Users
                 PROVE  errUser'[k][u] + Cardinality(Pending(k, u)')
                            <= 3 + Cardinality(Requests)
        BY DEF Budget
    <2>1. Cardinality(Pending(k, u)') <= Cardinality(Pending(k, u))
        BY <1>2, <1>3, FS_Subset
    <2>2. errUser[k][u] + Cardinality(Pending(k, u)) <= 3 + Cardinality(Requests)
        BY <1>1 DEF Budget
    <2>3. errUser[k][u] \in Nat /\ errUser'[k][u] \in Nat
        BY <1>12
    <2> QED
        BY <1>2, <1>3, <2>1, <2>2, <2>3
<1>4. ASSUME NEW q \in Requests, NEW kind \in Kinds, NEW user \in Users, Begin(q, kind, user)
      PROVE  Budget'
    <2> SUFFICES ASSUME NEW k \in Kinds, NEW u \in Users
                 PROVE  errUser'[k][u] + Cardinality(Pending(k, u)')
                            <= 3 + Cardinality(Requests)
        BY DEF Budget
    <2>1. UNCHANGED errUser /\ errUser[k][u] \in Nat
        BY <1>4, <1>12 DEF Begin
    <2>2. CASE k = kind /\ u = user
        <3>1. errUser[k][u] <= 3
            BY <1>4, <2>1, <2>2 DEF Begin, TooMany
        <3> QED
            BY <1>2, <2>1, <3>1
    <2>3. CASE ~(k = kind /\ u = user)
        <3>1. Pending(k, u)' = Pending(k, u)
            BY <1>1, <1>4, <2>3 DEF Begin, Pending
        <3> QED
            BY <1>1, <2>1, <3>1 DEF Budget
    <2> QED
        BY <2>2, <2>3
<1>5. ASSUME NEW q \in Requests, Increment(q) PROVE Budget'
    <2>1. request[q] \in Request /\ request[q] # None
        BY <1>1, <1>5 DEF Increment
    <2>2. request[q].kind \in Kinds /\ request[q].user \in Users
        BY <2>1 DEF Request
    <2> SUFFICES ASSUME NEW k \in Kinds, NEW u \in Users
                 PROVE  errUser'[k][u] + Cardinality(Pending(k, u)')
                            <= 3 + Cardinality(Requests)
        BY DEF Budget
    <2>3. errUser[k][u] + Cardinality(Pending(k, u)) <= 3 + Cardinality(Requests)
        BY <1>1 DEF Budget
    <2>4. errUser[k][u] \in Nat /\ errUser'[k][u] \in Nat
        BY <1>12
    <2>5. CASE request[q].kind = k /\ request[q].user = u
        <3>1. q \in Pending(k, u) /\ Pending(k, u)' = Pending(k, u) \ {q}
            BY <1>1, <1>5, <2>1, <2>5 DEF Increment, Ends, Pending
        <3>2. Cardinality(Pending(k, u)') = Cardinality(Pending(k, u)) - 1
            BY <1>2, <3>1, FS_RemoveElement
        <3>3. errUser'[k][u] <= errUser[k][u] + 1
            BY <1>1, <1>5, <2>4, <2>5 DEF Increment
        <3> QED
            BY <1>2, <2>3, <2>4, <3>2, <3>3
    <2>6. CASE ~(request[q].kind = k /\ request[q].user = u)
        <3>1. Pending(k, u)' = Pending(k, u)
            BY <1>1, <1>5, <2>1, <2>6 DEF Increment, Ends, Pending
        <3>2. errUser'[k][u] = errUser[k][u]
            BY <1>1, <1>5, <2>2, <2>6 DEF Increment
        <3> QED
            BY <2>3, <3>1, <3>2
    <2> QED
        BY <2>5, <2>6
<1>6. ASSUME NEW q \in Requests, ReadUser(q) \/ Update(q) \/ Succeed(q) PROVE Budget'
    <2>1. request[q] \in Request /\ request[q] # None
        BY <1>1, <1>6 DEF ReadUser, Update, Succeed
    <2>2. ASSUME NEW k \in Kinds, NEW u \in Users
          PROVE  Pending(k, u)' \subseteq Pending(k, u)
        <3>1. \/ request' = [request EXCEPT ![q] = None]
              \/ \E stage \in {"right", "wrong", "updated"} :
                    request' = [request EXCEPT ![q].stage = stage]
            BY <1>6 DEF ReadUser, Update, Succeed, Ends, Stage
        <3>2. CASE request' = [request EXCEPT ![q] = None]
            BY <1>1, <3>2 DEF Pending
        <3>3. CASE \E stage \in {"right", "wrong", "updated"} :
                      request' = [request EXCEPT ![q].stage = stage]
            <4>1. /\ request'[q].kind = request[q].kind /\ request'[q].user = request[q].user
                  /\ \A r \in Requests : r # q => request'[r] = request[r]
                BY <1>1, <2>1, <3>3 DEF Request
            <4> QED
                BY <2>1, <4>1 DEF Pending
        <3> QED
            BY <3>1, <3>2, <3>3
    <2>3. ASSUME NEW k \in Kinds, NEW u \in Users
          PROVE  errUser'[k][u] <= errUser[k][u]
        <3>1. errUser[k][u] \in Nat /\ request[q].kind \in Kinds /\ request[q].user \in Users
            BY <1>12, <2>1 DEF Request
        <3>2. errUser'[k][u] = errUser[k][u] \/ errUser'[k][u] = 0
            BY <1>1, <1>6, <3>1 DEF ReadUser, Update, Succeed
        <3> QED
            BY <3>1, <3>2
    <2> QED
        BY <1>3, <2>2, <2>3
<1>7. ASSUME UNCHANGED request, \A k \in Kinds, u \in Users : errUser'[k][u] \in {errUser[k][u], 0}
      PROVE  Budget'
    <2>1. \A k, u : Pending(k, u)' = Pending(k, u)
        BY <1>7 DEF Pending
    <2>2. ASSUME NEW k \in Kinds, NEW u \in Users PROVE errUser'[k][u] <= errUser[k][u]
        <3>1. errUser[k][u] \in Nat
            BY <1>12
        <3> QED
            BY <1>7, <3>1
    <2> QED
        BY <1>3, <2>1, <2>2
<1>8. ASSUME NEW u \in Users, Administer(u) PROVE Budget'
    <2>1. UNCHANGED request /\ (UNCHANGED errUser \/ errUser' = [errUser EXCEPT !["check"][u] = 0])
        BY <1>8 DEF Administer, CreateUser, ResetUserPassword, DeleteUser, UpdateUserNotes
    <2>2. \A k \in Kinds, v \in Users : errUser'[k][v] \in {errUser[k][v], 0}
        BY <1>1, <2>1 DEF Kinds
    <2> QED
        BY <1>7, <2>1, <2>2
<1>9. ASSUME NEW k \in Kinds, ClearFailures(k) PROVE Budget'
    <2>1. UNCHANGED request /\ errUser' = [errUser EXCEPT ![k] = NoErrors[k]]
        BY <1>9 DEF ClearFailures
    <2>2. \A j \in Kinds, v \in Users : errUser'[j][v] \in {errUser[j][v], 0}
        BY <1>1, <2>1 DEF NoErrors
    <2> QED
        BY <1>7, <2>1, <2>2
<1>10. CASE Restart
    <2>1. \A k \in Kinds, u \in Users : errUser'[k][u] = 0 /\ Pending(k, u)' = {}
        BY <1>10 DEF Restart, NoErrors, Pending
    <2>2. ASSUME NEW k \in Kinds, NEW u \in Users PROVE errUser'[k][u] <= errUser[k][u]
        <3>1. errUser[k][u] \in Nat
            BY <1>12
        <3> QED
            BY <2>1, <3>1
    <2> QED
        BY <1>3, <2>1, <2>2
<1>11. CASE \/ UpdateUserInfos \/ CheckPasswordTimeout \/ CheckPasswordUnTimeout
            \/ Pause \/ Restore \/ Tick \/ UNCHANGED vars
    <2>1. UNCHANGED <<request, errUser>>
        BY <1>11
        DEF UpdateUserInfos, CheckPasswordTimeout, CheckPasswordUnTimeout, Pause, Restore,
            Tick, vars
    <2> QED
        BY <1>7, <2>1
<1> QED
    BY <1>4, <1>5, <1>6, <1>8, <1>9, <1>10, <1>11 DEF Next, Serve

-----------------------------------------------------------------------------
(* The theorems *)

\* The invariant holds at first ...
LEMMA InitInv == Init => AccountsInv
<1> SUFFICES ASSUME Init PROVE AccountsInv
    OBVIOUS
<1> USE AccountsAssumption, NoneAssumption
<1>1. TypeOK
    BY DEF Init, TypeOK, Times, NoInfos, NoErrors
<1>2. Dated /\ Found
    BY DEF Init, Dated, Found, Exists
<1>3. Budget
    <2>1. \A k, u : Pending(k, u) = {}
        BY DEF Init, Pending
    <2>2. \A k \in Kinds, u \in Users : errUser[k][u] = 0
        BY DEF Init, NoErrors
    <2>3. Cardinality({}) = 0 /\ Cardinality(Requests) \in Nat
        BY FS_EmptySet, FS_CardinalityType
    <2> QED
        BY <2>1, <2>2, <2>3 DEF Budget
<1> QED
    BY <1>1, <1>2, <1>3 DEF AccountsInv

\* ... and for ever.
LEMMA Inductive == Spec => []AccountsInv
<1>1. Init => AccountsInv
    BY InitInv
<1>2. AccountsInv /\ [Next]_vars => AccountsInv'
    <2> SUFFICES ASSUME AccountsInv, [Next]_vars PROVE AccountsInv'
        OBVIOUS
    <2>1. RowsOK' /\ Dated' /\ RowsStay /\ now' \in Times
        BY RowsStep
    <2>2. TypeOK'
        BY <2>1, RequestsStep DEF TypeOK, RowsOK
    <2> QED
        BY <2>1, <2>2, FoundStep, BudgetStep DEF AccountsInv
<1> QED
    BY <1>1, <1>2, PTL DEF Spec

\* Every reachable state is well typed; in particular, the daemon never works on
\* an account that is not in the table or on a password newer than the row's.
THEOREM TypeCorrect == Spec => []TypeOK
<1>1. AccountsInv => TypeOK
    BY DEF AccountsInv
<1> QED
    BY <1>1, Inductive, PTL

\* However many requests run at once, the failures counted exceed the limit by
\* one for each of them at most (password_failures.go).
THEOREM FailuresAreBounded == Spec => []FailuresBounded
<1>1. ASSUME AccountsInv PROVE FailuresBounded
    <2> SUFFICES ASSUME NEW k \in Kinds, NEW u \in Users
                 PROVE  errUser[k][u] <= 3 + Cardinality(Requests)
        BY DEF FailuresBounded
    <2>1. errUser[k] \in [Users -> 0 .. 127]
        BY <1>1 DEF AccountsInv, TypeOK
    <2>2. errUser[k][u] \in 0 .. 127
        BY <2>1
    <2>3. IsFiniteSet(Pending(k, u)) /\ Pending(k, u) \in SUBSET Requests
        <3>1. Pending(k, u) \in SUBSET Requests
            BY DEF Pending
        <3> QED
            BY <3>1, FS_Subset, AccountsAssumption
    <2>4. Cardinality(Pending(k, u)) \in Nat /\ Cardinality(Requests) \in Nat
        BY <2>3, FS_CardinalityType, AccountsAssumption
    <2>5. errUser[k][u] + Cardinality(Pending(k, u)) <= 3 + Cardinality(Requests)
        BY <1>1 DEF AccountsInv, Budget
    <2> QED
        BY <2>2, <2>4, <2>5
<1> QED
    BY <1>1, Inductive, PTL

\* An account that is disabled, and known to be so by the daemon, stays so until
\* an administrator resets it, for any number of users, requests and restarts.
THEOREM DisabledAccountsStay == Spec => DisabledStays
<1> DEFINE Kept == \A u \in Users : Disabled(u) => Disabled(u)' \/ ResetUserPassword(u)
<1>1. ASSUME AccountsInv, [Next]_vars, NEW u \in Users, Disabled(u), ~ResetUserPassword(u)
      PROVE  Disabled(u)'
    <2> USE NoneAssumption
    <2>1. /\ users \in [Users -> TacacsUser \cup {None}] /\ users[u] \in TacacsUser
          /\ users[u].Status = StatusDelete /\ Exists(u)
          /\ u \notin expires /\ u \notin restored
          /\ u \in DOMAIN userInfos => userInfos[u].Status = StatusDelete
        BY <1>1 DEF AccountsInv, TypeOK, Disabled, HasStatus, Exists
    <2>2. Exists(u)'
        BY <1>1, RowsStep DEF RowsStay, Disabled, HasStatus
    <2>3. ASSUME users'[u].Status = StatusDelete, UNCHANGED daemonVars PROVE Disabled(u)'
        BY <2>1, <2>2, <2>3 DEF Disabled, HasStatus, daemonVars
    <2>4. ASSUME NEW v \in Users, Administer(v) PROVE Disabled(u)'
        <3>1. UNCHANGED daemonVars
            BY <2>4 DEF Administer, CreateUser, ResetUserPassword, DeleteUser, UpdateUserNotes
        <3>2. users'[u].Status = StatusDelete
            <4>1. CASE v # u
                BY <2>1, <2>4, <4>1
                DEF Administer, CreateUser, ResetUserPassword, DeleteUser, UpdateUserNotes
            <4>2. CASE v = u
                BY <1>1, <2>1, <2>4, <4>2
                DEF Administer, CreateUser, DeleteUser, UpdateUserNotes, TacacsUser
            <4> QED
                BY <4>1, <4>2
        <3> QED
            BY <2>3, <3>1, <3>2
    <2>5. ASSUME NEW q \in Requests, Serve(q) PROVE Disabled(u)'
        <3>1. UNCHANGED daemonVars
            BY <2>5 DEF Serve, Begin, ReadUser, Increment, Update, Succeed
        <3>2. users'[u].Status = StatusDelete
            BY <2>1, <2>5
            DEF Serve, Begin, ReadUser, Increment, Update, Succeed, UpdateUserPassword,
                StatusAfterUpdate, StatusDelete, StatusPause
        <3> QED
            BY <2>3, <3>1, <3>2
    <2>6. CASE UpdateUserInfos
        <3>1. UNCHANGED <<users, expires, restored>>
            BY <2>6 DEF UpdateUserInfos
        <3>2. u \in DOMAIN userInfos' => userInfos'[u].Status = StatusDelete
            BY <2>1, <2>6 DEF UpdateUserInfos
        <3> QED
            BY <2>1, <2>2, <3>1, <3>2 DEF Disabled, HasStatus
    <2>7. CASE CheckPasswordTimeout
        <3>1. UNCHANGED <<users, userInfos, restored>> /\ u \notin expires'
            BY <2>1, <2>7
            DEF CheckPasswordTimeout, MustPause, StatusDelete, StatusNormal
        <3> QED
            BY <2>1, <2>2, <3>1 DEF Disabled, HasStatus
    <2>8. CASE CheckPasswordUnTimeout
        <3>1. UNCHANGED <<users, userInfos, expires>> /\ u \notin restored'
            BY <2>1, <2>8
            DEF CheckPasswordUnTimeout, MayRestore, StatusDelete, StatusPause
        <3> QED
            BY <2>1, <2>2, <3>1 DEF Disabled, HasStatus
    <2>9. CASE Pause \/ Restore
        <3>1. /\ UNCHANGED userInfos /\ expires' \subseteq expires
              /\ restored' \subseteq restored
            BY <2>9 DEF Pause, Restore
        <3>2. users'[u] = users[u]
            BY <2>1, <2>9 DEF Pause, Restore, BatchUpdateUserStatus
        <3> QED
            BY <2>1, <2>2, <3>1, <3>2 DEF Disabled, HasStatus
    <2>10. CASE Restart
        <3>1. /\ UNCHANGED users /\ DOMAIN userInfos' = {}
              /\ expires' = {} /\ restored' = {}
            BY <2>10 DEF Restart, NoInfos
        <3> QED
            BY <2>1, <2>2, <3>1 DEF Disabled, HasStatus
    <2>11. CASE Tick \/ (\E k \in Kinds : ClearFailures(k)) \/ UNCHANGED vars
        <3>1. UNCHANGED <<users, daemonVars>>
            BY <2>11 DEF Tick, ClearFailures, vars
        <3> QED
            BY <2>1, <2>3, <3>1
    <2> QED
        BY <1>1, <2>4, <2>5, <2>6, <2>7, <2>8, <2>9, <2>10, <2>11 DEF Next
<1>2. AccountsInv /\ [Next]_vars => [Kept]_vars
    BY <1>1
<1> QED
    BY <1>2, Inductive, PTL DEF Spec, DisabledStays
=============================================================================
