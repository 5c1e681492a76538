---------------------------- MODULE AccessPathProofs ----------------------------
(***************************************************************************)
(* Proofs about AccessPath for any users, requests, limits and faults.     *)
(***************************************************************************)
EXTENDS AccessPath, FiniteSetTheorems, TLAPS

-----------------------------------------------------------------------------
(* The inductive invariant *)

\* A nonce is held until the timestamp that it came with is too old.
Remembered(r) ==
    \/ r \in Held /\ nonceStore[r] >= request[r].ts + NonceTTL
    \/ now >= request[r].ts + NonceTTL

\* No wait of a request is over its limit.
InTime(q) ==
    /\ q.stage = "listed" => q.since <= now /\ now <= q.since + CallTimeout
    /\ q.stage = "body" => q.since <= now /\ now <= q.since + ReadTimeout

\* How long ago those on the list a request waits for, and the administrator that it
\* was found to be of, were administrators at the latest.
RecentAdmin(q) ==
    /\ q.stage = "listed" =>
          \A u \in q.list : lastAdmin[u] \in Times /\ q.since <= lastAdmin[u]
    /\ q.stage = "body" /\ q.class = "admin" /\ ~q.old =>
          /\ lastAdmin[q.user] \in Times
          /\ q.since < lastAdmin[q.user] + CallTimeout + AdminCacheTTL
    /\ q.stage = "sent" /\ q.class = "admin" /\ ~q.old =>
          /\ lastAdmin[q.user] \in Times
          /\ q.ts < lastAdmin[q.user] + CallTimeout + AdminCacheTTL + ReadTimeout

\* What is known of a request under way, at each stage.
Path(r) ==
    LET q == request[r] IN
    /\ q.ts <= now
    /\ q.stage \in {"session", "status", "proxy", "listed", "body"} => q.handled = 0
    /\ q.handled <= 1
    /\ q.handled = 1 => Remembered(r)
    /\ MayAsk(status[q.user], q.class) => q.may
    /\ q.stage = "status" /\ StatusPermits(q.seen, q.class) => q.may
    /\ q.stage \in {"proxy", "listed", "body", "sent", "answered"} => q.may
    /\ InTime(q)
    /\ RecentAdmin(q)

\* The stamp of the cached list is at most the time-out of a call later than the last
\* time its members were administrators.
ListOrder ==
    /\ adminCacheAt <= now
    /\ \A u \in Users : lastAdmin[u] \in Times => lastAdmin[u] <= now
    /\ \A u \in admins : lastAdmin[u] = now
    /\ adminCache # None =>
          \A u \in adminCache :
             lastAdmin[u] \in Times /\ adminCacheAt <= lastAdmin[u] + CallTimeout

AccessInv == TypeOK /\ ListOrder /\ \A r \in Requests : Active(r) => Path(r)

-----------------------------------------------------------------------------
(* The nonces *)

NoncesOK ==
    /\ Held \subseteq Requests
    /\ \A n \in Held : nonceStore[n] \in Nat
    /\ nonceCount = Cardinality(Held) /\ nonceCount <= MaxNonceCount

\* The expired nonces leave the store and the counter alike.
LEMMA DropExpired ==
    ASSUME TypeOK, NEW S, S \subseteq Held
    PROVE  /\ IsFiniteSet(Held \ S) /\ Cardinality(Held \ S) = nonceCount - Cardinality(S)
           /\ Cardinality(Held \ S) \in Nat /\ Cardinality(S) \in Nat /\ nonceCount \in Nat
<1>1. IsFiniteSet(Held)
    BY AccessAssumption, FS_Subset DEF TypeOK
<1>2. Held \cap S = S
    OBVIOUS
<1>3. /\ IsFiniteSet(Held \ S)
      /\ Cardinality(Held \ S) = Cardinality(Held) - Cardinality(Held \cap S)
    BY <1>1, FS_Difference, Zenon
<1>4. IsFiniteSet(S)
    BY <1>1, FS_Subset
<1> QED
    BY <1>1, <1>2, <1>3, <1>4, FS_CardinalityType DEF TypeOK

\* A verification leaves the counter exact and within its limit.
LEMMA VerifyNonces ==
    ASSUME TypeOK, NEW r \in Requests, VerifySwmSignature(r)
    PROVE  /\ NoncesOK'
           /\ \A n \in Held : (n \in Held' /\ nonceStore'[n] = nonceStore[n])
                              \/ nonceStore[n] <= now
           /\ Verified(r) => r \in Held' /\ nonceStore'[r] = now + NonceTTL
<1> USE AccessAssumption
<1>1. CASE Stale(r)
    BY <1>1 DEF VerifySwmSignature, nonceVars, TypeOK, NoncesOK, Held, Verified
<1>2. CASE ~Stale(r)
    <2> DEFINE added == IF Verified(r) THEN {r} ELSE {}
               left == Held \ Dropped
    <2>1. /\ nonceStore' = [n \in left \cup added |->
                                IF n \in added THEN NonceExpiry ELSE nonceStore[n]]
          /\ nonceCount' = CountLeft + Cardinality(added)
        BY <1>2 DEF VerifySwmSignature
    <2>2. Dropped \subseteq Held /\ \A n \in Dropped : nonceStore[n] <= now
        BY DEF Dropped, ExpiredNonces
    <2>3. /\ IsFiniteSet(left) /\ Cardinality(left) = CountLeft
          /\ CountLeft \in Nat /\ Cardinality(Dropped) \in Nat /\ nonceCount \in Nat
        BY <2>2, DropExpired DEF CountLeft
    <2>4. Held' = left \cup added
        BY <2>1 DEF Held
    <2>5. now \in Nat /\ NonceExpiry \in Nat /\ NonceExpiry = now + NonceTTL
        BY DEF TypeOK, Times, NonceExpiry
    <2>6. /\ Held' \subseteq Requests
          /\ \A n \in Held' : nonceStore'[n] \in Nat
        BY <2>1, <2>4, <2>5 DEF TypeOK
    <2>7. CASE Verified(r)
        <3>1. r \notin left /\ CountLeft < MaxNonceCount /\ added = {r}
            BY <2>7 DEF Verified
        <3>2. Cardinality(left \cup {r}) = CountLeft + 1 /\ Cardinality({r}) = 1
            BY <2>3, <3>1, FS_AddElement, FS_Singleton
        <3>3. nonceCount' = Cardinality(Held') /\ nonceCount' <= MaxNonceCount
            <4>1. nonceCount' = CountLeft + 1 /\ Held' = left \cup {r}
                BY <2>1, <2>4, <3>1, <3>2
            <4> HIDE DEF added, left
            <4> QED
                BY <2>3, <3>1, <3>2, <4>1
        <3>4. r \in Held' /\ nonceStore'[r] = now + NonceTTL
            BY <2>1, <2>4, <2>5, <3>1
        <3>5. \A n \in Held : (n \in Held' /\ nonceStore'[n] = nonceStore[n])
                              \/ nonceStore[n] <= now
            BY <2>1, <2>2, <2>4, <3>1
        <3> QED
            BY <2>6, <3>3, <3>4, <3>5 DEF NoncesOK
    <2>8. CASE ~Verified(r)
        <3>1. added = {} /\ Cardinality({}) = 0
            BY <2>8, FS_EmptySet
        <3>2. Held' = left /\ nonceCount' = CountLeft
            BY <2>1, <2>3, <2>4, <3>1
        <3>3. nonceCount <= MaxNonceCount
            BY DEF TypeOK
        <3>4. CountLeft <= nonceCount
            BY <2>3 DEF CountLeft
        <3>5. nonceCount' = Cardinality(Held') /\ nonceCount' <= MaxNonceCount
            BY <2>3, <3>2, <3>3, <3>4
        <3>6. \A n \in Held : (n \in Held' /\ nonceStore'[n] = nonceStore[n])
                              \/ nonceStore[n] <= now
            BY <2>1, <2>2, <2>4, <3>1
        <3> QED
            BY <2>6, <2>8, <3>5, <3>6 DEF NoncesOK
    <2> QED
        BY <2>7, <2>8
<1> QED
    BY <1>1, <1>2

\* So does the cleaner.
LEMMA CleanStep ==
    ASSUME TypeOK, CleanNonces
    PROVE  /\ NoncesOK'
           /\ \A n \in Held : (n \in Held' /\ nonceStore'[n] = nonceStore[n])
                              \/ nonceStore[n] <= now
<1> USE AccessAssumption
<1>1. ExpiredNonces \subseteq Held /\ \A n \in ExpiredNonces : nonceStore[n] <= now
    BY DEF ExpiredNonces
<1>2. /\ Cardinality(Held \ ExpiredNonces) = nonceCount - Cardinality(ExpiredNonces)
      /\ Cardinality(ExpiredNonces) \in Nat /\ nonceCount \in Nat
    BY <1>1, DropExpired
<1>3. Held' = Held \ ExpiredNonces
    BY DEF CleanNonces, Held
<1>4. nonceCount' = Cardinality(Held') /\ nonceCount' <= MaxNonceCount
    BY <1>2, <1>3 DEF CleanNonces, TypeOK
<1>5. \A n \in Held' : n \in Held /\ nonceStore'[n] = nonceStore[n]
    BY <1>3 DEF CleanNonces
<1>6. Held' \subseteq Requests /\ \A n \in Held' : nonceStore'[n] \in Nat
    BY <1>5 DEF TypeOK
<1>7. \A n \in Held : (n \in Held' /\ nonceStore'[n] = nonceStore[n]) \/ nonceStore[n] <= now
    BY <1>1, <1>3, <1>5
<1> QED
    BY <1>4, <1>6, <1>7 DEF NoncesOK

-----------------------------------------------------------------------------
(* Type correctness *)

\* The part of TypeOK about accounts, browsers and the list.
AccountsOK ==
    /\ now \in Times /\ changes \in 0 .. MaxChanges /\ faults \in 0 .. MaxFaults
    /\ status \in [Users -> Status]
    /\ admins \subseteq Users
    /\ lastAdmin \in [Users -> Times \cup {None}]

BrowsersOK ==
    /\ session \in [Users -> Times \cup {None}]
    /\ page \in [Users -> Pages]
    /\ heartbeat \in [Users -> Heartbeat \cup {None}]
    /\ \A u \in Users : heartbeat[u] # None => page[u] \in {"full", "reset"}

ListOK == (adminCache = None \/ adminCache \subseteq Users) /\ adminCacheAt \in Times

RequestsOK == request \in [Requests -> Request \cup {None, Ended}]

\* TypeOK is these parts.
LEMMA TypeParts ==
    TypeOK <=> AccountsOK /\ BrowsersOK /\ ListOK /\ RequestsOK /\ NoncesOK
BY DEF TypeOK, AccountsOK, BrowsersOK, ListOK, RequestsOK, NoncesOK

\* Every action keeps the types: the world and the browser.
LEMMA WorldTypes ==
    ASSUME TypeOK, World \/ \E u \in Users : Login(u) \/ Logout(u) \/ Page(u)
    PROVE  TypeOK'
<1> USE AccessAssumption, NoneAssumption DEF Status, Disabled, Normal, Paused, Times
<1>t. /\ AccountsOK /\ BrowsersOK /\ ListOK /\ RequestsOK /\ NoncesOK
    BY TypeParts
<1> SUFFICES /\ AccountsOK' /\ BrowsersOK' /\ ListOK' /\ RequestsOK' /\ NoncesOK'
    BY TypeParts DEF TypeOK, AccountsOK, BrowsersOK, ListOK, RequestsOK, NoncesOK, Held
<1>1. CASE Tick
    BY <1>1, <1>t DEF Tick, AccountsOK, BrowsersOK, ListOK, RequestsOK, NoncesOK,
        Held, browserVars, cacheVars, nonceVars
<1>2. ASSUME NEW u \in Users, SetAdmin(u)
      PROVE  /\ AccountsOK' /\ BrowsersOK' /\ ListOK' /\ RequestsOK' /\ NoncesOK'
    BY <1>2, <1>t DEF SetAdmin, AccountsOK, BrowsersOK, ListOK, RequestsOK, NoncesOK,
        Held, browserVars, cacheVars, nonceVars
<1>3. ASSUME NEW u \in Users, NEW s \in Status, SetStatus(u, s)
      PROVE  /\ AccountsOK' /\ BrowsersOK' /\ ListOK' /\ RequestsOK' /\ NoncesOK'
    <2>1. ASSUME NEW r \in Requests, Active(r)
          PROVE  [request[r] EXCEPT !.may = @ \/ MayAsk(s, request[r].class)] \in Request
        <3> DEFINE m == request[r].may \/ MayAsk(s, request[r].class)
        <3>1. m \in BOOLEAN
            BY Zenon
        <3>2. [request[r] EXCEPT !.may = m] \in Request
            <4> HIDE DEF m
            <4> QED
                BY <2>1, <3>1, <1>t DEF RequestsOK, Request, Active
        <3> QED
            BY <3>2, Zenon
    <2>2. RequestsOK'
        BY <1>3, <1>t, <2>1, Zenon DEF SetStatus, RequestsOK
    <2> QED
        BY <1>3, <1>t, <2>2 DEF SetStatus, AccountsOK, BrowsersOK, ListOK, NoncesOK,
            Held, browserVars, cacheVars, nonceVars
<1>4. ASSUME NEW u \in Users, Login(u) \/ Logout(u)
      PROVE  /\ AccountsOK' /\ BrowsersOK' /\ ListOK' /\ RequestsOK' /\ NoncesOK'
    <2>1. CASE Login(u)
        BY <2>1, <1>t DEF Login, Pages, AccountsOK, BrowsersOK, ListOK, RequestsOK,
            NoncesOK, Held, accountVars, cacheVars, nonceVars
    <2>2. CASE Logout(u)
        BY <2>2, <1>t DEF Logout, Pages, AccountsOK, BrowsersOK, ListOK, RequestsOK,
            NoncesOK, Held, accountVars, cacheVars, nonceVars
    <2> QED
        BY <1>4, <2>1, <2>2
<1>5. ASSUME NEW u \in Users, LoadPage(u) \/ LoadPageFails(u)
      PROVE  /\ AccountsOK' /\ BrowsersOK' /\ ListOK' /\ RequestsOK' /\ NoncesOK'
    BY <1>5, <1>t DEF LoadPage, LoadPageFails, Fault, Pages, AccountsOK, BrowsersOK,
        ListOK, RequestsOK, NoncesOK, Held, accountVars, cacheVars, nonceVars
<1>6. ASSUME NEW u \in Users, AskHeartbeat(u)
      PROVE  /\ AccountsOK' /\ BrowsersOK' /\ ListOK' /\ RequestsOK' /\ NoncesOK'
    BY <1>6, <1>t DEF AskHeartbeat, StatusForPage, Heartbeat, AccountsOK, BrowsersOK, ListOK,
        RequestsOK, NoncesOK, Held, accountVars, cacheVars, nonceVars
<1>7. ASSUME NEW u \in Users, EndHeartbeat(u)
      PROVE  /\ AccountsOK' /\ BrowsersOK' /\ ListOK' /\ RequestsOK' /\ NoncesOK'
    <2>1. session' \in [Users -> Times \cup {None}]
        BY <1>7, <1>t DEF EndHeartbeat, Heartbeat, BrowsersOK
    <2>2. /\ page' \in [Users -> Pages]
          /\ \A v \in Users \ {u} : page'[v] = page[v] /\ heartbeat'[v] = heartbeat[v]
          /\ heartbeat'[u] = None
        BY <1>7, <1>t DEF EndHeartbeat, BrowsersOK, Pages
    <2> QED
        BY <1>7, <1>t, <2>1, <2>2 DEF EndHeartbeat, AccountsOK, BrowsersOK, ListOK,
            RequestsOK, NoncesOK, Held, accountVars, cacheVars, nonceVars
<1>8. ASSUME NEW u \in Users, FailHeartbeat(u)
      PROVE  /\ AccountsOK' /\ BrowsersOK' /\ ListOK' /\ RequestsOK' /\ NoncesOK'
    BY <1>8, <1>t DEF FailHeartbeat, Fault, Pages, AccountsOK, BrowsersOK, ListOK,
        RequestsOK, NoncesOK, Held, accountVars, cacheVars, nonceVars
<1> QED
    BY <1>1, <1>2, <1>3, <1>4, <1>5, <1>6, <1>7, <1>8 DEF World, Page

\* The actions of the proxy.
Proxied(r) ==
    UseAdmins(r) \/ AskAdmins(r) \/ StoreAdmins(r) \/ FailAdmins(r)
    \/ SignRequest(r) \/ RefuseBody(r)

\* What a list makes of a request.
LEMMA JudgedBy ==
    ASSUME TypeOK, NEW r \in Requests, Active(r), NEW list, NEW kept \in BOOLEAN,
           Judge(r, list, kept)
    PROVE  \E q \in Request :
              /\ request' = [request EXCEPT ![r] = q]
              /\ q.user = request[r].user /\ q.class = request[r].class
              /\ q.ts = request[r].ts /\ q.handled = request[r].handled
              /\ q.may = request[r].may
              /\ \/ q.stage = "answered"
                 \/ /\ ~Forbidden(r, list) /\ q.stage = "body" /\ q.since = now
                    /\ q.class = "admin" /\ ~q.old => ~kept
<1> USE AccessAssumption, NoneAssumption
<1>1. /\ request[r] \in Request /\ now \in Times /\ 0 \in Times
      /\ request \in [Requests -> Request \cup {None, Ended}]
    BY DEF TypeOK, Active, Times
<1>2. CASE Forbidden(r, list)
    <2> DEFINE q == [request[r] EXCEPT !.stage = "answered", !.list = {}, !.since = 0]
    <2>1. request' = [request EXCEPT ![r] = q]
        BY <1>1, <1>2 DEF Judge
    <2>2. /\ q \in Request
          /\ q.user = request[r].user /\ q.class = request[r].class
          /\ q.ts = request[r].ts /\ q.handled = request[r].handled
          /\ q.may = request[r].may /\ q.stage = "answered"
        BY <1>1 DEF Request
    <2> HIDE DEF q
    <2> QED
        BY <2>1, <2>2
<1>3. CASE ~Forbidden(r, list)
    <2> DEFINE old == kept /\ request[r].class = "admin"
               q == [request[r] EXCEPT !.stage = "body", !.list = {}, !.since = now,
                                       !.old = old]
    <2>1. request' = [request EXCEPT ![r] = q]
        BY <1>1, <1>3 DEF Judge
    <2>2. old \in BOOLEAN
        OBVIOUS
    <2>3. /\ q \in Request
          /\ q.user = request[r].user /\ q.class = request[r].class
          /\ q.ts = request[r].ts /\ q.handled = request[r].handled
          /\ q.may = request[r].may /\ q.stage = "body" /\ q.since = now
          /\ q.old = old
        <3> HIDE DEF old
        <3> QED
            BY <1>1, <2>2 DEF Request
    <2>4. q.class = "admin" /\ ~q.old => ~kept
        <3> HIDE DEF q
        <3> QED
            BY <2>3
    <2> HIDE DEF q
    <2> QED
        BY <1>3, <2>1, <2>3, <2>4
<1> QED
    BY <1>2, <1>3

\* The actions of the proxy keep the types.
LEMMA ProxyTypes ==
    ASSUME TypeOK, NEW r \in Requests, Proxied(r)
    PROVE  /\ ListOK' /\ RequestsOK' /\ faults' \in 0 .. MaxFaults
           /\ UNCHANGED <<now, accountVars, browserVars, nonceVars>>
<1> USE AccessAssumption, NoneAssumption
<1>0. Active(r)
    BY DEF Proxied, UseAdmins, AskAdmins, StoreAdmins, FailAdmins, SignRequest,
        RefuseBody, At
<1>1. /\ ListOK /\ RequestsOK /\ request[r] \in Request /\ Active(r)
      /\ now \in Times /\ 0 \in Times /\ admins \subseteq Users /\ faults \in 0 .. MaxFaults
      /\ adminCache = None \/ adminCache \subseteq Users
    BY <1>0 DEF TypeOK, Active, ListOK, RequestsOK, Times
<1>2. ASSUME NEW list, NEW kept \in BOOLEAN, Judge(r, list, kept)
      PROVE  RequestsOK'
    BY <1>1, <1>2, JudgedBy DEF RequestsOK
<1>3. CASE UseAdmins(r)
    BY <1>1, <1>2, <1>3 DEF UseAdmins, cacheVars, ListOK
<1>4. CASE AskAdmins(r)
    <2>1. PICK list \in {admins, {}} :
              /\ request' = [request EXCEPT ![r].stage = "listed", ![r].list = list,
                                            ![r].since = now]
              /\ (list = admins /\ UNCHANGED faults) \/ (list = {} /\ Fault)
        BY <1>4 DEF AskAdmins
    <2>2. list \subseteq Users /\ faults' \in 0 .. MaxFaults
        BY <1>1, <2>1 DEF Fault
    <2>3. RequestsOK'
        BY <1>1, <2>1, <2>2 DEF RequestsOK, Request
    <2> QED
        BY <1>1, <1>4, <2>2, <2>3 DEF AskAdmins, cacheVars, ListOK
<1>5. CASE StoreAdmins(r)
    <2>1. request[r].list \subseteq Users
        BY <1>1 DEF Request
    <2> QED
        BY <1>1, <1>2, <1>5, <2>1 DEF StoreAdmins, ListOK
<1>6. CASE FailAdmins(r)
    <2>1. Judge(r, IF adminCache = None THEN {} ELSE adminCache, TRUE) /\ Fault
        BY <1>6 DEF FailAdmins
    <2>2. RequestsOK'
        BY <1>2, <2>1
    <2> QED
        BY <1>1, <1>6, <2>1, <2>2 DEF FailAdmins, Fault, cacheVars, ListOK
<1>7. CASE SignRequest(r) \/ RefuseBody(r)
    <2>1. RequestsOK'
        BY <1>1, <1>7 DEF SignRequest, RefuseBody, RequestsOK, Request
    <2> QED
        BY <1>1, <1>7, <2>1 DEF SignRequest, RefuseBody, cacheVars, ListOK
<1> QED
    BY <1>3, <1>4, <1>5, <1>6, <1>7 DEF Proxied

\* Every action keeps the types: SwM and the server.
LEMMA PathTypes ==
    ASSUME TypeOK,
           \/ \E r \in Requests, u \in Users, class \in Classes : Arrive(r, u, class)
           \/ \E r \in Requests : Swm(r) \/ Serve(r)
           \/ CleanNonces \/ RestartServer \/ RestartSwm
    PROVE  TypeOK'
<1> USE AccessAssumption, NoneAssumption
<1> DEFINE OK == AccountsOK /\ BrowsersOK /\ ListOK /\ RequestsOK /\ NoncesOK
<1>t. OK
    BY TypeParts
<1> SUFFICES OK'
    BY TypeParts DEF TypeOK, AccountsOK, BrowsersOK, ListOK, RequestsOK, NoncesOK, Held
<1>1. ASSUME NEW r \in Requests, NEW u \in Users, NEW class \in Classes, Arrive(r, u, class)
      PROVE  OK'
    <2>1. RequestsOK'
        <3>1. session[u] \in Times /\ 0 \in Times
            BY <1>1, <1>t DEF Arrive, BrowsersOK, Times
        <3> QED
            BY <1>1, <1>t, <3>1 DEF Arrive, RequestsOK, Request, MayAsk
    <2> QED
        BY <1>1, <1>t, <2>1 DEF Arrive, AccountsOK, BrowsersOK, ListOK, NoncesOK, Held,
            accountVars, browserVars, cacheVars, nonceVars
<1>2. ASSUME NEW r \in Requests, RefuseExpired(r) \/ RefuseStatus(r)
      PROVE  OK'
    <2>1. request[r] \in Request
        BY <1>2, <1>t DEF RefuseExpired, RefuseStatus, At, Active, RequestsOK
    <2>2. RequestsOK'
        BY <1>2, <1>t DEF RefuseExpired, RefuseStatus, End, RequestsOK
    <2> QED
        BY <1>2, <1>t, <2>1, <2>2 DEF RefuseExpired, RefuseStatus, AccountsOK, BrowsersOK,
            ListOK, NoncesOK, Held, accountVars, cacheVars, nonceVars
<1>3. ASSUME NEW r \in Requests, AskStatus(r) \/ AskStatusFails(r) \/ PassStatus(r)
      PROVE  OK'
    <2>1. request[r] \in Request
        BY <1>3, <1>t DEF AskStatus, AskStatusFails, PassStatus, At, Active, RequestsOK
    <2>2. RequestsOK'
        BY <1>3, <1>t, <2>1 DEF AskStatus, AskStatusFails, PassStatus, End, RequestsOK,
            Request, AccountsOK
    <2> QED
        BY <1>3, <1>t, <2>2 DEF AskStatus, AskStatusFails, PassStatus, Fault, AccountsOK,
            BrowsersOK, ListOK, NoncesOK, Held, accountVars, browserVars, cacheVars,
            nonceVars
<1>4. ASSUME NEW r \in Requests, Proxied(r)
      PROVE  OK'
    BY <1>4, <1>t, ProxyTypes DEF AccountsOK, BrowsersOK, NoncesOK, Held, accountVars,
        browserVars, nonceVars
<1>5. ASSUME NEW r \in Requests, LoseRequest(r) \/ EndRequest(r)
      PROVE  OK'
    <2>1. request[r] \in Request /\ faults' \in 0 .. MaxFaults
        BY <1>5, <1>t DEF LoseRequest, EndRequest, Fault, At, Active, RequestsOK, AccountsOK
    <2>2. Respond(r)
        BY <1>5 DEF LoseRequest, EndRequest
    <2>3. request[r].user \in Users /\ request[r].access \in Times
        BY <2>1 DEF Request
    <2> QED
        BY <2>1, <2>2, <2>3, <1>t DEF Respond, End, AccountsOK, BrowsersOK, ListOK,
            RequestsOK, NoncesOK, Held, accountVars, cacheVars, nonceVars
<1>6. ASSUME NEW r \in Requests, Retry(r)
      PROVE  OK'
    <2>1. request[r] \in Request
        BY <1>6, <1>t DEF Retry, At, Active, RequestsOK
    <2>2. RequestsOK'
        BY <1>6, <1>t, <2>1 DEF Retry, Goto, RequestsOK, Request
    <2> QED
        BY <1>6, <1>t, <2>2 DEF Retry, Fault, AccountsOK, BrowsersOK, ListOK, NoncesOK,
            Held, accountVars, browserVars, cacheVars, nonceVars
<1>7. ASSUME NEW r \in Requests, Serve(r)
      PROVE  OK'
    <2>1. request[r] \in Request
        BY <1>7, <1>t DEF Serve, At, Active, RequestsOK
    <2>2. RequestsOK'
        BY <1>7, <1>t, <2>1 DEF Serve, RequestsOK, Request
    <2>3. NoncesOK'
        BY <1>7, VerifyNonces DEF Serve
    <2> QED
        BY <1>7, <1>t, <2>2, <2>3 DEF Serve, AccountsOK, BrowsersOK, ListOK,
            accountVars, browserVars, cacheVars
<1>8. CASE CleanNonces
    BY <1>8, <1>t, CleanStep DEF CleanNonces, AccountsOK, BrowsersOK, ListOK, RequestsOK,
        accountVars, browserVars, cacheVars
<1>9. CASE RestartServer
    <2>1. RequestsOK'
        BY <1>9, <1>t DEF RestartServer, Active, RequestsOK, Request
    <2>2. NoncesOK'
        BY <1>9, <1>t, FS_EmptySet DEF RestartServer, NoNonces, NoncesOK, Held
    <2> QED
        BY <1>9, <1>t, <2>1, <2>2 DEF RestartServer, Fault, AccountsOK, BrowsersOK, ListOK,
            accountVars, browserVars, cacheVars
<1>10. CASE RestartSwm
    BY <1>10, <1>t DEF RestartSwm, Fault, Active, AccountsOK, BrowsersOK, ListOK,
        RequestsOK, NoncesOK, Held, Times, accountVars, nonceVars
<1> QED
    BY <1>1, <1>2, <1>3, <1>4, <1>5, <1>6, <1>7, <1>8, <1>9, <1>10 DEF Swm, Proxied

-----------------------------------------------------------------------------
(* The initial state and every step *)

\* Every step keeps the types.
LEMMA TypeStep == TypeOK /\ [Next]_vars => TypeOK'
<1> SUFFICES ASSUME TypeOK, [Next]_vars PROVE TypeOK'
    OBVIOUS
<1>1. CASE World \/ \E u \in Users : Login(u) \/ Logout(u) \/ Page(u)
    BY <1>1, WorldTypes
<1>2. CASE \/ \E r \in Requests, u \in Users, class \in Classes : Arrive(r, u, class)
           \/ \E r \in Requests : Swm(r) \/ Serve(r)
           \/ CleanNonces \/ RestartServer \/ RestartSwm
    BY <1>2, PathTypes
<1>3. CASE UNCHANGED vars
    BY <1>3 DEF TypeOK, Held, vars, accountVars, browserVars, cacheVars, nonceVars
<1> QED
    BY <1>1, <1>2, <1>3 DEF Next

\* At the start no list is cached and no request under way.
LEMMA InitInv == Init => AccessInv
<1> SUFFICES ASSUME Init PROVE AccessInv
    OBVIOUS
<1> USE AccessAssumption, NoneAssumption
<1>1. NoncesOK
    BY FS_EmptySet DEF Init, NoNonces, NoncesOK, Held
<1>2. AccountsOK /\ BrowsersOK /\ ListOK /\ RequestsOK
    BY DEF Init, AccountsOK, BrowsersOK, ListOK, RequestsOK, Times, Status, Normal,
        Disabled, Paused, Pages
<1>3. ListOrder
    BY DEF Init, ListOrder, Times
<1>4. \A r \in Requests : ~Active(r)
    BY DEF Init, Active
<1> QED
    BY <1>1, <1>2, <1>3, <1>4, TypeParts DEF AccessInv

\* What a step leaves of the past: time goes on unless a wait is at its limit, an
\* administrator is not forgotten, and a nonce is dropped only when it has expired.
Later ==
    /\ now' = now \/ (now' = now + 1 /\ OnTime)
    /\ \A u \in Users : lastAdmin[u] \in Times =>
          lastAdmin'[u] \in Times /\ lastAdmin[u] <= lastAdmin'[u]
    /\ \A n \in Held : (n \in Held' /\ nonceStore'[n] = nonceStore[n])
                       \/ nonceStore[n] <= now

\* A nonce remembered stays so.
LEMMA RememberLater ==
    ASSUME TypeOK, TypeOK', Later, NEW r \in Requests, Active(r), Remembered(r),
           Active(r)', request'[r].ts = request[r].ts
    PROVE  Remembered(r)'
<1>1. /\ now \in Nat /\ now' \in Nat /\ request[r].ts \in Nat /\ NonceTTL \in Nat
      /\ \A n \in Held : nonceStore[n] \in Nat
    BY AccessAssumption DEF TypeOK, Times, Active, Request
<1> QED
    BY <1>1 DEF Remembered, Later, Held

\* An administrator of late stays one of late.
LEMMA RecentLater ==
    ASSUME NEW q \in Request, RecentAdmin(q),
           \A u \in Users : lastAdmin[u] \in Times =>
              lastAdmin'[u] \in Times /\ lastAdmin[u] <= lastAdmin'[u]
    PROVE  RecentAdmin(q)'
<1> USE AccessAssumption
<1>1. /\ q.list \subseteq Users /\ q.user \in Users /\ q.since \in Nat /\ q.ts \in Nat
      /\ Times \subseteq Nat
    BY DEF Request, Times
<1>2. /\ CallTimeout \in Nat /\ AdminCacheTTL \in Nat /\ ReadTimeout \in Nat
    OBVIOUS
<1>3. \A a, b, c, d \in Nat : a < b + d /\ b <= c => a < c + d
    OBVIOUS
<1>4. \A u \in Users : lastAdmin[u] \in Times =>
          lastAdmin[u] \in Nat /\ lastAdmin'[u] \in Nat /\ lastAdmin[u] <= lastAdmin'[u]
    BY <1>1
<1>5. q.stage = "listed" =>
          \A u \in q.list : lastAdmin'[u] \in Times /\ q.since <= lastAdmin'[u]
    BY <1>1, <1>4 DEF RecentAdmin
<1>6. q.stage = "body" /\ q.class = "admin" /\ ~q.old =>
          /\ lastAdmin'[q.user] \in Times
          /\ q.since < lastAdmin'[q.user] + CallTimeout + AdminCacheTTL
    BY <1>1, <1>2, <1>4 DEF RecentAdmin
<1>7. q.stage = "sent" /\ q.class = "admin" /\ ~q.old =>
          /\ lastAdmin'[q.user] \in Times
          /\ q.ts < lastAdmin'[q.user] + CallTimeout + AdminCacheTTL + ReadTimeout
    BY <1>1, <1>2, <1>4 DEF RecentAdmin
<1> QED
    BY <1>5, <1>6, <1>7 DEF RecentAdmin

\* A request that a step does not touch stays on its path.
LEMMA PathFrame ==
    ASSUME AccessInv, TypeOK', Later, status' = status,
           NEW r \in Requests, Active(r)', request'[r] = request[r]
    PROVE  Path(r)'
<1>1. Active(r) /\ Path(r)
    BY DEF Active, AccessInv
<1>2. request[r] \in Request /\ now \in Nat /\ now' \in Nat /\ AdminCacheTTL \in Nat
    BY <1>1, AccessAssumption DEF AccessInv, TypeOK, Active, Times
<1>3. request[r].handled = 1 => Remembered(r)'
    BY <1>1, RememberLater DEF AccessInv, Path
<1>4. request[r].ts \in Nat /\ request[r].ts <= now'
    BY <1>1, <1>2 DEF Path, Request, Times, Later
<1>5. InTime(request[r])'
    <2>1. /\ request[r].since \in Nat /\ CallTimeout \in Nat /\ ReadTimeout \in Nat
          /\ InTime(request[r])
        BY <1>1, <1>2, AccessAssumption DEF Path, Request, Times
    <2>2. CASE now' = now
        BY <2>1, <2>2 DEF InTime
    <2>3. CASE now' = now + 1 /\ OnTime
        BY <1>1, <1>2, <2>1, <2>3 DEF InTime, OnTime, At
    <2> QED
        BY <2>2, <2>3 DEF Later
<1>6. RecentAdmin(request[r])'
    BY <1>1, <1>2, <1>4, AccessAssumption, RecentLater DEF Path, Later
<1> QED
    BY <1>1, <1>3, <1>4, <1>5, <1>6 DEF Path, MayAsk, StatusPermits

\* Steps that do not touch the requests or the status of an account.
LEMMA PathUntouched ==
    ASSUME AccessInv, TypeOK', Later, status' = status, request' = request
    PROVE  \A r \in Requests : Active(r)' => Path(r)'
BY PathFrame

\* Steps that touch one request.
LEMMA PathOfOne ==
    ASSUME AccessInv, TypeOK', Later, status' = status,
           NEW r \in Requests, NEW q, request' = [request EXCEPT ![r] = q],
           Active(r)' => Path(r)'
    PROVE  \A p \in Requests : Active(p)' => Path(p)'
<1> SUFFICES ASSUME NEW p \in Requests, Active(p)' PROVE Path(p)'
    OBVIOUS
<1>1. CASE p = r
    BY <1>1
<1>2. CASE p # r
    <2>1. request'[p] = request[p]
        BY <1>2 DEF AccessInv, TypeOK
    <2> QED
        BY <2>1, PathFrame
<1> QED
    BY <1>1, <1>2

-----------------------------------------------------------------------------
(* The cached list and the way of a request *)

\* The list in use is not older than the time its members were administrators, and
\* nothing but a restart of the server makes the store forget.
LEMMA ListStep ==
    ASSUME AccessInv, TypeOK', Next
    PROVE  ListOrder' /\ (Later \/ RestartServer)
<1> USE AccessAssumption, NoneAssumption
<1>t. /\ now \in Nat /\ Times \subseteq Nat
      /\ admins \subseteq Users /\ adminCacheAt \in Nat /\ 0 \in Times /\ now \in Times
      /\ adminCache = None \/ adminCache \subseteq Users
    BY DEF AccessInv, TypeOK, Times
<1>u. \A u \in Users : lastAdmin[u] \in Times => lastAdmin[u] \in Nat
    BY <1>t
<1>l. ListOrder
    BY DEF AccessInv
<1>1. CASE Tick
    <2>1. now' = now + 1 /\ now' \in Times /\ nonceStore' = nonceStore /\ OnTime
          /\ lastAdmin' = [u \in Users |-> IF u \in admins THEN now' ELSE lastAdmin[u]]
          /\ admins' = admins /\ adminCache' = adminCache /\ adminCacheAt' = adminCacheAt
        BY <1>1 DEF Tick, TypeOK, cacheVars, nonceVars
    <2>2. Later
        BY <2>1, <1>t, <1>u, <1>l DEF Later, ListOrder, Held
    <2>3. ListOrder'
        BY <2>1, <1>t, <1>u, <1>l DEF ListOrder
    <2> QED
        BY <2>2, <2>3
<1>2. ASSUME NEW u \in Users, SetAdmin(u)
      PROVE  ListOrder' /\ Later
    <2>1. now' = now /\ nonceStore' = nonceStore
          /\ lastAdmin' = [lastAdmin EXCEPT ![u] = now]
          /\ admins' \subseteq admins \cup {u}
          /\ adminCache' = adminCache /\ adminCacheAt' = adminCacheAt
        BY <1>2 DEF SetAdmin, cacheVars, nonceVars
    <2>2. Later
        BY <2>1, <1>t, <1>u, <1>l DEF Later, ListOrder, Held
    <2>3. \A v \in Users : lastAdmin'[v] = IF v = u THEN now ELSE lastAdmin[v]
        BY <2>1 DEF AccessInv, TypeOK
    <2>4. ListOrder'
        BY <2>1, <2>3, <1>t, <1>u, <1>l DEF ListOrder
    <2> QED
        BY <2>2, <2>4
<1>3. ASSUME now' = now, admins' = admins, lastAdmin' = lastAdmin,
             \/ adminCache' = adminCache /\ adminCacheAt' = adminCacheAt
             \/ adminCache' = None /\ adminCacheAt' = 0
      PROVE  ListOrder'
    BY <1>3, <1>t, <1>u, <1>l DEF ListOrder
<1>4. ASSUME now' = now, lastAdmin' = lastAdmin, nonceStore' = nonceStore
      PROVE  Later
    BY <1>4, <1>t, <1>u DEF Later, Held
<1>5. CASE \/ \E u \in Users, s \in Status : SetStatus(u, s)
           \/ \E u \in Users : Login(u) \/ Logout(u) \/ Page(u)
           \/ \E r \in Requests, u \in Users, class \in Classes : Arrive(r, u, class)
           \/ RestartSwm
    <2>1. /\ now' = now /\ admins' = admins /\ lastAdmin' = lastAdmin
          /\ nonceStore' = nonceStore
          /\ \/ adminCache' = adminCache /\ adminCacheAt' = adminCacheAt
             \/ adminCache' = None /\ adminCacheAt' = 0
        BY <1>5 DEF SetStatus, Login, Logout, Page, LoadPage, LoadPageFails, AskHeartbeat,
            EndHeartbeat, FailHeartbeat, Arrive, RestartSwm, accountVars, cacheVars,
            nonceVars
    <2> QED
        BY <2>1, <1>3, <1>4
<1>6. ASSUME NEW r \in Requests, Swm(r)
      PROVE  ListOrder' /\ Later
    <2>1. CASE StoreAdmins(r)
        <3>1. /\ now' = now /\ admins' = admins /\ lastAdmin' = lastAdmin
              /\ nonceStore' = nonceStore
              /\ adminCache' = request[r].list /\ adminCacheAt' = now
            BY <2>1 DEF StoreAdmins, accountVars, nonceVars
        <3>2. request[r] \in Request /\ Path(r) /\ request[r].stage = "listed"
            BY <2>1 DEF StoreAdmins, At, Active, AccessInv, TypeOK
        <3>3. \A u \in request[r].list :
                  /\ u \in Users /\ lastAdmin[u] \in Times
                  /\ now <= lastAdmin[u] + CallTimeout
            BY <3>2, <1>t DEF Path, InTime, RecentAdmin, Request
        <3>4. ListOrder'
            BY <3>1, <3>3, <1>t, <1>l DEF ListOrder
        <3> QED
            BY <3>1, <3>4, <1>4
    <2>2. CASE ~StoreAdmins(r)
        <3>1. /\ now' = now /\ admins' = admins /\ lastAdmin' = lastAdmin
              /\ nonceStore' = nonceStore
              /\ adminCache' = adminCache /\ adminCacheAt' = adminCacheAt
            BY <1>6, <2>2 DEF Swm, RefuseExpired, AskStatus, AskStatusFails, RefuseStatus,
                PassStatus, UseAdmins, AskAdmins, FailAdmins, SignRequest, RefuseBody,
                LoseRequest, Retry, EndRequest, Respond, accountVars, cacheVars, nonceVars
        <3> QED
            BY <3>1, <1>3, <1>4
    <2> QED
        BY <2>1, <2>2
<1>7. ASSUME NEW r \in Requests, Serve(r)
      PROVE  ListOrder' /\ Later
    <2>1. /\ now' = now /\ admins' = admins /\ lastAdmin' = lastAdmin
          /\ adminCache' = adminCache /\ adminCacheAt' = adminCacheAt
          /\ VerifySwmSignature(r)
        BY <1>7 DEF Serve, accountVars, cacheVars
    <2>2. TypeOK
        BY DEF AccessInv
    <2> QED
        BY <2>1, <2>2, <1>3, <1>t, <1>u, VerifyNonces DEF Later
<1>8. CASE CleanNonces
    <2>1. /\ now' = now /\ admins' = admins /\ lastAdmin' = lastAdmin
          /\ adminCache' = adminCache /\ adminCacheAt' = adminCacheAt
        BY <1>8 DEF CleanNonces, accountVars, cacheVars
    <2>2. TypeOK
        BY DEF AccessInv
    <2> QED
        BY <1>8, <2>1, <2>2, <1>3, <1>t, <1>u, CleanStep DEF Later
<1>9. CASE RestartServer
    BY <1>9, <1>3 DEF RestartServer, accountVars, cacheVars
<1> QED
    BY <1>1, <1>2, <1>5, <1>6, <1>7, <1>8, <1>9 DEF Next, World

\* Whom the proxy lets pass by a list that was not kept after a failure.
LEMMA PassedIsAdmin ==
    ASSUME AccessInv, AdminCacheTTL > 0, NEW r \in Requests, Active(r), NEW list,
           ~Forbidden(r, list), request[r].class = "admin",
           \/ AdminCacheFresh /\ list = adminCache
           \/ At(r, "listed") /\ list = request[r].list
    PROVE  /\ lastAdmin[request[r].user] \in Times
           /\ now < lastAdmin[request[r].user] + CallTimeout + AdminCacheTTL
<1> USE AccessAssumption, NoneAssumption
<1> DEFINE u == request[r].user
<1>1. /\ now \in Nat /\ adminCacheAt \in Nat /\ Times \subseteq Nat
      /\ ListOrder /\ Path(r) /\ request[r] \in Request
    BY DEF AccessInv, TypeOK, Times, Active
<1>2. u \in list /\ u \in Users
    BY <1>1 DEF Forbidden, Request
<1>3. CASE AdminCacheFresh /\ list = adminCache
    <2>1. /\ lastAdmin[u] \in Times /\ adminCacheAt <= lastAdmin[u] + CallTimeout
          /\ now - adminCacheAt < AdminCacheTTL
        BY <1>1, <1>2, <1>3 DEF ListOrder, AdminCacheFresh
    <2>2. lastAdmin[u] \in Nat
        BY <1>1, <2>1
    <2>3. \A a, b, c, d, t \in Nat : a - b < t /\ b <= c + d => a < c + d + t
        OBVIOUS
    <2> QED
        BY <1>1, <2>1, <2>2, <2>3
<1>4. CASE At(r, "listed") /\ list = request[r].list
    <2>1. /\ lastAdmin[u] \in Times /\ request[r].since <= lastAdmin[u]
          /\ now <= request[r].since + CallTimeout /\ request[r].since \in Nat
        BY <1>1, <1>2, <1>4 DEF Path, InTime, RecentAdmin, At, Request
    <2>2. lastAdmin[u] \in Nat
        BY <1>1, <2>1
    <2> QED
        BY <1>1, <2>1, <2>2
<1> QED
    BY <1>3, <1>4

\* What a list makes of a request stays on its path.
LEMMA PathJudged ==
    ASSUME AccessInv, TypeOK', Later, AdminCacheTTL > 0, NEW r \in Requests,
           At(r, "proxy") \/ At(r, "listed"), NEW list, NEW kept \in BOOLEAN,
           Judge(r, list, kept), UNCHANGED <<now, accountVars>>,
           ~kept => \/ AdminCacheFresh /\ list = adminCache
                    \/ At(r, "listed") /\ list = request[r].list
    PROVE  \A p \in Requests : Active(p)' => Path(p)'
<1> USE AccessAssumption, NoneAssumption
<1>1. /\ now' = now /\ status' = status /\ lastAdmin' = lastAdmin
    BY DEF accountVars
<1>2. /\ Active(r) /\ request[r] \in Request /\ Path(r) /\ TypeOK
      /\ request \in [Requests -> Request \cup {None, Ended}]
    BY DEF At, AccessInv, TypeOK, Active
<1>3. request[r].handled = 0 /\ request[r].may /\ request[r].ts <= now
    BY <1>2 DEF Path, At
<1>4. PICK q \in Request :
          /\ request' = [request EXCEPT ![r] = q]
          /\ q.user = request[r].user /\ q.class = request[r].class
          /\ q.ts = request[r].ts /\ q.handled = request[r].handled
          /\ q.may = request[r].may
          /\ \/ q.stage = "answered"
             \/ /\ ~Forbidden(r, list) /\ q.stage = "body" /\ q.since = now
                /\ q.class = "admin" /\ ~q.old => ~kept
    BY <1>2, JudgedBy
<1>5. request'[r] = q
    BY <1>2, <1>4
<1>6. now \in Nat
    BY <1>2 DEF TypeOK, Times
<1>7. InTime(request[r])'
    BY <1>1, <1>4, <1>5, <1>6 DEF InTime
<1>8. RecentAdmin(request[r])'
    <2>1. CASE q.stage = "answered"
        BY <1>5, <2>1 DEF RecentAdmin
    <2>2. CASE q.stage = "body" /\ q.since = now /\ ~Forbidden(r, list)
               /\ (q.class = "admin" /\ ~q.old => ~kept)
        <3>1. q.class = "admin" /\ ~q.old =>
                  /\ lastAdmin[request[r].user] \in Times
                  /\ now < lastAdmin[request[r].user] + CallTimeout + AdminCacheTTL
            BY <1>2, <1>4, <2>2, PassedIsAdmin
        <3> QED
            BY <1>1, <1>4, <1>5, <2>2, <3>1 DEF RecentAdmin
    <2> QED
        BY <1>4, <2>1, <2>2
<1>a. /\ request'[r].ts <= now' /\ request'[r].handled = 0 /\ request'[r].may
      /\ request'[r].stage \in {"answered", "body"}
    BY <1>1, <1>3, <1>4, <1>5
<1>9. Path(r)'
    BY <1>7, <1>8, <1>a DEF Path
<1> QED
    BY <1>1, <1>4, <1>9, PathOfOne

\* Requests at the proxy stay on their path.
LEMMA PathProxied ==
    ASSUME AccessInv, TypeOK', Later, AdminCacheTTL > 0, NEW r \in Requests, Proxied(r)
    PROVE  \A p \in Requests : Active(p)' => Path(p)'
<1> USE AccessAssumption, NoneAssumption
<1>0. TypeOK
    BY DEF AccessInv
<1>1. now' = now /\ status' = status /\ lastAdmin' = lastAdmin /\ nonceStore' = nonceStore
    BY <1>0, ProxyTypes DEF accountVars, nonceVars
<1>2. /\ Active(r) /\ request[r] \in Request /\ Path(r)
      /\ request \in [Requests -> Request \cup {None, Ended}]
    BY DEF Proxied, UseAdmins, AskAdmins, StoreAdmins, FailAdmins, SignRequest, RefuseBody,
        At, AccessInv, TypeOK, Active
<1>3. /\ now \in Nat /\ admins \subseteq Users /\ ListOrder
      /\ Times \subseteq Nat
    BY DEF AccessInv, TypeOK, Times
<1>4. CASE UseAdmins(r)
    BY <1>4, PathJudged DEF UseAdmins
<1>5. CASE AskAdmins(r)
    <2>1. PICK list \in {admins, {}} :
              request' = [request EXCEPT ![r].stage = "listed", ![r].list = list,
                                         ![r].since = now]
        BY <1>5 DEF AskAdmins
    <2> DEFINE q == [request[r] EXCEPT !.stage = "listed", !.list = list, !.since = now]
    <2>2. request' = [request EXCEPT ![r] = q] /\ request'[r] = q
        BY <1>2, <2>1
    <2>3. /\ q.user = request[r].user /\ q.class = request[r].class
          /\ q.ts = request[r].ts /\ q.handled = request[r].handled
          /\ q.may = request[r].may /\ q.stage = "listed" /\ q.since = now
          /\ q.list = list
        BY <1>2 DEF Request
    <2>4. request[r].handled = 0 /\ request[r].may /\ request[r].ts <= now
        BY <1>2, <1>5 DEF Path, AskAdmins, At
    <2> HIDE DEF q
    <2>5. InTime(request[r])'
        BY <1>1, <1>3, <2>2, <2>3 DEF InTime
    <2>6. \A u \in list : lastAdmin[u] = now
        BY <1>3, <2>1 DEF ListOrder
    <2>7. RecentAdmin(request[r])'
        <3>1. now \in Times
            BY DEF AccessInv, TypeOK
        <3> QED
            BY <1>1, <1>3, <2>2, <2>3, <2>6, <3>1 DEF RecentAdmin
    <2>a. /\ request'[r].ts <= now' /\ request'[r].handled = 0 /\ request'[r].may
          /\ request'[r].stage = "listed"
        BY <1>1, <2>2, <2>3, <2>4
    <2>8. Path(r)'
        BY <2>5, <2>7, <2>a DEF Path
    <2> QED
        BY <1>1, <2>2, <2>8, PathOfOne
<1>6. CASE StoreAdmins(r)
    BY <1>6, PathJudged DEF StoreAdmins
<1>7. CASE FailAdmins(r)
    <2>1. Judge(r, IF adminCache = None THEN {} ELSE adminCache, TRUE)
        BY <1>7 DEF FailAdmins
    <2> QED
        BY <1>7, <2>1, PathJudged DEF FailAdmins
<1>8. CASE SignRequest(r)
    <2> DEFINE q == [request[r] EXCEPT !.stage = "sent", !.since = 0, !.ts = now]
    <2>1. request' = [request EXCEPT ![r] = q] /\ request'[r] = q
        BY <1>2, <1>8 DEF SignRequest
    <2>2. /\ q.user = request[r].user /\ q.class = request[r].class
          /\ q.ts = now /\ q.handled = request[r].handled /\ q.old = request[r].old
          /\ q.may = request[r].may /\ q.stage = "sent"
        BY <1>2 DEF Request
    <2>3. /\ request[r].handled = 0 /\ request[r].may /\ request[r].stage = "body"
          /\ request[r].since \in Nat /\ now <= request[r].since + ReadTimeout
        BY <1>2, <1>3, <1>8 DEF Path, SignRequest, At, InTime, Request
    <2> HIDE DEF q
    <2>4. InTime(request[r])'
        BY <2>1, <2>2 DEF InTime
    <2>5. RecentAdmin(request[r])'
        <3>1. CASE request[r].class = "admin" /\ ~request[r].old
            <4>1. /\ lastAdmin[request[r].user] \in Times
                  /\ request[r].since < lastAdmin[request[r].user] + CallTimeout + AdminCacheTTL
                BY <1>2, <2>3, <3>1 DEF Path, RecentAdmin
            <4>2. \A a, b, c, d \in Nat : a <= b + d /\ b < c => a < c + d
                OBVIOUS
            <4>3. lastAdmin[request[r].user] \in Nat
                BY <1>3, <4>1
            <4>4. lastAdmin[request[r].user] + CallTimeout + AdminCacheTTL \in Nat
                BY <4>3
            <4>5. now < lastAdmin[request[r].user] + CallTimeout + AdminCacheTTL + ReadTimeout
                BY <1>3, <2>3, <4>1, <4>2, <4>4
            <4> QED
                BY <1>1, <2>1, <2>2, <4>1, <4>5 DEF RecentAdmin
        <3>2. CASE ~(request[r].class = "admin" /\ ~request[r].old)
            BY <2>1, <2>2, <3>2 DEF RecentAdmin
        <3> QED
            BY <3>1, <3>2
    <2>a. /\ request'[r].ts = now' /\ request'[r].handled = 0 /\ request'[r].may
          /\ request'[r].stage = "sent"
        BY <1>1, <2>1, <2>2, <2>3
    <2>b. now' <= now'
        BY <1>1, <1>3
    <2>6. Path(r)'
        BY <2>4, <2>5, <2>a, <2>b DEF Path
    <2> QED
        BY <1>1, <2>1, <2>6, PathOfOne
<1>9. CASE RefuseBody(r)
    <2> DEFINE q == [request[r] EXCEPT !.stage = "answered", !.since = 0]
    <2>1. request' = [request EXCEPT ![r] = q] /\ request'[r] = q
        BY <1>2, <1>9 DEF RefuseBody
    <2>2. /\ q.ts = request[r].ts /\ q.handled = request[r].handled
          /\ q.user = request[r].user /\ q.class = request[r].class
          /\ q.may = request[r].may /\ q.stage = "answered"
        BY <1>2 DEF Request
    <2>3. request[r].handled = 0 /\ request[r].may /\ request[r].ts <= now
        BY <1>2, <1>9 DEF Path, RefuseBody, At
    <2> HIDE DEF q
    <2>a. /\ request'[r].ts <= now' /\ request'[r].handled = 0 /\ request'[r].may
          /\ request'[r].stage = "answered"
        BY <1>1, <2>1, <2>2, <2>3
    <2>4. Path(r)'
        BY <2>a DEF Path, InTime, RecentAdmin
    <2> QED
        BY <1>1, <2>1, <2>4, PathOfOne
<1> QED
    BY <1>4, <1>5, <1>6, <1>7, <1>8, <1>9 DEF Proxied

\* Requests at SwM stay on their path.
LEMMA PathSwm ==
    ASSUME AccessInv, TypeOK', Later, AdminCacheTTL > 0,
           NEW r \in Requests, Swm(r)
    PROVE  \A p \in Requests : Active(p)' => Path(p)'
<1> USE AccessAssumption, NoneAssumption
<1>0. CASE Proxied(r)
    BY <1>0, PathProxied
<1> SUFFICES ASSUME ~Proxied(r)
             PROVE  \A p \in Requests : Active(p)' => Path(p)'
    BY <1>0
<1>1. status' = status
    BY DEF Swm, Proxied, RefuseExpired, AskStatus, AskStatusFails, RefuseStatus,
        PassStatus, LoseRequest, Retry, EndRequest, Respond, accountVars
<1>2. Active(r) /\ request[r] \in Request /\ Path(r)
    BY DEF Swm, Proxied, RefuseExpired, AskStatus, AskStatusFails, RefuseStatus,
        PassStatus, LoseRequest, Retry, EndRequest, Respond, At, AccessInv, TypeOK, Active
<1>3. request \in [Requests -> Request \cup {None, Ended}]
    BY DEF AccessInv, TypeOK
<1>4. /\ now \in Nat /\ now' \in Nat /\ request[r].ts \in Nat
      /\ request[r].handled \in Nat /\ request[r].may \in BOOLEAN
    BY <1>2 DEF AccessInv, TypeOK, Times, Request
<1>5. CASE request' = [request EXCEPT ![r] = Ended]
    <2>1. ~Active(r)'
        BY <1>3, <1>5 DEF Active
    <2> QED
        BY <1>1, <1>5, <2>1, PathOfOne
<1>6. CASE AskStatus(r)
    <2> DEFINE q == [request[r] EXCEPT !.stage = "status",
                                       !.seen = status[request[r].user]]
    <2>1. request' = [request EXCEPT ![r] = q] /\ request'[r] = q
        BY <1>3, <1>6 DEF AskStatus
    <2>2. /\ q.ts = request[r].ts /\ q.handled = request[r].handled
          /\ q.user = request[r].user /\ q.class = request[r].class
          /\ q.may = request[r].may /\ q.stage = "status"
          /\ q.seen = status[request[r].user]
        BY <1>2 DEF Request
    <2>3. request[r].handled = 0
        BY <1>2, <1>6 DEF Path, AskStatus, At
    <2> HIDE DEF q
    <2>4. Path(r)'
        BY <1>1, <1>2, <1>4, <2>1, <2>2, <2>3 DEF Path, Later, StatusPermits, MayAsk, InTime,
            RecentAdmin
    <2> QED
        BY <1>1, <2>1, <2>4, PathOfOne
<1>7. CASE PassStatus(r)
    <2> DEFINE q == [request[r] EXCEPT !.stage = "proxy", !.access = now, !.seen = None]
    <2>1. request' = [request EXCEPT ![r] = q] /\ request'[r] = q
        BY <1>3, <1>7 DEF PassStatus
    <2>2. /\ q.ts = request[r].ts /\ q.handled = request[r].handled
          /\ q.user = request[r].user /\ q.class = request[r].class
          /\ q.may = request[r].may /\ q.stage = "proxy"
        BY <1>2 DEF Request
    <2>3. request[r].handled = 0 /\ request[r].may
        BY <1>2, <1>7 DEF Path, PassStatus, At
    <2> HIDE DEF q
    <2>a. request'[r].may /\ request'[r].handled = 0 /\ request'[r].stage = "proxy"
        BY <2>1, <2>2, <2>3
    <2>b. request'[r].ts <= now'
        BY <1>2, <1>4, <2>1, <2>2 DEF Path, Later
    <2>4. Path(r)'
        BY <2>a, <2>b DEF Path, InTime, RecentAdmin
    <2> QED
        BY <1>1, <2>1, <2>4, PathOfOne
<1>8. CASE Retry(r)
    <2> DEFINE q == [request[r] EXCEPT !.stage = "sent"]
    <2>1. request' = [request EXCEPT ![r] = q] /\ request'[r] = q
        BY <1>3, <1>8 DEF Retry, Goto
    <2>2. /\ q.ts = request[r].ts /\ q.handled = request[r].handled
          /\ q.user = request[r].user /\ q.class = request[r].class
          /\ q.may = request[r].may /\ q.stage = "sent" /\ q.class = "read"
        BY <1>2, <1>8 DEF Request, Retry
    <2>3. request[r].may
        BY <1>2, <1>8 DEF Path, Retry, At
    <2>4. request[r].handled = 1 => Remembered(r)'
        <3>1. q \in Request
            BY <1>2 DEF Request
        <3>2. Active(r)'
            BY <2>1, <3>1 DEF Active
        <3>3. request'[r].ts = request[r].ts
            BY <2>1, <2>2
        <3>4. TypeOK
            BY DEF AccessInv
        <3> QED
            BY <1>2, <3>2, <3>3, <3>4, RememberLater DEF Path
    <2> HIDE DEF q
    <2>a. /\ request'[r].may /\ request'[r].handled = request[r].handled
          /\ request'[r].stage = "sent" /\ request'[r].class = "read"
        BY <2>1, <2>2, <2>3
    <2>b. request'[r].ts <= now'
        BY <1>2, <1>4, <2>1, <2>2 DEF Path, Later
    <2>c. request[r].handled <= 1
        BY <1>2 DEF Path
    <2>5. Path(r)'
        BY <2>4, <2>a, <2>b, <2>c DEF Path, InTime, RecentAdmin
    <2> QED
        BY <1>1, <2>1, <2>5, PathOfOne
<1> QED
    BY <1>5, <1>6, <1>7, <1>8 DEF Swm, Proxied, RefuseExpired, AskStatusFails, RefuseStatus,
        LoseRequest, EndRequest, Respond, End

\* A signed request is taken by the server at most once.
LEMMA PathServe ==
    ASSUME AccessInv, TypeOK', NonceTTL > MaxSkewSeconds, NEW r \in Requests, Serve(r)
    PROVE  /\ \A p \in Requests : Active(p)' => Path(p)'
           /\ request'[r].handled <= 1
<1> USE AccessAssumption, NoneAssumption
<1> DEFINE q == [request[r] EXCEPT !.stage = "answered",
                     !.handled = IF Handles(r) THEN @ + 1 ELSE @]
<1>1. /\ now' = now /\ status' = status /\ lastAdmin' = lastAdmin
      /\ VerifySwmSignature(r)
      /\ request' = [request EXCEPT ![r] = q]
    BY DEF Serve, accountVars
<1>2. Active(r) /\ request[r] \in Request /\ Path(r) /\ request[r].stage = "sent"
    BY DEF Serve, At, AccessInv, TypeOK, Active
<1>3. /\ now \in Nat /\ request[r].ts \in Nat /\ request[r].handled \in Nat
      /\ NonceTTL \in Nat /\ MaxSkewSeconds \in Nat
      /\ \A n \in Held : nonceStore[n] \in Nat
      /\ \A u \in Users : lastAdmin[u] \in Times => lastAdmin[u] \in Nat
    BY <1>2 DEF AccessInv, TypeOK, Times, Request
<1>4. request'[r] = q
    BY <1>1 DEF AccessInv, TypeOK
<1>5. /\ q.ts = request[r].ts /\ q.stage = "answered" /\ q.may = request[r].may
      /\ q.handled = IF Handles(r) THEN request[r].handled + 1 ELSE request[r].handled
    BY <1>2 DEF Request
<1> HIDE DEF q
<1>6. Later
    <2>1. \A u \in Users : lastAdmin[u] \in Times =>
              lastAdmin'[u] \in Times /\ lastAdmin[u] <= lastAdmin'[u]
        BY <1>1, <1>3
    <2>2. TypeOK
        BY DEF AccessInv
    <2> QED
        BY <1>1, <1>3, <2>1, <2>2, VerifyNonces DEF Later
<1>7. Verified(r) => request[r].handled = 0
    <2> SUFFICES ASSUME Verified(r), request[r].handled = 1
                 PROVE  FALSE
        BY <1>2, <1>3 DEF Path
    <2>1. now < request[r].ts + NonceTTL
        BY <1>3 DEF Verified, Stale
    <2>2. r \in Held /\ nonceStore[r] >= request[r].ts + NonceTTL
        BY <1>2, <1>3, <2>1 DEF Path, Remembered
    <2>3. r \in ExpiredNonces
        BY <2>2 DEF Verified, Dropped
    <2> QED
        BY <1>3, <2>1, <2>2, <2>3 DEF ExpiredNonces
<1>8. request'[r].handled <= 1
    BY <1>2, <1>3, <1>4, <1>5, <1>7 DEF Path, Handles
<1>9. Active(r)' /\ request'[r].ts = request[r].ts
    <2>1. r \in Requests /\ request'[r].stage = "answered"
        BY <1>4, <1>5
    <2>2. q \in Request
        <3> DEFINE h == IF Handles(r) THEN request[r].handled + 1 ELSE request[r].handled
        <3>1. h \in Nat
            BY <1>3
        <3>2. q = [request[r] EXCEPT !.stage = "answered", !.handled = h]
            BY DEF q
        <3> HIDE DEF h
        <3> QED
            BY <1>2, <3>1, <3>2 DEF Request
    <2> QED
        BY <1>4, <1>5, <2>2 DEF Active
<1>10. request'[r].handled = 1 => Remembered(r)'
    <2>1. CASE Verified(r)
        <3>1. r \in Held' /\ nonceStore'[r] = now + NonceTTL
            BY <1>1, <2>1, VerifyNonces DEF AccessInv
        <3>2. nonceStore'[r] >= request'[r].ts + NonceTTL
            BY <1>2, <1>3, <1>9, <3>1 DEF Path
        <3> QED
            BY <3>1, <3>2 DEF Remembered
    <2>2. CASE ~Verified(r)
        <3>1. request'[r].handled = request[r].handled
            BY <1>4, <1>5, <2>2 DEF Handles
        <3>2. TypeOK
            BY DEF AccessInv
        <3> QED
            BY <1>2, <1>6, <1>9, <3>1, <3>2, RememberLater DEF Path
    <2> QED
        BY <2>1, <2>2
<1>11. /\ request'[r].may /\ request'[r].stage = "answered"
       /\ request'[r].ts <= now'
    BY <1>1, <1>2, <1>3, <1>4, <1>5 DEF Path
<1>12. Path(r)'
    BY <1>8, <1>10, <1>11 DEF Path, InTime, RecentAdmin
<1> QED
    BY <1>1, <1>6, <1>8, <1>12, PathOfOne

\* An account that is given a status may ask for what it permits.
LEMMA PathStatus ==
    ASSUME AccessInv, TypeOK', Later, NEW u \in Users, NEW s \in Status, SetStatus(u, s)
    PROVE  \A p \in Requests : Active(p)' => Path(p)'
<1> USE AccessAssumption, NoneAssumption
<1> SUFFICES ASSUME NEW p \in Requests, Active(p)' PROVE Path(p)'
    OBVIOUS
<1>1. /\ now' = now /\ status' = [status EXCEPT ![u] = s] /\ lastAdmin' = lastAdmin
      /\ nonceStore' = nonceStore
    BY DEF SetStatus, nonceVars
<1>2. request'[p] = IF Active(p) /\ request[p].user = u
                      THEN [request[p] EXCEPT !.may = @ \/ MayAsk(s, request[p].class)]
                      ELSE request[p]
    BY DEF SetStatus
<1>3. Active(p) /\ request[p] \in Request /\ Path(p)
    BY <1>2 DEF Active, AccessInv, TypeOK
<1>4. /\ request'[p].user = request[p].user /\ request'[p].class = request[p].class
      /\ request'[p].stage = request[p].stage /\ request'[p].seen = request[p].seen
      /\ request'[p].ts = request[p].ts /\ request'[p].handled = request[p].handled
      /\ request'[p].old = request[p].old
      /\ request'[p].since = request[p].since /\ request'[p].list = request[p].list
    <2> DEFINE m == request[p].may \/ MayAsk(s, request[p].class)
    <2>1. request'[p] = [request[p] EXCEPT !.may = m] \/ request'[p] = request[p]
        BY <1>2
    <2> HIDE DEF m
    <2> QED
        BY <1>3, <2>1 DEF Request
<1>5. /\ request[p].may => request'[p].may
      /\ request[p].user = u /\ MayAsk(s, request[p].class) => request'[p].may
    <2> DEFINE m == request[p].may \/ MayAsk(s, request[p].class)
    <2>1. CASE request[p].user = u
        <3>1. request'[p] = [request[p] EXCEPT !.may = m]
            BY <1>2, <1>3, <2>1
        <3> HIDE DEF m
        <3>2. request'[p].may = m
            BY <1>3, <3>1 DEF Request
        <3> QED
            BY <3>2, Zenon DEF m
    <2>2. CASE request[p].user # u
        BY <1>2, <2>2
    <2> QED
        BY <2>1, <2>2
<1>6. MayAsk(status'[request[p].user], request[p].class) => request'[p].may
    <2>1. CASE request[p].user = u
        <3>1. status'[u] = s
            BY <1>1 DEF AccessInv, TypeOK
        <3> QED
            BY <1>5, <2>1, <3>1
    <2>2. CASE request[p].user # u
        <3>1. status'[request[p].user] = status[request[p].user]
            BY <1>1, <1>3, <2>2 DEF AccessInv, TypeOK, Request
        <3> QED
            BY <1>3, <1>5, <3>1 DEF Path
    <2> QED
        BY <2>1, <2>2
<1>7. Remembered(p) <=> Remembered(p)'
    BY <1>1, <1>4 DEF Remembered, Held
<1> QED
    BY <1>1, <1>3, <1>4, <1>5, <1>6, <1>7 DEF Path, StatusPermits, InTime, RecentAdmin

\* A new run of the server has handled nothing.
LEMMA PathRestart ==
    ASSUME AccessInv, RestartServer
    PROVE  \A p \in Requests : Active(p)' => Path(p)'
<1> USE AccessAssumption, NoneAssumption
<1> SUFFICES ASSUME NEW p \in Requests, Active(p)' PROVE Path(p)'
    OBVIOUS
<1>1. now' = now /\ status' = status /\ lastAdmin' = lastAdmin
    BY DEF RestartServer, accountVars
<1>2. /\ request'[p] = IF Active(p) THEN [request[p] EXCEPT !.handled = 0]
                                    ELSE request[p]
    BY DEF RestartServer
<1>3. Active(p) /\ request[p] \in Request /\ Path(p)
    BY <1>2 DEF Active, AccessInv, TypeOK
<1>4. /\ request'[p].user = request[p].user /\ request'[p].class = request[p].class
      /\ request'[p].stage = request[p].stage /\ request'[p].seen = request[p].seen
      /\ request'[p].ts = request[p].ts /\ request'[p].handled = 0
      /\ request'[p].old = request[p].old /\ request'[p].may = request[p].may
      /\ request'[p].since = request[p].since /\ request'[p].list = request[p].list
    BY <1>2, <1>3 DEF Request
<1>5. request[p].may => request'[p].may
    BY <1>4
<1> QED
    BY <1>1, <1>3, <1>4, <1>5 DEF Path, StatusPermits, MayAsk, InTime, RecentAdmin

\* Every step keeps the invariant.
LEMMA AccessStep ==
    ASSUME NonceTTL > MaxSkewSeconds, AdminCacheTTL > 0
    PROVE  AccessInv /\ [Next]_vars => AccessInv'
<1> SUFFICES ASSUME AccessInv, [Next]_vars PROVE AccessInv'
    OBVIOUS
<1>1. TypeOK'
    BY TypeStep DEF AccessInv
<1>2. CASE UNCHANGED vars
    BY <1>1, <1>2 DEF AccessInv, ListOrder, Path, InTime, RecentAdmin, Remembered, Held,
        Active, MayAsk, StatusPermits, vars, accountVars, browserVars, cacheVars, nonceVars
<1>3. CASE Next
    <2>1. ListOrder' /\ (Later \/ RestartServer)
        BY <1>1, <1>3, ListStep
    <2>2. \A p \in Requests : Active(p)' => Path(p)'
        <3>1. CASE RestartServer
            BY <3>1, PathRestart
        <3>2. ASSUME Later, NEW u \in Users, NEW s \in Status, SetStatus(u, s)
              PROVE  \A p \in Requests : Active(p)' => Path(p)'
            BY <1>1, <3>2, PathStatus
        <3>3. ASSUME Later, NEW r \in Requests, Swm(r)
              PROVE  \A p \in Requests : Active(p)' => Path(p)'
            BY <1>1, <2>1, <3>3, PathSwm
        <3>4. ASSUME NEW r \in Requests, Serve(r)
              PROVE  \A p \in Requests : Active(p)' => Path(p)'
            BY <1>1, <3>4, PathServe
        <3>5. ASSUME Later, \/ Tick \/ (\E u \in Users : SetAdmin(u))
                            \/ (\E u \in Users : Login(u) \/ Logout(u) \/ Page(u))
                            \/ CleanNonces
              PROVE  \A p \in Requests : Active(p)' => Path(p)'
            <4>1. status' = status /\ request' = request
                BY <3>5 DEF Tick, SetAdmin, Login, Logout, Page, LoadPage, LoadPageFails,
                    AskHeartbeat, EndHeartbeat, FailHeartbeat, CleanNonces, accountVars
            <4> QED
                BY <1>1, <3>5, <4>1, PathUntouched
        <3>6. CASE RestartSwm
            BY <3>6 DEF RestartSwm, Active
        <3>7. ASSUME Later, NEW r \in Requests, NEW u \in Users, NEW class \in Classes,
                     Arrive(r, u, class)
              PROVE  \A p \in Requests : Active(p)' => Path(p)'
            <4> DEFINE m == MayAsk(status[u], class)
                       q == [user |-> u, class |-> class, stage |-> "session",
                             access |-> session[u], seen |-> None, ts |-> 0,
                             list |-> {}, since |-> 0, handled |-> 0, may |-> m,
                             old |-> FALSE]
            <4>1. request' = [request EXCEPT ![r] = q] /\ status' = status /\ now' = now
                BY <3>7 DEF Arrive, accountVars
            <4>2. request'[r] = q
                BY <4>1 DEF AccessInv, TypeOK
            <4>3. /\ q.user = u /\ q.class = class /\ q.stage = "session" /\ q.ts = 0
                  /\ q.handled = 0 /\ q.may = m
                OBVIOUS
            <4> HIDE DEF q
            <4>4. now' \in Nat
                BY <4>1 DEF AccessInv, TypeOK, Times
            <4>5. MayAsk(status'[request'[r].user], request'[r].class) => request'[r].may
                BY <4>1, <4>2, <4>3, Zenon
            <4>6. Path(r)'
                BY <4>2, <4>3, <4>4, <4>5 DEF Path, InTime, RecentAdmin
            <4> QED
                BY <1>1, <3>7, <4>1, <4>6, PathOfOne
        <3> QED
            BY <1>3, <2>1, <3>1, <3>2, <3>3, <3>4, <3>5, <3>6, <3>7 DEF Next, World
    <2> QED
        BY <1>1, <2>1, <2>2 DEF AccessInv
<1> QED
    BY <1>2, <1>3

-----------------------------------------------------------------------------
(* Theorems *)

\* The variables keep their types; the counter of nonces is exact and within its limit.
THEOREM TypeCorrect == Spec => []TypeOK
<1>1. Init => TypeOK
    BY InitInv DEF AccessInv
<1> QED
    BY <1>1, TypeStep, PTL DEF Spec

\* A nonce is kept for longer than a timestamp is accepted: then one run of the server
\* handles a signed request at most once (verifySwmSignature).
THEOREM RequestsAreHandledOnce ==
    ASSUME NonceTTL > MaxSkewSeconds, AdminCacheTTL > 0
    PROVE  Spec => []HandledOnce
<1>1. AccessInv => HandledOnce
    BY DEF AccessInv, HandledOnce, Path
<1> QED
    BY <1>1, InitInv, AccessStep, PTL DEF Spec

\* A request is handled only if its account was allowed it since it reached SwM
\* (AuthRequired asks for the status of every request).  The assumptions are those of
\* the common invariant.
THEOREM RevokedRequestsAreRefused ==
    ASSUME NonceTTL > MaxSkewSeconds, AdminCacheTTL > 0
    PROVE  Spec => []RevokedIsRefused
<1>1. AccessInv => RevokedIsRefused
    <2> SUFFICES ASSUME AccessInv, NEW r \in Requests, Handled(r)
                 PROVE  request[r].may
        BY DEF RevokedIsRefused
    <2>1. /\ request[r] \in Request /\ Path(r) /\ request[r].handled > 0
        BY DEF AccessInv, TypeOK, Handled, Active
    <2>2. request[r].stage \in {"proxy", "listed", "body", "sent", "answered"}
        BY <2>1 DEF Request, Path
    <2> QED
        BY <2>1, <2>2 DEF Path
<1> QED
    BY <1>1, InitInv, AccessStep, PTL DEF Spec

\* Only the server handles requests.
LEMMA OnlyServeHandles ==
    ASSUME AccessInv, Next, NEW r \in Requests, At(r, "sent"), request'[r] # Ended,
           request'[r].handled > request[r].handled
    PROVE  Serve(r)
<1> USE AccessAssumption, NoneAssumption
<1>1. /\ request[r] \in Request /\ request[r].stage = "sent" /\ Active(r)
      /\ request[r].handled \in Nat /\ request[r] # None
      /\ request \in [Requests -> Request \cup {None, Ended}]
    BY DEF At, Active, AccessInv, TypeOK, Request
<1>2. CASE request' = request
    BY <1>1, <1>2
<1>3. ASSUME NEW u \in Users, NEW s \in Status, SetStatus(u, s)
      PROVE  FALSE
    <2> DEFINE m == request[r].may \/ MayAsk(s, request[r].class)
    <2>1. request'[r] = [request[r] EXCEPT !.may = m] \/ request'[r] = request[r]
        BY <1>3 DEF SetStatus
    <2> HIDE DEF m
    <2>2. request'[r].handled = request[r].handled
        BY <1>1, <2>1 DEF Request
    <2> QED
        BY <1>1, <2>2
<1>4. CASE RestartServer
    <2>1. request'[r] = [request[r] EXCEPT !.handled = 0]
        BY <1>1, <1>4 DEF RestartServer
    <2>2. request'[r].handled = 0
        BY <1>1, <2>1 DEF Request
    <2> QED
        BY <1>1, <2>2
<1>5. CASE RestartSwm
    BY <1>1, <1>5 DEF RestartSwm
<1>6. ASSUME NEW q \in Requests, Swm(q)
      PROVE  FALSE
    <2>1. CASE q = r
        <3>1. LoseRequest(r)
            BY <1>1, <1>6, <2>1 DEF Swm, RefuseExpired, AskStatus, AskStatusFails,
                RefuseStatus, PassStatus, UseAdmins, AskAdmins, StoreAdmins, FailAdmins,
                SignRequest, RefuseBody, Retry, EndRequest, At
        <3> QED
            BY <1>1, <3>1 DEF LoseRequest, Respond, End
    <2>2. CASE q # r
        <3>1. request'[r] = request[r]
            BY <1>1, <1>6, <2>2 DEF Swm, RefuseExpired, AskStatus, AskStatusFails,
                RefuseStatus, PassStatus, UseAdmins, AskAdmins, StoreAdmins, FailAdmins,
                Judge, SignRequest, RefuseBody, LoseRequest, Retry, EndRequest, Respond,
                End, Goto
        <3> QED
            BY <1>1, <3>1
    <2> QED
        BY <2>1, <2>2
<1>7. ASSUME NEW q \in Requests, Serve(q), q # r
      PROVE  FALSE
    <2>1. request'[r] = request[r]
        BY <1>1, <1>7 DEF Serve
    <2> QED
        BY <1>1, <2>1
<1>8. ASSUME NEW q \in Requests, NEW u \in Users, NEW class \in Classes,
             Arrive(q, u, class)
      PROVE  FALSE
    <2>1. request'[r] = request[r]
        BY <1>1, <1>8 DEF Arrive
    <2> QED
        BY <1>1, <2>1
<1>9. CASE \/ Tick \/ (\E u \in Users : SetAdmin(u))
           \/ (\E u \in Users : Login(u) \/ Logout(u) \/ Page(u))
           \/ CleanNonces
    <2>1. request' = request
        BY <1>9 DEF Tick, SetAdmin, Login, Logout, Page, LoadPage, LoadPageFails,
            AskHeartbeat, EndHeartbeat, FailHeartbeat, CleanNonces
    <2> QED
        BY <1>2, <2>1
<1> QED
    BY <1>3, <1>4, <1>5, <1>6, <1>7, <1>8, <1>9 DEF Next, World

\* A request of an administrator is handled less after the loss of the right than the
\* waits of the code add up to: for the answer with the list, for the life of the list,
\* for the body, and for the age of a timestamp (getAdminUsers, TacacsProxyHandler,
\* verifySwmSignature).
THEOREM AdministratorsAreCurrent ==
    ASSUME NonceTTL > MaxSkewSeconds, AdminCacheTTL > 0
    PROVE  Spec => AdminIsCurrent
<1> DEFINE Current ==
        \A r \in Requests, u \in Users :
           /\ At(r, "sent") /\ request'[r] # Ended
           /\ request[r].user = u /\ request'[r].handled > request[r].handled
           /\ request[r].class = "admin" /\ ~request[r].old
           => /\ lastAdmin[u] # None
              /\ now - lastAdmin[u]
                    < CallTimeout + AdminCacheTTL + ReadTimeout + MaxSkewSeconds
<1>1. AccessInv /\ Next => Current
    <2> SUFFICES ASSUME AccessInv, Next, NEW r \in Requests, NEW u \in Users,
                        At(r, "sent"), request'[r] # Ended,
                        request[r].user = u, request'[r].handled > request[r].handled,
                        request[r].class = "admin", ~request[r].old
                 PROVE  /\ lastAdmin[u] # None
                        /\ now - lastAdmin[u]
                              < CallTimeout + AdminCacheTTL + ReadTimeout + MaxSkewSeconds
        OBVIOUS
    <2>1. Serve(r)
        BY OnlyServeHandles
    <2>2. /\ request[r] \in Request /\ request[r].stage = "sent" /\ Path(r)
        BY DEF AccessInv, TypeOK, At, Active
    <2>3. /\ lastAdmin[u] \in Times
          /\ request[r].ts < lastAdmin[u] + CallTimeout + AdminCacheTTL + ReadTimeout
        BY <2>2 DEF Path, RecentAdmin
    <2>4. Verified(r)
        <3> SUFFICES ASSUME ~Verified(r) PROVE FALSE
            OBVIOUS
        <3>1. ~Handles(r)
            BY DEF Handles
        <3>2. request'[r] = [request[r] EXCEPT !.stage = "answered",
                                               !.handled = request[r].handled]
            BY <2>1, <3>1 DEF Serve, AccessInv, TypeOK
        <3>3. request'[r].handled = request[r].handled /\ request[r].handled \in Nat
            BY <2>2, <3>2 DEF Request
        <3> QED
            BY <3>3
    <2>5. now - request[r].ts <= MaxSkewSeconds
        <3>1. now \in Nat /\ request[r].ts \in Nat
            BY <2>2, AccessAssumption DEF AccessInv, TypeOK, Times, Request
        <3> QED
            BY <2>4, <3>1, AccessAssumption DEF Verified, Stale
    <2>6. /\ now \in Nat /\ request[r].ts \in Nat /\ lastAdmin[u] \in Nat
          /\ lastAdmin[u] # None
        BY <2>2, <2>3, NoneAssumption DEF AccessInv, TypeOK, Times, Request
    <2>7. now - lastAdmin[u] < CallTimeout + AdminCacheTTL + ReadTimeout + MaxSkewSeconds
        BY <2>3, <2>5, <2>6, AccessAssumption
    <2> QED
        BY <2>6, <2>7
<1>2. AccessInv /\ [Next]_vars => [Current]_vars
    BY <1>1
<1> QED
    BY <1>2, InitInv, AccessStep, PTL DEF Spec, AdminIsCurrent
=============================================================================
