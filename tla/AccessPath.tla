------------------------------- MODULE AccessPath -------------------------------
(***************************************************************************)
(* The way of a browser's request to a handler of the server: the session  *)
(* and the page at the browser, AuthRequired and the reverse proxy of SwM, *)
(* the signed request, and swmAuthMiddleware with its store of nonces.     *)
(*                                                                         *)
(* A session is a signed cookie kept by the browser: SwM answers with a    *)
(* new one, which reaches the browser with the response.  A request id     *)
(* stands for the nonce of the signed request, so each id is used once.    *)
(* SwM and the server are given one clock.  What a request asks for is a   *)
(* class: it decides which guards apply.  The CSRF token, the address      *)
(* whitelist and the limits on the size of a body only refuse requests,    *)
(* and are left out; what handlers do is in Accounts and Approvals.        *)
(***************************************************************************)
EXTENDS Naturals, FiniteSets

CONSTANTS
    Users,
    Requests,            \* nonces
    None, Ended,
    AdminCacheTTL,       \* in units of time, as the next five
    SessionTimeOut,
    MaxSkewSeconds,
    NonceTTL,
    CallTimeout,         \* of SwM's calls to the server
    ReadTimeout,         \* of SwM, for the body of a request
    MaxNonceCount,
    Enforce,             \* swm_auth.enforce
    MaxTime,             \* bound on time
    MaxChanges,          \* bound on changes of accounts and administrators
    MaxFaults            \* bound on calls without an answer, retries, restarts

ASSUME AccessAssumption ==
    /\ AdminCacheTTL \in Nat /\ SessionTimeOut \in Nat /\ MaxSkewSeconds \in Nat
    /\ NonceTTL \in Nat /\ MaxNonceCount \in Nat /\ MaxTime \in Nat
    /\ CallTimeout \in Nat /\ ReadTimeout \in Nat
    /\ MaxChanges \in Nat /\ MaxFaults \in Nat
    /\ Enforce \in BOOLEAN
    /\ IsFiniteSet(Users) /\ IsFiniteSet(Requests)

Times == 0 .. MaxTime

\* tacacs_user.status.
Disabled == 0
Normal == 1
Paused == 2
Status == {Disabled, Normal, Paused}

\* "password": change the own password.  "read": a GET of own data.  "admin": a path,
\* a decision or another user's data, for administrators only.
Classes == {"password", "read", "admin"}
Pages == {"closed", "loading", "full", "reset"}

\* since is when the server read the list that a request waits for, and later when
\* the reading of the body began.  may and old are history: whether the account was
\* allowed the request at some moment since it arrived, and whether the list of
\* administrators it was judged by was kept after a failed refresh.
Request == [user : Users, class : Classes,
            stage : {"session", "status", "proxy", "listed", "body", "sent", "answered"},
            access : Times, seen : Status \cup {None}, ts : Times,
            list : SUBSET Users, since : Times,
            handled : Nat, may : BOOLEAN, old : BOOLEAN]

Heartbeat == [access : Times \cup {None}, seen : Status \cup {None}]

ASSUME NoneAssumption ==
    /\ None # Ended /\ {None, Ended} \cap Request = {}
    /\ None \notin Times \cup Heartbeat

VARIABLES
    now,
    status,        \* of each account
    admins,        \* tacacs_admin
    session,       \* the browser's cookie: its last_access, or None
    page,
    heartbeat,     \* an answer to the page's heartbeat: its cookie and the status, or None
    adminCache,    \* a set of users, or None before the first refresh
    adminCacheAt,
    request,
    nonceStore,    \* expiry of each nonce held
    nonceCount,
    lastAdmin,     \* history: when the user was last an administrator, or None
    changes, faults

browserVars == <<session, page, heartbeat>>
cacheVars == <<adminCache, adminCacheAt>>
nonceVars == <<nonceStore, nonceCount>>
accountVars == <<status, admins, lastAdmin, changes>>
vars == <<now, accountVars, browserVars, cacheVars, request, nonceVars,
                   faults>>

NoNonces == [n \in {} |-> 0]

Init ==
    /\ now = 0 /\ changes = 0 /\ faults = 0
    /\ status = [u \in Users |-> Normal]
    /\ admins \in SUBSET Users
    /\ lastAdmin = [u \in Users |-> IF u \in admins THEN 0 ELSE None]
    /\ session = [u \in Users |-> None]
    /\ page = [u \in Users |-> "closed"] /\ heartbeat = [u \in Users |-> None]
    /\ adminCache = None /\ adminCacheAt = 0
    /\ request = [r \in Requests |-> None]
    /\ nonceStore = NoNonces /\ nonceCount = 0

Fault == faults < MaxFaults /\ faults' = faults + 1
Active(r) == request[r] \notin {None, Ended}
At(r, stage) == Active(r) /\ request[r].stage = stage

-----------------------------------------------------------------------------
(* The world: time, and the tables written by Accounts and by hand *)

\* The context of a call and the deadline of a connection cut a wait short: a
\* request does not wait beyond them for the list or for its body.  The deadline runs
\* from the request's first byte; here it is given to the body alone.
OnTime ==
    \A r \in Requests :
        /\ At(r, "listed") => now < request[r].since + CallTimeout
        /\ At(r, "body") => now < request[r].since + ReadTimeout

Tick ==
    /\ now < MaxTime
    /\ OnTime
    /\ now' = now + 1
    /\ lastAdmin' = [u \in Users |-> IF u \in admins THEN now' ELSE lastAdmin[u]]
    /\ UNCHANGED <<status, admins, changes, browserVars, cacheVars, request,
                   nonceVars, faults>>

\* History: what an account may ask for.
MayAsk(s, class) == s \in (IF class = "password" THEN {Normal, Paused} ELSE {Normal})

\* Mutant: a paused account may do everything.
StatusPermitsPaused(s, class) == s # Disabled

\* AuthRequired and passwordResetPathAllowed.
StatusPermits(s, class) == s = Normal \/ (s = Paused /\ class = "password")

SetStatus(u, s) ==
    /\ changes < MaxChanges /\ changes' = changes + 1
    /\ s # status[u]
    /\ status' = [status EXCEPT ![u] = s]
    /\ request' = [r \in Requests |->
           IF Active(r) /\ request[r].user = u
             THEN [request[r] EXCEPT !.may = @ \/ MayAsk(s, request[r].class)]
             ELSE request[r]]
    /\ UNCHANGED <<now, admins, lastAdmin, browserVars, cacheVars, nonceVars, faults>>

\* tacacs_admin is only read by the program.
SetAdmin(u) ==
    /\ changes < MaxChanges /\ changes' = changes + 1
    /\ admins' = (admins \ {u}) \cup ({u} \ admins)
    /\ lastAdmin' = [lastAdmin EXCEPT ![u] = now]
    /\ UNCHANGED <<now, status, browserVars, cacheVars, request, nonceVars,
                   faults>>

-----------------------------------------------------------------------------
(* Login, logout and the heartbeat of a page *)

\* handleLogin with the right password: /tacacs/user/check answers with the status,
\* the session is saved and the browser sent to "/".  A change of the status between
\* the answer and the save is as one after it.
Login(u) ==
    /\ page[u] = "closed"
    /\ status[u] \in {Normal, Paused}
    /\ session' = [session EXCEPT ![u] = now]
    /\ page' = [page EXCEPT ![u] = "loading"]
    /\ UNCHANGED <<now, accountVars, heartbeat, cacheVars, request, nonceVars,
                   faults>>

\* Leaving a page drops the heartbeat it waits for.
Logout(u) ==
    /\ session[u] # None
    /\ session' = [session EXCEPT ![u] = None]
    /\ page' = [page EXCEPT ![u] = "closed"]
    /\ heartbeat' = [heartbeat EXCEPT ![u] = None]
    /\ UNCHANGED <<now, accountVars, cacheVars, request, nonceVars,
                   faults>>

Expired(access) == now - access > SessionTimeOut

\* GET "/": AuthRequired with the account's status, then Index.
LoadPage(u) ==
    /\ page[u] = "loading"
    /\ IF session[u] = None \/ Expired(session[u]) \/ status[u] = Disabled
         THEN /\ page' = [page EXCEPT ![u] = "closed"]
              /\ session' = [session EXCEPT ![u] = None]
         ELSE /\ page' = [page EXCEPT ![u] =
                              IF status[u] = Paused THEN "reset" ELSE "full"]
              /\ session' = [session EXCEPT ![u] = now]
    /\ UNCHANGED <<now, accountVars, heartbeat, cacheVars, request,
                   nonceVars, faults>>

\* The status is not to be had: the browser goes to /login and keeps its cookie.
LoadPageFails(u) ==
    /\ page[u] = "loading"
    /\ Fault
    /\ page' = [page EXCEPT ![u] = "closed"]
    /\ UNCHANGED <<now, accountVars, session, heartbeat, cacheVars, request,
                   nonceVars>>

TooOld(access) == access = None \/ Expired(access)

\* Mutant: the flag kept in the session instead of the account's status.
StatusForPageCached(u) == IF page[u] = "reset" THEN Paused ELSE Normal

\* getUserStatus, for a session that is not too old.
StatusForPage(u) == status[u]

\* tick of session.js and checkSession: the cookie of this moment and the status.
AskHeartbeat(u) ==
    /\ page[u] \in {"full", "reset"}
    /\ heartbeat[u] = None
    /\ heartbeat' = [heartbeat EXCEPT ![u] =
           [access |-> session[u],
            seen |-> IF TooOld(session[u]) THEN None ELSE StatusForPage(u)]]
    /\ UNCHANGED <<now, accountVars, session, page, cacheVars, request, nonceVars,
                   faults>>

\* A session that was too old keeps its cookie; that of a disabled account is
\* cleared; otherwise the cookie that came with the heartbeat is saved again.
EndHeartbeat(u) ==
    LET h == heartbeat[u] IN
    /\ h # None
    /\ heartbeat' = [heartbeat EXCEPT ![u] = None]
    /\ session' = CASE h.seen = None -> session
                    [] h.seen = Disabled -> [session EXCEPT ![u] = None]
                    [] OTHER -> [session EXCEPT ![u] = h.access]
    /\ page' = CASE h.seen \in {None, Disabled} -> [page EXCEPT ![u] = "closed"]
                 [] h.seen = Paused /\ page[u] = "full" ->
                        [page EXCEPT ![u] = "loading"]
                 [] OTHER -> page
    /\ UNCHANGED <<now, accountVars, cacheVars, request, nonceVars,
                   faults>>

\* The status is not to be had: checkSession gives the session up.
FailHeartbeat(u) ==
    /\ page[u] \in {"full", "reset"}
    /\ heartbeat[u] = None
    /\ ~TooOld(session[u])
    /\ Fault
    /\ session' = [session EXCEPT ![u] = None]
    /\ page' = [page EXCEPT ![u] = "closed"]
    /\ UNCHANGED <<now, accountVars, heartbeat, cacheVars, request, nonceVars>>

-----------------------------------------------------------------------------
(* A protected request at SwM *)

Goto(r, stage) == request' = [request EXCEPT ![r].stage = stage]
End(r) == request' = [request EXCEPT ![r] = Ended]

\* Any tab of the browser asks, with the cookie of this moment.
Arrive(r, u, class) ==
    /\ request[r] = None
    /\ session[u] # None
    /\ request' = [request EXCEPT ![r] =
           [user |-> u, class |-> class, stage |-> "session", access |-> session[u],
            seen |-> None, ts |-> 0, list |-> {}, since |-> 0, handled |-> 0,
            may |-> MayAsk(status[u], class), old |-> FALSE]]
    /\ UNCHANGED <<now, accountVars, browserVars, cacheVars, nonceVars, faults>>

\* AuthRequired: the session is too old, and cleared.
RefuseExpired(r) ==
    /\ At(r, "session")
    /\ Expired(request[r].access)
    /\ session' = [session EXCEPT ![request[r].user] = None]
    /\ End(r)
    /\ UNCHANGED <<now, accountVars, page, heartbeat, cacheVars, nonceVars, faults>>

\* getUserStatus, the server's answer.
AskStatus(r) ==
    /\ At(r, "session")
    /\ ~Expired(request[r].access)
    /\ request' = [request EXCEPT ![r].stage = "status",
                                  ![r].seen = status[request[r].user]]
    /\ UNCHANGED <<now, accountVars, browserVars, cacheVars, nonceVars, faults>>

AskStatusFails(r) ==
    /\ At(r, "session")
    /\ ~Expired(request[r].access)
    /\ Fault
    /\ End(r)
    /\ UNCHANGED <<now, accountVars, browserVars, cacheVars, nonceVars>>

\* A disabled account loses its session, a paused one is sent to "/".
RefuseStatus(r) ==
    /\ At(r, "status")
    /\ ~StatusPermits(request[r].seen, request[r].class)
    /\ session' = IF request[r].seen = Disabled
                    THEN [session EXCEPT ![request[r].user] = None]
                    ELSE session
    /\ End(r)
    /\ UNCHANGED <<now, accountVars, page, heartbeat, cacheVars, nonceVars, faults>>

\* last_access is set; the browser gets the new cookie with the response.
PassStatus(r) ==
    /\ At(r, "status")
    /\ StatusPermits(request[r].seen, request[r].class)
    /\ request' = [request EXCEPT ![r].stage = "proxy", ![r].access = now,
                                  ![r].seen = None]
    /\ UNCHANGED <<now, accountVars, browserVars, cacheVars, nonceVars, faults>>

\* The response of the proxy, with the cookie saved by AuthRequired.
Respond(r) ==
    /\ session' = [session EXCEPT ![request[r].user] = request[r].access]
    /\ End(r)
    /\ UNCHANGED <<now, accountVars, page, heartbeat, cacheVars, nonceVars>>

\* Mutant: an off-by-one in the age of the list.
AdminCacheFreshTooLong == adminCache # None /\ now - adminCacheAt <= AdminCacheTTL

AdminCacheFresh == adminCache # None /\ now - adminCacheAt < AdminCacheTTL

\* getAdminUsers keeps its lock while it asks the server.
LockFree == \A r \in Requests : ~At(r, "listed")

\* TacacsProxyHandler judges by the list it was given.  The rules on the body look
\* at it later, with the same result.
Forbidden(r, list) == request[r].class = "admin" /\ request[r].user \notin list

Judge(r, list, kept) ==
    request' = IF Forbidden(r, list)
                 THEN [request EXCEPT ![r].stage = "answered", ![r].list = {},
                                      ![r].since = 0]
                 ELSE [request EXCEPT ![r].stage = "body", ![r].list = {},
                                      ![r].since = now,
                                      ![r].old = kept /\ request[r].class = "admin"]

UseAdmins(r) ==
    /\ At(r, "proxy") /\ LockFree
    /\ AdminCacheFresh
    /\ Judge(r, adminCache, FALSE)
    /\ UNCHANGED <<now, accountVars, browserVars, cacheVars, nonceVars, faults>>

\* The server reads its table.  It answers with an empty list when it cannot.
AskAdmins(r) ==
    /\ At(r, "proxy") /\ LockFree
    /\ ~AdminCacheFresh
    /\ \E list \in {admins, {}} :
          /\ request' = [request EXCEPT ![r].stage = "listed", ![r].list = list,
                                        ![r].since = now]
          /\ \/ list = admins /\ UNCHANGED faults
             \/ list = {} /\ Fault
    /\ UNCHANGED <<now, accountVars, browserVars, cacheVars, nonceVars>>

\* The answer has come, and is stamped with the time of now.
StoreAdmins(r) ==
    /\ At(r, "listed")
    /\ adminCache' = request[r].list /\ adminCacheAt' = now
    /\ Judge(r, request[r].list, FALSE)
    /\ UNCHANGED <<now, accountVars, browserVars, nonceVars, faults>>

\* No answer, not in time, or none that can be read: the list is kept.
FailAdmins(r) ==
    /\ At(r, "listed")
    /\ Fault
    /\ Judge(r, IF adminCache = None THEN {} ELSE adminCache, TRUE)
    /\ UNCHANGED <<now, accountVars, browserVars, cacheVars, nonceVars>>

\* The body has been read, and signRequest stamps the request.  The server applies
\* the same rules to the identity that is signed here, so what passed them passes
\* there.
SignRequest(r) ==
    /\ At(r, "body")
    /\ request' = [request EXCEPT ![r].stage = "sent", ![r].since = 0, ![r].ts = now]
    /\ UNCHANGED <<now, accountVars, browserVars, cacheVars, nonceVars, faults>>

\* The body did not come in time.
RefuseBody(r) ==
    /\ At(r, "body")
    /\ now = request[r].since + ReadTimeout
    /\ request' = [request EXCEPT ![r].stage = "answered", ![r].since = 0]
    /\ UNCHANGED <<now, accountVars, browserVars, cacheVars, nonceVars, faults>>

\* The connection to the server breaks before the server reads the request: the
\* caller gets 502.
LoseRequest(r) ==
    /\ At(r, "sent")
    /\ Fault
    /\ Respond(r)

\* The connection breaks before the response of a GET is read: net/http sends the
\* same signed request once more.
Retry(r) ==
    /\ At(r, "answered")
    /\ request[r].class = "read"
    /\ Fault
    /\ Goto(r, "sent")
    /\ UNCHANGED <<now, accountVars, browserVars, cacheVars, nonceVars>>

EndRequest(r) ==
    /\ At(r, "answered")
    /\ Respond(r)
    /\ UNCHANGED faults

-----------------------------------------------------------------------------
(* swmAuthMiddleware *)

Held == DOMAIN nonceStore

\* The nonces whose time is over.
ExpiredNonces == {n \in Held : nonceStore[n] <= now}

\* The goroutine started by startNonceCleaner.
CleanNonces ==
    /\ ExpiredNonces # {}
    /\ nonceStore' = [n \in Held \ ExpiredNonces |-> nonceStore[n]]
    /\ nonceCount' = nonceCount - Cardinality(ExpiredNonces)
    /\ UNCHANGED <<now, accountVars, browserVars, cacheVars, request, faults>>

\* Mutant: a nonce is held for as long as its timestamp could be valid on arrival.
NonceExpiryShort == now + MaxSkewSeconds

\* nonceTTLForSkew.
NonceExpiry == now + NonceTTL

Stale(r) == now - request[r].ts > MaxSkewSeconds

\* At the limit the expired nonces are dropped first.
Dropped == IF nonceCount >= MaxNonceCount THEN ExpiredNonces ELSE {}
CountLeft == nonceCount - Cardinality(Dropped)

\* Mutant: a store at its limit takes one nonce more.
VerifiedBeyond(r) ==
    ~Stale(r) /\ CountLeft <= MaxNonceCount /\ r \notin Held \ Dropped

Verified(r) == ~Stale(r) /\ CountLeft < MaxNonceCount /\ r \notin Held \ Dropped

\* verifySwmSignature, in the critical section of nonceMu.
VerifySwmSignature(r) ==
    LET added == IF Verified(r) THEN {r} ELSE {} IN
    IF Stale(r)
      THEN UNCHANGED nonceVars
      ELSE /\ nonceStore' = [n \in (Held \ Dropped) \cup added |->
                                IF n \in added THEN NonceExpiry ELSE nonceStore[n]]
           /\ nonceCount' = CountLeft + Cardinality(added)

\* The middleware refuses what is not verified if it enforces; each handler of these
\* classes asks for a verified identity itself.
Handles(r) == (Enforce => Verified(r)) /\ Verified(r)

Serve(r) ==
    /\ At(r, "sent")
    /\ VerifySwmSignature(r)
    /\ request' = [request EXCEPT ![r].stage = "answered",
           ![r].handled = IF Handles(r) THEN @ + 1 ELSE @]
    /\ UNCHANGED <<now, accountVars, browserVars, cacheVars, faults>>

\* The nonces are lost.  handled counts in the present run of the server.
RestartServer ==
    /\ Fault
    /\ nonceStore' = NoNonces /\ nonceCount' = 0
    /\ request' = [r \in Requests |->
           IF Active(r) THEN [request[r] EXCEPT !.handled = 0] ELSE request[r]]
    /\ UNCHANGED <<now, accountVars, browserVars, cacheVars>>

\* The list of administrators and the requests under way are lost; the key of the
\* cookies is kept in a file.
RestartSwm ==
    /\ Fault
    /\ adminCache' = None /\ adminCacheAt' = 0
    /\ heartbeat' = [u \in Users |-> None]
    /\ request' = [r \in Requests |->
           IF Active(r) THEN Ended ELSE request[r]]
    /\ UNCHANGED <<now, accountVars, session, page, nonceVars>>

-----------------------------------------------------------------------------

World == Tick \/ (\E u \in Users : SetAdmin(u) \/ \E s \in Status : SetStatus(u, s))

Page(u) ==
    \/ LoadPage(u) \/ LoadPageFails(u)
    \/ AskHeartbeat(u) \/ EndHeartbeat(u) \/ FailHeartbeat(u)

Swm(r) ==
    \/ RefuseExpired(r) \/ AskStatus(r) \/ AskStatusFails(r)
    \/ RefuseStatus(r) \/ PassStatus(r)
    \/ UseAdmins(r) \/ AskAdmins(r) \/ StoreAdmins(r) \/ FailAdmins(r)
    \/ SignRequest(r) \/ RefuseBody(r)
    \/ LoseRequest(r) \/ Retry(r) \/ EndRequest(r)

Next ==
    \/ World
    \/ \E u \in Users : Login(u) \/ Logout(u) \/ Page(u)
    \/ \E r \in Requests, u \in Users, class \in Classes : Arrive(r, u, class)
    \/ \E r \in Requests : Swm(r) \/ Serve(r)
    \/ CleanNonces
    \/ RestartServer \/ RestartSwm

Spec == Init /\ [][Next]_vars

\* Every request under way is served, and an open page loads and repeats its
\* heartbeat by a timer: a page that is seen or used, that is, since a page that
\* is hidden and unused for half an hour pauses until it is seen again.
Fairness ==
    /\ \A r \in Requests : WF_vars(Swm(r)) /\ WF_vars(Serve(r))
    /\ \A u \in Users : /\ WF_vars(LoadPage(u))
                        /\ WF_vars(AskHeartbeat(u)) /\ WF_vars(EndHeartbeat(u))

FairSpec == Spec /\ Fairness

-----------------------------------------------------------------------------
(* Properties *)

\* The types of the variables; the counter of nonces is exact and within its limit,
\* although the cleaner, a full store and a restart change the store.
TypeOK ==
    /\ now \in Times /\ changes \in 0 .. MaxChanges /\ faults \in 0 .. MaxFaults
    /\ status \in [Users -> Status]
    /\ admins \subseteq Users
    /\ lastAdmin \in [Users -> Times \cup {None}]
    /\ session \in [Users -> Times \cup {None}]
    /\ page \in [Users -> Pages]
    /\ heartbeat \in [Users -> Heartbeat \cup {None}]
    /\ \A u \in Users : heartbeat[u] # None => page[u] \in {"full", "reset"}
    /\ adminCache = None \/ adminCache \subseteq Users
    /\ adminCacheAt \in Times
    /\ request \in [Requests -> Request \cup {None, Ended}]
    /\ Held \subseteq Requests
    /\ \A n \in Held : nonceStore[n] \in Nat
    /\ nonceCount = Cardinality(Held) /\ nonceCount <= MaxNonceCount

Handled(r) == Active(r) /\ request[r].handled > 0

\* One run of the server handles a signed request at most once, although the
\* connection breaks and net/http sends it again, at any moment a timestamp is still
\* accepted, and nonces expire: a nonce outlives every timestamp it may come with.
HandledOnce == \A r \in Requests : Active(r) => request[r].handled <= 1

\* A request is handled only if the account was allowed it at some moment since the
\* request reached SwM: an account that was disabled or paused before has no effect
\* any more, whatever cookie it holds and whatever raced with the change.
RevokedIsRefused == \A r \in Requests : Handled(r) => request[r].may

\* A request of an administrator is handled only while the account is one, or less
\* after it was than what the code lets add up: the answer with the list may be on
\* its way for a call's time-out before it is stamped, the list is used for its life,
\* the body may take the time-out of a read, and the signature has the age allowed to
\* a timestamp.  A list kept because the server could not be asked is excepted.
AdminIsCurrent ==
    [][\A r \in Requests, u \in Users :
          /\ At(r, "sent") /\ request'[r] # Ended
          /\ request[r].user = u /\ request'[r].handled > request[r].handled
          /\ request[r].class = "admin" /\ ~request[r].old
          => /\ lastAdmin[u] # None
             /\ now - lastAdmin[u]
                   < CallTimeout + AdminCacheTTL + ReadTimeout + MaxSkewSeconds]_vars

\* The page of an account that stays disabled is closed, and the page of one that
\* stays paused does not keep offering more than the change of password: the
\* heartbeat finds out, although it races with logins, logouts and reloads.
PageFollowsAccount ==
    \A u \in Users :
        /\ <>[](status[u] = Disabled) => <>[](page[u] = "closed")
        /\ <>[](status[u] = Paused) => <>[](page[u] # "full")

=============================================================================
