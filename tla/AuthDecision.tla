----------------------------- MODULE AuthDecision -----------------------------
(***************************************************************************)
(* How an edge client answers logins and commands from the snapshot        *)
(* (HandleAuthenStart and HandleAuthorRequest of                           *)
(* pkg/client/tac_plus/handler.go, checkUserPassword and                   *)
(* checkCmdAndServerInRole of user.go), while the refresh goroutine        *)
(* replaces the snapshot and the two decision caches under it.             *)
(*                                                                         *)
(* The three atomic pointers are loaded and stored one at a time.  A       *)
(* TypedSyncMap is named by its generation: how many maps were stored in   *)
(* its pointer before it.  A goroutine may go on using an old map.  Get    *)
(* and Set are atomic (RWMutex).                                           *)
(***************************************************************************)
EXTENDS UserData, Naturals

CONSTANTS
    Handlers,      \* goroutines that serve a session, one request at a time
    NoHandler,
    NoRequest,
    Miss,          \* the cache has no entry
    Kinds,         \* which of the two kinds of request are made
    Published,     \* the snapshots the refresh may publish
    MaxRefreshes   \* bound on refreshes

Gens == 0 .. MaxRefreshes

\* Password entries are found by password and hash, command entries by
\* command, device and the names of the roles held.
Keys == [authen |-> Passwords \X Hashes, author |-> Cmds \X SUBSET Roles]

Request == [kind : {"authen"} \cap Kinds, user : Users, arg : Passwords]
           \cup [kind : {"author"} \cap Kinds, user : Users, arg : Cmds]

\* Every account of a snapshot got its roles from one map of roles.
Coherent(s) ==
    \E ri \in RoleInfo : \A u \in Users : s[u] # NoUser =>
        \A r \in Roles : s[u].role[r] \in {NoRole, ri[r]}

ASSUME DecisionAssumption ==
    /\ NoHandler \notin Handlers
    /\ NoRequest \notin Request
    /\ Miss \notin BOOLEAN
    /\ Kinds \subseteq {"authen", "author"}
    /\ \A s \in Published : s \in Snapshot /\ Coherent(s)
    /\ MaxRefreshes \in Nat

VARIABLES
    snapshot,    \* tacacsUserInfo
    publishing,  \* which pointer the refresh stores next; "idle": none
    latest,      \* generation of the map in each cache pointer
    cache,       \* the maps: kind, generation, key -> decision or Miss
    flight,      \* singleflight: who computes the entry of a key
    pc,          \* where each handler is
    request,     \* what it was asked
    info,        \* the account entry it took from the snapshot
    loaded,      \* generation of the cache map it loaded
    verdict,     \* its answer
    granted,     \* history: the commands each role ever permitted
    quiet,       \* history: no refresh was running since the request began
    tainted      \* history: the last refresh replaced the command cache while
                 \* there was a Straggler

handlerVars == <<pc, request, info, loaded, verdict>>
publisherVars == <<snapshot, publishing, latest, granted, tainted>>
vars == <<publisherVars, cache, flight, handlerVars, quiet>>

\* The commands role r permits in snapshot s.
GrantedBy(s, r) ==
    {c \in Cmds : \E u \in Users : /\ s[u] # NoUser
                                   /\ r \in RolesKey(s[u])
                                   /\ c \in s[u].role[r]}

\* TacPlusSystem.Start runs updateUsers once, perhaps in vain, before it listens.
Init ==
    /\ snapshot \in Published \cup {EmptySnapshot}
    /\ publishing = "idle"
    /\ latest = [k \in Kinds |-> 0]
    /\ cache = [k \in Kinds |-> [g \in Gens |-> [key \in Keys[k] |-> Miss]]]
    /\ flight = [k \in Kinds |-> [key \in Keys[k] |-> NoHandler]]
    /\ pc = [h \in Handlers |-> "idle"]
    /\ request = [h \in Handlers |-> NoRequest]
    /\ info = [h \in Handlers |-> NoUser]
    /\ loaded = [h \in Handlers |-> 0]
    /\ verdict = [h \in Handlers |-> FALSE]
    /\ granted = [r \in Roles |-> GrantedBy(snapshot, r)]
    /\ quiet = [h \in Handlers |-> FALSE]
    /\ tainted = FALSE

-----------------------------------------------------------------------------
(* One handler. *)

Kind(h) == request[h].kind

\* Mutant: the password cache is keyed by the password alone.
KeyWithoutHash(h) ==
    IF Kind(h) = "authen"
    THEN <<request[h].arg, CHOOSE hash \in Hashes : TRUE>>
    ELSE <<request[h].arg, RolesKey(info[h])>>

\* Mutant: the command cache is keyed by command and device alone.
KeyWithoutRoles(h) ==
    IF Kind(h) = "authen"
    THEN <<request[h].arg, info[h].password>>
    ELSE <<request[h].arg, {}>>

\* cacheKey
Key(h) == IF Kind(h) = "authen"
          THEN <<request[h].arg, info[h].password>>
          ELSE <<request[h].arg, RolesKey(info[h])>>

\* What the handler would compute, from its own copy of the account entry.
Computed(h) == IF Kind(h) = "authen"
               THEN CheckPasswordHash(request[h].arg, info[h].password)
               ELSE SomeRoleMatches(request[h].arg, info[h])

\* The rest of the rule once the cached part of it is known.
Rule(h, answer) ==
    IF Kind(h) = "authen"
    THEN answer /\ (info[h].isOnDuty \/ RolesKey(info[h]) # {})
    ELSE answer

Cached(h) == cache[Kind(h)][loaded[h]][Key(h)]

GoTo(h, p) == pc' = [pc EXCEPT ![h] = p]

\* The cache map it loaded is not used again.
Forget(h) == loaded' = [loaded EXCEPT ![h] = 0]

Answer(h, answer) ==
    /\ GoTo(h, "done")
    /\ verdict' = [verdict EXCEPT ![h] = answer]

Begin(h, q) ==
    /\ pc[h] = "idle"
    /\ request' = [request EXCEPT ![h] = q]
    /\ quiet' = [quiet EXCEPT ![h] = publishing = "idle"]
    /\ GoTo(h, "lookup")
    /\ UNCHANGED <<publisherVars, cache, flight, info, loaded, verdict>>

\* getTacacsUserInfo, when what it returns settles the answer: no such
\* account; a command of an account that is on duty, or holds no role.
Settle(h) ==
    /\ pc[h] = "lookup"
    /\ LET found == snapshot[request[h].user] IN
           /\ \/ found = NoUser
              \/ /\ found # NoUser
                 /\ Kind(h) = "author"
                 /\ found.isOnDuty \/ RolesKey(found) = {}
           /\ info' = [info EXCEPT ![h] = found]
           /\ Answer(h, found # NoUser /\ found.isOnDuty)
    /\ UNCHANGED <<publisherVars, cache, flight, request, loaded, quiet>>

\* getTacacsUserInfo, when a password or the roles are to be checked.
Consult(h) ==
    /\ pc[h] = "lookup"
    /\ LET found == snapshot[request[h].user] IN
           /\ found # NoUser
           /\ Kind(h) = "author" => ~found.isOnDuty /\ RolesKey(found) # {}
           /\ info' = [info EXCEPT ![h] = found]
    /\ GoTo(h, "load")
    /\ UNCHANGED <<publisherVars, cache, flight, request, loaded, verdict, quiet>>

\* The fast path: load the cache pointer ...
LoadCache(h) ==
    /\ pc[h] = "load"
    /\ loaded' = [loaded EXCEPT ![h] = latest[Kind(h)]]
    /\ GoTo(h, "get")
    /\ UNCHANGED <<publisherVars, cache, flight, request, info, verdict, quiet>>

\* ... and look the key up in that map.
CacheHit(h) ==
    /\ pc[h] = "get"
    /\ Cached(h) # Miss
    /\ Answer(h, Rule(h, Cached(h)))
    /\ Forget(h)
    /\ UNCHANGED <<publisherVars, cache, flight, request, info, quiet>>

CacheMiss(h) ==
    /\ pc[h] = "get"
    /\ Cached(h) = Miss
    /\ GoTo(h, "join")
    /\ Forget(h)
    /\ UNCHANGED <<publisherVars, cache, flight, request, info, verdict, quiet>>

\* singleflight.Do: wait for the goroutine that computes this key ...
Wait(h) ==
    /\ pc[h] = "join"
    /\ flight[Kind(h)][Key(h)] # NoHandler
    /\ GoTo(h, "wait")
    /\ UNCHANGED <<publisherVars, cache, flight, request, info, loaded, verdict,
                   quiet>>

\* ... or be that goroutine.
Lead(h) ==
    /\ pc[h] = "join"
    /\ flight[Kind(h)][Key(h)] = NoHandler
    /\ flight' = [flight EXCEPT ![Kind(h)][Key(h)] = h]
    /\ GoTo(h, "reload")
    /\ UNCHANGED <<publisherVars, cache, request, info, loaded, verdict, quiet>>

ReloadCache(h) ==
    /\ pc[h] = "reload"
    /\ loaded' = [loaded EXCEPT ![h] = latest[Kind(h)]]
    /\ GoTo(h, "compute")
    /\ UNCHANGED <<publisherVars, cache, flight, request, info, verdict, quiet>>

\* The second look into the cache, the computation and cache.Set.  They are
\* one step: only the leader of a key sets its entry, in whatever map.
Compute(h) ==
    LET answer == IF Cached(h) = Miss THEN Computed(h) ELSE Cached(h) IN
    /\ pc[h] = "compute"
    /\ cache' = [cache EXCEPT ![Kind(h)][loaded[h]][Key(h)] = answer]
    /\ verdict' = [verdict EXCEPT ![h] = answer]
    /\ GoTo(h, "release")
    /\ Forget(h)
    /\ UNCHANGED <<publisherVars, flight, request, info, quiet>>

\* Mutant: the goroutines that wait are not woken.
SharingAlone(h) == {h}

\* The goroutines whose Do returns the result of h's call.
Sharing(h) ==
    {h} \cup {f \in Handlers : /\ pc[f] = "wait"
                               /\ Kind(f) = Kind(h)
                               /\ Key(f) = Key(h)}

\* The call is over: the leader and the goroutines that waited take its result.
Release(h) ==
    /\ pc[h] = "release"
    /\ flight' = [flight EXCEPT ![Kind(h)][Key(h)] = NoHandler]
    /\ pc' = [f \in Handlers |-> IF f \in Sharing(h) THEN "done" ELSE pc[f]]
    /\ verdict' = [f \in Handlers |-> IF f \in Sharing(h)
                                      THEN Rule(f, verdict[h]) ELSE verdict[f]]
    /\ UNCHANGED <<publisherVars, cache, request, info, loaded, quiet>>

\* The reply is sent; the goroutine is free for another session.
Reply(h) ==
    /\ pc[h] = "done"
    /\ GoTo(h, "idle")
    /\ request' = [request EXCEPT ![h] = NoRequest]
    /\ info' = [info EXCEPT ![h] = NoUser]
    /\ verdict' = [verdict EXCEPT ![h] = FALSE]
    /\ quiet' = [quiet EXCEPT ![h] = FALSE]
    /\ UNCHANGED <<publisherVars, cache, flight, loaded>>

-----------------------------------------------------------------------------
(* The refresh: updateTacacsUserInfoAndCache. *)

StoreUsers(s) ==
    /\ publishing = "idle"
    /\ \A k \in Kinds : latest[k] < MaxRefreshes
    /\ snapshot' = s
    /\ publishing' = "authen"
    /\ granted' = [r \in Roles |-> granted[r] \cup GrantedBy(s, r)]
    /\ quiet' = [h \in Handlers |-> FALSE]
    /\ UNCHANGED <<latest, tainted, cache, flight, handlerVars>>

NewMap(k) == latest' = [j \in Kinds |-> IF j = k THEN latest[j] + 1
                                                 ELSE latest[j]]

StorePasswordCache ==
    /\ publishing = "authen"
    /\ NewMap("authen")
    /\ publishing' = "author"
    /\ UNCHANGED <<snapshot, granted, tainted, cache, flight, handlerVars, quiet>>

\* A handler that may still cache or share a decision of an older snapshot:
\* it took its account entry from one, or it leads a computation and has
\* loaded the map that is being replaced.
Straggler(h) ==
    \/ pc[h] \in {"compute", "release"}
    \/ /\ pc[h] \in {"load", "get", "join", "reload"}
       /\ info[h] # snapshot[request[h].user]

\* Mutant: the command cache survives the refresh.
KeepCommandCache ==
    /\ publishing = "author"
    /\ publishing' = "idle"
    /\ tainted' = \E h \in Handlers : Straggler(h)
    /\ UNCHANGED <<snapshot, latest, granted, cache, flight, handlerVars, quiet>>

StoreCommandCache ==
    /\ publishing = "author"
    /\ NewMap("author")
    /\ publishing' = "idle"
    /\ tainted' = \E h \in Handlers : Straggler(h)
    /\ UNCHANGED <<snapshot, granted, cache, flight, handlerVars, quiet>>

-----------------------------------------------------------------------------
Serve(h) ==
    \/ Settle(h) \/ Consult(h)
    \/ LoadCache(h) \/ CacheHit(h) \/ CacheMiss(h)
    \/ Wait(h) \/ Lead(h) \/ ReloadCache(h) \/ Compute(h) \/ Release(h)
    \/ Reply(h)

Refresh ==
    \/ \E s \in Published : StoreUsers(s)
    \/ StorePasswordCache \/ StoreCommandCache

Next ==
    \/ \E h \in Handlers : Serve(h) \/ \E q \in Request : Begin(h, q)
    \/ Refresh

Spec == Init /\ [][Next]_vars

\* Goroutines that can run are scheduled; requests and refreshes need not come.
FairSpec == Spec /\ \A h \in Handlers : WF_vars(Serve(h))

-----------------------------------------------------------------------------
Entry == {TRUE, FALSE, Miss}

TypeOK ==
    /\ snapshot \in Published \cup {EmptySnapshot}
    /\ publishing \in {"idle", "authen", "author"}
    /\ latest \in [Kinds -> Gens]
    /\ DOMAIN cache = Kinds /\ DOMAIN flight = Kinds
    /\ \A k \in Kinds : /\ cache[k] \in [Gens -> [Keys[k] -> Entry]]
                        /\ flight[k] \in [Keys[k] -> Handlers \cup {NoHandler}]
    /\ pc \in [Handlers -> {"idle", "lookup", "load", "get", "join", "wait",
                            "reload", "compute", "release", "done"}]
    /\ request \in [Handlers -> Request \cup {NoRequest}]
    /\ info \in [Handlers -> UserInfo \cup {NoUser}]
    /\ loaded \in [Handlers -> Gens]
    /\ verdict \in [Handlers -> BOOLEAN]
    /\ granted \in [Roles -> SUBSET Cmds]
    /\ quiet \in [Handlers -> BOOLEAN]
    /\ tainted \in BOOLEAN

Answered(h, kind) == pc[h] = "done" /\ Kind(h) = kind

\* A login is answered exactly by the rule applied to the account entry it
\* took, though the password check may come from a map of any refresh or from
\* another goroutine's computation.
AuthenExact ==
    \A h \in Handlers : Answered(h, "authen") =>
        verdict[h] = AuthenRule(info[h], request[h].arg)

\* However requests and refreshes race, a command is permitted only to an
\* account on duty or through a role it holds that, in some published
\* snapshot, permitted that very command on that device.
PermitWasGranted ==
    \A h \in Handlers : Answered(h, "author") /\ verdict[h] =>
        \/ info[h].isOnDuty
        \/ \E r \in RolesKey(info[h]) : request[h].arg \in granted[r]

\* A command that no refresh overlaps is answered exactly by the rule, as long
\* as there was no straggler when the command cache was last replaced.
AuthorExactWhenQuiet ==
    \A h \in Handlers : Answered(h, "author") /\ quiet[h] /\ ~tainted =>
        verdict[h] = AuthorRule(info[h], request[h].arg)

\* The cache that a finished, untainted refresh left holds only decisions that
\* the snapshot of that refresh makes.
CommandCacheAgrees ==
    ("author" \in Kinds /\ publishing = "idle" /\ ~tainted) =>
        \A c \in Cmds : \A u \in Users : snapshot[u] # NoUser =>
            cache["author"][latest["author"]][<<c, RolesKey(snapshot[u])>>]
                \in {Miss, SomeRoleMatches(c, snapshot[u])}

\* Every request is answered: the goroutines that share a computation are all
\* woken by it.
RequestsComplete ==
    \A h \in Handlers : pc[h] = "lookup" ~> pc[h] = "done"
=============================================================================
