-------------------------- MODULE AuthDecisionProofs --------------------------
(* Proofs about AuthDecision, for any numbers of handlers, accounts, roles and *)
(* refreshes.                                                                  *)
EXTENDS AuthDecision, TLAPS

\* A handler past its lookup knows what it was asked and whom it found.
Working == {"load", "get", "join", "wait", "reload", "compute", "release"}

HandlersKnow ==
    \A h \in Handlers :
        /\ pc[h] # "idle" => request[h] \in Request
        /\ pc[h] \in Working => info[h] \in UserInfo

\* What holds of an answer about a password, and of one about a command.
PasswordSound(answer, password, hash) ==
    answer = CheckPasswordHash(password, hash)
CommandSound(answer, cmd, roles) ==
    answer = TRUE => \E r \in roles : cmd \in granted[r]

\* Entries of every map, of whatever generation, are sound.
CacheSound ==
    /\ "authen" \in Kinds => \A g \in Gens, p \in Passwords, hash \in Hashes :
           cache["authen"][g][<<p, hash>>] # Miss =>
               PasswordSound(cache["authen"][g][<<p, hash>>], p, hash)
    /\ "author" \in Kinds => \A g \in Gens, c \in Cmds, rs \in SUBSET Roles :
           CommandSound(cache["author"][g][<<c, rs>>], c, rs)

AnswerSound(h, answer) ==
    /\ Kind(h) = "authen" =>
           PasswordSound(answer, request[h].arg, info[h].password)
    /\ Kind(h) = "author" =>
           CommandSound(answer, request[h].arg, RolesKey(info[h]))

\* The history of grants covers every account entry in use.
Covered(i) == i # NoUser => \A r \in RolesKey(i) : i.role[r] \subseteq granted[r]

EntriesCovered ==
    /\ \A u \in Users : Covered(snapshot[u])
    /\ \A h \in Handlers : Covered(info[h])

\* A refresh that has begun has a generation left for each map.
Room ==
    /\ publishing = "authen" => \A k \in Kinds : latest[k] < MaxRefreshes
    /\ publishing = "author" =>
           \A k \in Kinds : k = "author" => latest[k] < MaxRefreshes

\* All that is claimed of one handler.
HandlerSound(h) ==
    /\ pc[h] # "idle" => request[h] \in Request
    /\ pc[h] \in Working => info[h] \in UserInfo
    /\ Covered(info[h])
    /\ pc[h] = "release" => AnswerSound(h, verdict[h])
    /\ Answered(h, "authen") =>
           verdict[h] = AuthenRule(info[h], request[h].arg)
    /\ Answered(h, "author") /\ verdict[h] =>
           \/ info[h].isOnDuty
           \/ \E r \in RolesKey(info[h]) : request[h].arg \in granted[r]

DecisionInv ==
    /\ TypeOK
    /\ Room
    /\ CacheSound
    /\ \A u \in Users : Covered(snapshot[u])
    /\ \A h \in Handlers : HandlerSound(h)

-----------------------------------------------------------------------------
\* Equal cache keys have equal parts.
LEMMA PairsEqual ==
    ASSUME NEW a, NEW b, NEW c, NEW d, <<a, b>> = <<c, d>>
    PROVE  a = c /\ b = d
    OBVIOUS

\* What a request of either kind consists of.
LEMMA RequestFacts ==
    ASSUME NEW q \in Request
    PROVE  /\ q.kind \in Kinds
           /\ q.kind \in {"authen", "author"}
           /\ q.user \in Users
           /\ q.kind = "authen" => q.arg \in Passwords
           /\ q.kind = "author" => q.arg \in Cmds
    BY DEF Request

\* getTacacsUserInfo finds a well-typed entry or none.
LEMMA SnapshotEntry ==
    ASSUME TypeOK, NEW u \in Users
    PROVE  snapshot[u] \in UserInfo \cup {NoUser}
    BY DecisionAssumption DEF TypeOK, EmptySnapshot, Snapshot

\* The key of a working handler is one of the keys of its cache.
LEMMA KeyFacts ==
    ASSUME TypeOK, HandlersKnow, NEW h \in Handlers, pc[h] \in Working
    PROVE  /\ Kind(h) \in Kinds
           /\ Kind(h) \in {"authen", "author"}
           /\ Key(h) \in Keys[Kind(h)]
           /\ Kind(h) = "authen" => /\ request[h].arg \in Passwords
                                    /\ info[h].password \in Hashes
                                    /\ Key(h) = <<request[h].arg,
                                                  info[h].password>>
           /\ Kind(h) = "author" => /\ request[h].arg \in Cmds
                                    /\ RolesKey(info[h]) \in SUBSET Roles
                                    /\ Key(h) = <<request[h].arg,
                                                  RolesKey(info[h])>>
<1>1. request[h] \in Request /\ info[h] \in UserInfo
    BY DEF HandlersKnow, Working
<1>2. info[h].password \in Hashes
    BY <1>1 DEF UserInfo
<1>3. RolesKey(info[h]) \in SUBSET Roles
    BY DEF RolesKey
<1>4. /\ Kind(h) \in Kinds /\ Kind(h) \in {"authen", "author"}
      /\ Kind(h) = "authen" => request[h].arg \in Passwords
      /\ Kind(h) = "author" => request[h].arg \in Cmds
    BY <1>1, RequestFacts DEF Kind
<1>5. CASE Kind(h) = "authen"
    BY <1>2, <1>4, <1>5 DEF Key, Keys
<1>6. CASE Kind(h) = "author"
    BY <1>3, <1>4, <1>6 DEF Key, Keys
<1> QED
    BY <1>2, <1>3, <1>4, <1>5, <1>6

\* What a handler computes itself is a sound answer to its key.
LEMMA ComputedSound ==
    ASSUME TypeOK, HandlersKnow, EntriesCovered,
           NEW h \in Handlers, pc[h] \in Working
    PROVE  Computed(h) \in BOOLEAN /\ AnswerSound(h, Computed(h))
<1>1. info[h] \in UserInfo /\ info[h] # NoUser
    BY SentinelAssumption DEF HandlersKnow
<1>2. \A r \in RolesKey(info[h]) : info[h].role[r] \subseteq granted[r]
    BY <1>1 DEF EntriesCovered, Covered
<1>3. CASE Kind(h) = "authen"
    BY <1>3 DEF Computed, AnswerSound, PasswordSound, CheckPasswordHash
<1>4. CASE Kind(h) = "author"
    BY <1>2, <1>4 DEF Computed, AnswerSound, CommandSound, SomeRoleMatches
<1> QED
    BY <1>3, <1>4, KeyFacts

\* What a handler finds in a cache map is a sound answer to its key.
LEMMA CachedSound ==
    ASSUME TypeOK, HandlersKnow, CacheSound, NEW h \in Handlers,
           pc[h] \in Working, Cached(h) # Miss
    PROVE  Cached(h) \in BOOLEAN /\ AnswerSound(h, Cached(h))
<1>1. loaded[h] \in Gens
    BY DEF TypeOK
<1>2. Cached(h) \in Entry
    <2>1. Kind(h) \in Kinds /\ Key(h) \in Keys[Kind(h)]
        BY KeyFacts
    <2>2. cache[Kind(h)] \in [Gens -> [Keys[Kind(h)] -> Entry]]
        BY <2>1 DEF TypeOK
    <2>3. cache[Kind(h)][loaded[h]] \in [Keys[Kind(h)] -> Entry]
        BY <1>1, <2>2
    <2> QED
        BY <2>1, <2>3 DEF Cached
<1>3. ASSUME Kind(h) = "authen" PROVE AnswerSound(h, Cached(h))
    <2>1. /\ request[h].arg \in Passwords /\ info[h].password \in Hashes
          /\ "authen" \in Kinds
          /\ Cached(h) = cache["authen"][loaded[h]]
                                        [<<request[h].arg, info[h].password>>]
        BY <1>3, KeyFacts DEF Cached
    <2> QED
        BY <1>1, <1>3, <2>1 DEF CacheSound, AnswerSound
<1>4. ASSUME Kind(h) = "author" PROVE AnswerSound(h, Cached(h))
    <2>1. /\ request[h].arg \in Cmds /\ RolesKey(info[h]) \in SUBSET Roles
          /\ "author" \in Kinds
          /\ Cached(h) = cache["author"][loaded[h]]
                                        [<<request[h].arg, RolesKey(info[h])>>]
        BY <1>4, KeyFacts DEF Cached
    <2> QED
        BY <1>1, <1>4, <2>1 DEF CacheSound, AnswerSound
<1> QED
    BY <1>2, <1>3, <1>4, KeyFacts DEF Entry

\* From a sound answer the handler gets the verdict its rule owes.
LEMMA RuleSound ==
    ASSUME TypeOK, HandlersKnow, NEW h \in Handlers, pc[h] \in Working,
           NEW answer \in BOOLEAN, AnswerSound(h, answer)
    PROVE  /\ Rule(h, answer) \in BOOLEAN
           /\ Kind(h) = "authen" =>
                  Rule(h, answer) = AuthenRule(info[h], request[h].arg)
           /\ Kind(h) = "author" /\ Rule(h, answer) =>
                  \E r \in RolesKey(info[h]) : request[h].arg \in granted[r]
<1>1. info[h] \in UserInfo /\ info[h] # NoUser
    BY SentinelAssumption DEF HandlersKnow
<1>2. info[h].isOnDuty \in BOOLEAN
    BY <1>1 DEF UserInfo
<1>3. CASE Kind(h) = "authen"
    <2>1. answer = CheckPasswordHash(request[h].arg, info[h].password)
        BY <1>3 DEF AnswerSound, PasswordSound
    <2>2. Rule(h, answer) = (answer /\ (info[h].isOnDuty
                                        \/ RolesKey(info[h]) # {}))
        BY <1>3 DEF Rule
    <2> QED
        BY <1>1, <1>2, <1>3, <2>1, <2>2, Zenon DEF AuthenRule
<1>4. CASE Kind(h) = "author"
    BY <1>4 DEF Rule, AnswerSound, CommandSound
<1> QED
    BY <1>3, <1>4, KeyFacts

-----------------------------------------------------------------------------
\* Roles grant commands.
LEMMA GrantedByType == \A s : \A r \in Roles : GrantedBy(s, r) \subseteq Cmds
    BY DEF GrantedBy

\* A client that starts has well-typed state.
LEMMA InitType == Init => TypeOK
<1> SUFFICES ASSUME Init PROVE TypeOK
    OBVIOUS
<1> USE DecisionAssumption DEF Init
<1>1. 0 \in Gens
    BY DEF Gens
<1>2. \A k \in Kinds : /\ cache[k] \in [Gens -> [Keys[k] -> Entry]]
                       /\ flight[k] \in [Keys[k] -> Handlers \cup {NoHandler}]
    BY DEF Entry
<1>3. granted \in [Roles -> SUBSET Cmds]
    BY GrantedByType
<1>4. latest \in [Kinds -> Gens] /\ loaded \in [Handlers -> Gens]
    BY <1>1
<1> QED
    BY <1>2, <1>3, <1>4 DEF TypeOK

\* Every step of a handler or of the refresh keeps the types.
LEMMA NextType ==
    ASSUME TypeOK, Room, HandlersKnow, EntriesCovered, CacheSound,
           [Next]_vars
    PROVE  TypeOK' /\ Room'
<1> USE DecisionAssumption
<1>k. ASSUME NEW h \in Handlers, pc[h] \in Working
      PROVE  Kind(h) \in Kinds /\ Key(h) \in Keys[Kind(h)]
    BY <1>k, KeyFacts
<1>p. \A h \in Handlers :
          \A p \in {"idle", "lookup", "load", "get", "join", "wait", "reload",
                   "compute", "release", "done"} :
              [pc EXCEPT ![h] = p] \in
                  [Handlers -> {"idle", "lookup", "load", "get", "join", "wait",
                                "reload", "compute", "release", "done"}]
    BY DEF TypeOK
<1>f. \A h \in Handlers : [loaded EXCEPT ![h] = 0] \in [Handlers -> Gens]
    BY DEF TypeOK, Gens
<1> USE DEF publisherVars, handlerVars
<1>1. ASSUME NEW h \in Handlers, NEW q \in Request, Begin(h, q) PROVE TypeOK'
    <2>1. quiet' \in [Handlers -> BOOLEAN]
        BY <1>1 DEF Begin, TypeOK
    <2> QED
        BY <1>1, <1>p, <2>1 DEF Begin, GoTo, TypeOK
<1>u. ASSUME NEW h \in Handlers, pc[h] = "lookup"
      PROVE  snapshot[request[h].user] \in UserInfo \cup {NoUser}
    BY <1>u, SnapshotEntry, RequestFacts DEF HandlersKnow
<1>2. ASSUME NEW h \in Handlers, Settle(h) PROVE TypeOK'
    <2> DEFINE found == snapshot[request[h].user]
    <2>1. found \in UserInfo \cup {NoUser}
        BY <1>2, <1>u DEF Settle
    <2>2. (found # NoUser /\ found.isOnDuty) \in BOOLEAN
        OBVIOUS
    <2>3. pc' = [pc EXCEPT ![h] = "done"] /\ info' = [info EXCEPT ![h] = found]
          /\ verdict' = [verdict EXCEPT ![h] = found # NoUser /\ found.isOnDuty]
          /\ UNCHANGED <<publisherVars, cache, flight, request, loaded, quiet>>
        BY <1>2 DEF Settle, Answer, GoTo
    <2>4. verdict' \in [Handlers -> BOOLEAN]
        BY <2>2, <2>3 DEF TypeOK
    <2>5. info' \in [Handlers -> UserInfo \cup {NoUser}]
        BY <2>1, <2>3 DEF TypeOK
    <2> QED
        BY <1>p, <2>3, <2>4, <2>5 DEF TypeOK
<1>3. ASSUME NEW h \in Handlers, Consult(h) PROVE TypeOK'
    <2>1. info' \in [Handlers -> UserInfo \cup {NoUser}]
        BY <1>3, <1>u DEF Consult, TypeOK
    <2> QED
        BY <1>3, <1>p, <2>1 DEF Consult, GoTo, TypeOK
<1>4. ASSUME NEW h \in Handlers, LoadCache(h) \/ ReloadCache(h) PROVE TypeOK'
    <2>1. Kind(h) \in Kinds
        BY <1>4, <1>k DEF LoadCache, ReloadCache, Working
    <2>2. loaded' \in [Handlers -> Gens]
        BY <1>4, <2>1 DEF LoadCache, ReloadCache, TypeOK
    <2> QED
        BY <1>4, <1>p, <2>2 DEF LoadCache, ReloadCache, GoTo, TypeOK
<1>5. ASSUME NEW h \in Handlers, CacheHit(h) PROVE TypeOK'
    <2>1. Rule(h, Cached(h)) \in BOOLEAN
        BY <1>5, CachedSound, RuleSound DEF CacheHit, Working
    <2>2. verdict' \in [Handlers -> BOOLEAN]
        BY <1>5, <2>1 DEF CacheHit, Answer, TypeOK
    <2> QED
        BY <1>5, <1>p, <1>f, <2>2 DEF CacheHit, Answer, Forget, GoTo, TypeOK
<1>6. ASSUME NEW h \in Handlers, CacheMiss(h) PROVE TypeOK'
    BY <1>6, <1>p, <1>f DEF CacheMiss, Forget, GoTo, TypeOK
<1>w. ASSUME NEW h \in Handlers, Wait(h) PROVE TypeOK'
    BY <1>w, <1>p DEF Wait, GoTo, TypeOK
<1>7. ASSUME NEW h \in Handlers, Lead(h) PROVE TypeOK'
    <2>1. Kind(h) \in Kinds /\ Key(h) \in Keys[Kind(h)]
        BY <1>7, <1>k DEF Lead, Working
    <2>2. DOMAIN flight' = Kinds /\ \A k \in Kinds :
              flight'[k] \in [Keys[k] -> Handlers \cup {NoHandler}]
        BY <1>7, <2>1 DEF Lead, TypeOK
    <2> QED
        BY <1>7, <1>p, <2>2 DEF Lead, GoTo, TypeOK
<1>8. ASSUME NEW h \in Handlers, Compute(h) PROVE TypeOK'
    <2> DEFINE answer == IF Cached(h) = Miss THEN Computed(h) ELSE Cached(h)
    <2>1. pc[h] \in Working /\ Kind(h) \in Kinds /\ Key(h) \in Keys[Kind(h)]
        BY <1>8, <1>k DEF Compute, Working
    <2>2. answer \in BOOLEAN
        BY <2>1, CachedSound, ComputedSound
    <2>3. cache' = [cache EXCEPT ![Kind(h)][loaded[h]][Key(h)] = answer]
          /\ verdict' = [verdict EXCEPT ![h] = answer]
        BY <1>8 DEF Compute
    <2> HIDE DEF answer
    <2>4. verdict' \in [Handlers -> BOOLEAN]
        BY <2>2, <2>3 DEF TypeOK
    <2>5. loaded[h] \in Gens /\ answer \in Entry
        BY <2>2 DEF TypeOK, Entry
    <2>6. DOMAIN cache' = Kinds /\ \A k \in Kinds :
              cache'[k] \in [Gens -> [Keys[k] -> Entry]]
        BY <2>1, <2>3, <2>5 DEF TypeOK
    <2> QED
        BY <1>8, <1>p, <1>f, <2>4, <2>6 DEF Compute, Forget, GoTo, TypeOK
<1>9. ASSUME NEW h \in Handlers, Release(h) PROVE TypeOK'
    <2>1. Kind(h) \in Kinds /\ Key(h) \in Keys[Kind(h)]
        BY <1>9, <1>k DEF Release, Working
    <2>2. DOMAIN flight' = Kinds /\ \A k \in Kinds :
              flight'[k] \in [Keys[k] -> Handlers \cup {NoHandler}]
        BY <1>9, <2>1 DEF Release, TypeOK
    <2>3. \A f \in Handlers : Rule(f, verdict[h]) \in BOOLEAN
        BY DEF Rule, TypeOK
    <2>4. verdict' \in [Handlers -> BOOLEAN]
        BY <1>9, <2>3 DEF Release, TypeOK
    <2> QED
        BY <1>9, <2>2, <2>4 DEF Release, TypeOK
<1>10. ASSUME NEW h \in Handlers, Reply(h) PROVE TypeOK'
    BY <1>10, <1>p DEF Reply, GoTo, TypeOK
<1>11. ASSUME NEW s \in Published, StoreUsers(s) PROVE TypeOK'
    <2>1. granted' \in [Roles -> SUBSET Cmds]
        BY <1>11, GrantedByType DEF StoreUsers, TypeOK
    <2> QED
        BY <1>11, <2>1 DEF StoreUsers, TypeOK
<1>12. ASSUME StorePasswordCache PROVE TypeOK' /\ Room'
    <2>1. \A k \in Kinds : latest[k] \in Nat /\ latest[k] < MaxRefreshes
        BY <1>12 DEF StorePasswordCache, Room, TypeOK, Gens
    <2>2. latest' \in [Kinds -> Gens]
        BY <1>12, <2>1 DEF StorePasswordCache, NewMap, TypeOK, Gens
    <2>3. Room'
        BY <1>12, <2>1 DEF StorePasswordCache, NewMap, Room
    <2> QED
        BY <1>12, <2>2, <2>3 DEF StorePasswordCache, TypeOK
<1>13. ASSUME StoreCommandCache PROVE TypeOK' /\ Room'
    <2>1. \A k \in Kinds : latest[k] \in Nat
                          /\ (k = "author" => latest[k] < MaxRefreshes)
        BY <1>13 DEF StoreCommandCache, Room, TypeOK, Gens
    <2>2. latest' \in [Kinds -> Gens]
        BY <1>13, <2>1 DEF StoreCommandCache, NewMap, TypeOK, Gens
    <2>3. tainted' \in BOOLEAN
        BY <1>13 DEF StoreCommandCache
    <2> QED
        BY <1>13, <2>2, <2>3 DEF StoreCommandCache, TypeOK, Room
<1>14. ASSUME UNCHANGED vars PROVE TypeOK'
    BY <1>14 DEF vars, TypeOK
<1>15. UNCHANGED publisherVars => Room'
    BY DEF Room
<1>16. ASSUME NEW s \in Published, StoreUsers(s) PROVE Room'
    BY <1>16 DEF StoreUsers, Room
<1>17. ASSUME NEW h \in Handlers, Serve(h) PROVE UNCHANGED publisherVars
    BY <1>17 DEF Serve, Settle, Consult, LoadCache, CacheHit, CacheMiss, Wait,
                 Lead, ReloadCache, Compute, Release, Reply
<1>18. ASSUME NEW h \in Handlers, Serve(h) PROVE TypeOK'
    BY <1>18, <1>2, <1>3, <1>4, <1>5, <1>6, <1>w, <1>7, <1>8, <1>9, <1>10
       DEF Serve
<1>19. ASSUME NEW h \in Handlers, NEW q \in Request, Begin(h, q)
       PROVE  UNCHANGED publisherVars
    BY <1>19 DEF Begin
<1>20. CASE \E h \in Handlers : Serve(h) \/ \E q \in Request : Begin(h, q)
    BY <1>20, <1>1, <1>15, <1>17, <1>18, <1>19
<1>21. CASE Refresh
    BY <1>21, <1>11, <1>12, <1>13, <1>16 DEF Refresh
<1>22. CASE UNCHANGED vars
    BY <1>22, <1>14, <1>15 DEF vars
<1> QED
    BY <1>20, <1>21, <1>22 DEF Next

-----------------------------------------------------------------------------
\* The strengthened invariant contains what the lemmas above assume.
LEMMA Parts == DecisionInv => HandlersKnow /\ EntriesCovered
    BY DEF DecisionInv, HandlerSound, HandlersKnow, EntriesCovered

\* A client that starts has empty caches and idle handlers.
LEMMA InitSound == Init => DecisionInv
<1> SUFFICES ASSUME Init PROVE DecisionInv
    OBVIOUS
<1>t. TypeOK
    BY InitType
<1>1. \A u \in Users : Covered(snapshot[u])
    <2>1. SUFFICES ASSUME NEW u \in Users, snapshot[u] # NoUser,
                          NEW r \in RolesKey(snapshot[u]),
                          NEW c \in snapshot[u].role[r]
                   PROVE  c \in granted[r]
        BY DEF Covered
    <2>2. snapshot[u] \in UserInfo
        BY <1>t, <2>1, SnapshotEntry
    <2>3. r \in Roles /\ snapshot[u].role[r] \in SUBSET Cmds
        BY <2>2 DEF RolesKey, UserInfo, RoleInfo
    <2> QED
        BY <2>1, <2>3 DEF Init, GrantedBy
<1>2. CacheSound
    <2>1. \A k \in Kinds : \A g \in Gens : \A key \in Keys[k] :
              cache[k][g][key] = Miss
        BY DEF Init
    <2>2. Miss # TRUE
        BY DecisionAssumption
    <2> QED
        BY <2>1, <2>2 DEF CacheSound, CommandSound, Keys
<1>3. \A h \in Handlers : HandlerSound(h)
    BY DEF Init, HandlerSound, Working, Covered, Answered
<1>4. Room
    BY DEF Init, Room
<1> QED
    BY <1>t, <1>1, <1>2, <1>3, <1>4 DEF DecisionInv

\* Every step of a handler or of the refresh keeps the invariant.
LEMMA NextSound ==
    ASSUME DecisionInv, [Next]_vars
    PROVE  DecisionInv'
<1>i. TypeOK /\ Room /\ CacheSound /\ HandlersKnow /\ EntriesCovered
      /\ \A h \in Handlers : HandlerSound(h)
    BY Parts DEF DecisionInv
<1>t. TypeOK' /\ Room'
    BY <1>i, NextType
<1> USE DEF publisherVars, handlerVars
\* A step of h disturbs nothing that is claimed of the other handlers.
<1>1. ASSUME NEW h \in Handlers,
             UNCHANGED publisherVars,
             CacheSound',
             \A f \in Handlers \ {h} : /\ pc'[f] = pc[f]
                                       /\ request'[f] = request[f]
                                       /\ info'[f] = info[f]
                                       /\ verdict'[f] = verdict[f],
             HandlerSound(h)'
      PROVE  DecisionInv'
    <2>1. ASSUME NEW f \in Handlers \ {h} PROVE HandlerSound(f)'
        <3>1. HandlerSound(f) /\ granted' = granted
            BY <1>i, <1>1
        <3> QED
            BY <1>1, <3>1
               DEF HandlerSound, Covered, AnswerSound, CommandSound, Answered, Kind
    <2>2. (\A u \in Users : Covered(snapshot[u]))'
        BY <1>1, <1>i DEF EntriesCovered, Covered
    <2> QED
        BY <1>1, <1>t, <2>1, <2>2 DEF DecisionInv
\* ... and one that leaves the caches alone keeps them sound.
<1>2. UNCHANGED <<cache, granted>> => CacheSound'
    BY <1>i DEF CacheSound, CommandSound
<1>c. \A h \in Handlers : Covered(info[h])
    BY <1>i DEF EntriesCovered
<1>3. ASSUME NEW h \in Handlers, NEW q \in Request, Begin(h, q)
      PROVE  DecisionInv'
    <2>1. pc' = [pc EXCEPT ![h] = "lookup"] /\ request' = [request EXCEPT ![h] = q]
          /\ UNCHANGED <<publisherVars, cache, flight, info, loaded, verdict>>
        BY <1>3 DEF Begin, GoTo
    <2>2. pc'[h] = "lookup" /\ request'[h] = q
        BY <1>i, <2>1 DEF TypeOK
    <2>3. HandlerSound(h)'
        BY <2>1, <2>2, <1>c DEF HandlerSound, Working, Covered, Answered
    <2> QED
        BY <1>1, <1>2, <1>i, <2>1, <2>3 DEF TypeOK
\* An answer of the rule is all that is claimed of a handler that is done.
<1>r. ASSUME NEW h \in Handlers, pc'[h] = "done",
             UNCHANGED <<granted, request>>,
             request[h] \in Request,
             Covered(info'[h]),
             Kind(h) = "authen" =>
                 verdict'[h] = AuthenRule(info'[h], request[h].arg),
             Kind(h) = "author" /\ verdict'[h] =>
                 \/ info'[h].isOnDuty
                 \/ \E r \in RolesKey(info'[h]) : request[h].arg \in granted[r]
      PROVE  HandlerSound(h)'
    BY <1>r DEF HandlerSound, Working, Covered, Answered, Kind
<1>q. ASSUME NEW h \in Handlers, pc[h] # "idle"
      PROVE  request[h] \in Request /\ Kind(h) \in {"authen", "author"}
    BY <1>q, <1>i, RequestFacts DEF HandlersKnow, Kind
<1>4. ASSUME NEW h \in Handlers, Settle(h) PROVE DecisionInv'
    <2> DEFINE found == snapshot[request[h].user]
    <2>1. pc[h] = "lookup"
          /\ pc' = [pc EXCEPT ![h] = "done"] /\ info' = [info EXCEPT ![h] = found]
          /\ verdict' = [verdict EXCEPT ![h] = found # NoUser /\ found.isOnDuty]
          /\ UNCHANGED <<publisherVars, cache, flight, request, loaded, quiet>>
          /\ (found = NoUser \/ Kind(h) = "author")
        BY <1>4 DEF Settle, Answer, GoTo
    <2>2. pc'[h] = "done" /\ info'[h] = found
          /\ verdict'[h] = (found # NoUser /\ found.isOnDuty)
        BY <1>i, <2>1 DEF TypeOK
    <2>3. request[h] \in Request
        BY <2>1, <1>q
    <2>4. Covered(found)
        BY <2>3, <1>i, RequestFacts DEF EntriesCovered
    <2>5. Kind(h) = "authen" =>
              verdict'[h] = AuthenRule(info'[h], request[h].arg)
        <3>1. SUFFICES ASSUME found = NoUser
                       PROVE  verdict'[h] = AuthenRule(info'[h], request[h].arg)
            BY <2>1
        <3>2. verdict'[h] = FALSE
            BY <2>2, <3>1
        <3>3. AuthenRule(info'[h], request[h].arg) = FALSE
            BY <2>2, <3>1 DEF AuthenRule
        <3> QED
            BY <3>2, <3>3
    <2>6. HandlerSound(h)'
        BY <1>r, <2>1, <2>2, <2>3, <2>4, <2>5
    <2> QED
        BY <1>1, <1>2, <1>i, <2>1, <2>6 DEF TypeOK
<1>5. ASSUME NEW h \in Handlers, Consult(h) PROVE DecisionInv'
    <2> DEFINE found == snapshot[request[h].user]
    <2>1. pc[h] = "lookup" /\ found # NoUser
          /\ pc' = [pc EXCEPT ![h] = "load"] /\ info' = [info EXCEPT ![h] = found]
          /\ UNCHANGED <<publisherVars, cache, flight, request, loaded, verdict>>
        BY <1>5 DEF Consult, GoTo
    <2>2. pc'[h] = "load" /\ info'[h] = found
        BY <1>i, <2>1 DEF TypeOK
    <2>3. request[h] \in Request
        BY <2>1, <1>q
    <2>4. Covered(found) /\ found \in UserInfo
        BY <2>1, <2>3, <1>i, RequestFacts, SnapshotEntry DEF EntriesCovered
    <2>5. HandlerSound(h)'
        BY <2>1, <2>2, <2>3, <2>4 DEF HandlerSound, Covered, Answered
    <2> QED
        BY <1>1, <1>2, <1>i, <2>1, <2>5 DEF TypeOK
\* Steps that only move h from one working place to another.
<1>6. ASSUME NEW h \in Handlers, NEW p \in Working \ {"release"},
             pc[h] \in Working, pc' = [pc EXCEPT ![h] = p],
             UNCHANGED <<publisherVars, cache, request, info, verdict>>
      PROVE  DecisionInv'
    <2>1. pc'[h] = p /\ p \notin {"idle", "done", "release"} /\ pc[h] # "idle"
        BY <1>i, <1>6 DEF TypeOK, Working
    <2>2. HandlerSound(h)'
        BY <1>6, <1>i, <2>1 DEF HandlerSound, Covered, Answered
    <2> QED
        BY <1>1, <1>2, <1>i, <1>6, <2>2 DEF TypeOK
<1>7. ASSUME NEW h \in Handlers,
             LoadCache(h) \/ CacheMiss(h) \/ Wait(h) \/ Lead(h) \/ ReloadCache(h)
      PROVE  DecisionInv'
    BY <1>6, <1>7
       DEF LoadCache, CacheMiss, Wait, Lead, ReloadCache, GoTo, Working
<1>8. ASSUME NEW h \in Handlers, CacheHit(h) PROVE DecisionInv'
    <2>1. pc[h] = "get" /\ Cached(h) # Miss
          /\ pc' = [pc EXCEPT ![h] = "done"]
          /\ verdict' = [verdict EXCEPT ![h] = Rule(h, Cached(h))]
          /\ UNCHANGED <<publisherVars, cache, flight, request, info>>
        BY <1>8 DEF CacheHit, Answer, GoTo
    <2>2. pc'[h] = "done" /\ verdict'[h] = Rule(h, Cached(h))
        BY <1>i, <2>1 DEF TypeOK
    <2>3. pc[h] \in Working /\ pc[h] # "idle"
        BY <2>1 DEF Working
    <2>4. Cached(h) \in BOOLEAN /\ AnswerSound(h, Cached(h))
        BY <1>i, <2>1, <2>3, CachedSound
    <2>5. HandlerSound(h)'
        BY <1>r, <1>q, <1>c, <1>i, <2>1, <2>2, <2>3, <2>4, RuleSound
    <2> QED
        BY <1>1, <1>2, <1>i, <2>1, <2>5 DEF TypeOK
<1>9. ASSUME NEW h \in Handlers, Compute(h) PROVE DecisionInv'
    <2> DEFINE answer == IF Cached(h) = Miss THEN Computed(h) ELSE Cached(h)
    <2>1. pc[h] = "compute"
          /\ cache' = [cache EXCEPT ![Kind(h)][loaded[h]][Key(h)] = answer]
          /\ verdict' = [verdict EXCEPT ![h] = answer]
          /\ pc' = [pc EXCEPT ![h] = "release"]
          /\ UNCHANGED <<publisherVars, flight, request, info>>
        BY <1>9 DEF Compute, GoTo
    <2>2. pc[h] \in Working
        BY <2>1 DEF Working
    <2>3. answer \in BOOLEAN /\ AnswerSound(h, answer)
        BY <1>i, <2>2, CachedSound, ComputedSound
    <2> HIDE DEF answer
    <2>4. pc'[h] = "release" /\ verdict'[h] = answer
        BY <1>i, <2>1 DEF TypeOK
    <2>5. AnswerSound(h, verdict[h])'
        BY <2>1, <2>3, <2>4 DEF AnswerSound, CommandSound, Kind
    <2>6. HandlerSound(h)'
        BY <1>i, <1>c, <2>1, <2>2, <2>4, <2>5
           DEF HandlerSound, HandlersKnow, Covered, Answered, Working
    \* The one entry that is set is sound for its own key.
    <2>7. /\ Kind(h) \in Kinds /\ Key(h) \in Keys[Kind(h)] /\ loaded[h] \in Gens
        BY <1>i, <2>2, KeyFacts DEF TypeOK
    <2>8. \A k \in Kinds : \A g \in Gens : \A key \in Keys[k] :
              cache'[k][g][key] =
                  IF k = Kind(h) /\ g = loaded[h] /\ key = Key(h)
                  THEN answer ELSE cache[k][g][key]
        BY <1>i, <2>1, <2>7 DEF TypeOK
    <2>9. ASSUME "authen" \in Kinds, NEW g \in Gens,
                 NEW p \in Passwords, NEW hash \in Hashes,
                 cache'["authen"][g][<<p, hash>>] # Miss
          PROVE  PasswordSound(cache'["authen"][g][<<p, hash>>], p, hash)
        <3>1. <<p, hash>> \in Keys["authen"]
            BY DEF Keys
        <3>2. CASE Kind(h) = "authen" /\ g = loaded[h] /\ <<p, hash>> = Key(h)
            <4>1. p = request[h].arg /\ hash = info[h].password
                BY <1>i, <2>2, <3>2, KeyFacts
            <4> QED
                BY <2>3, <2>8, <2>9, <3>1, <3>2, <4>1 DEF AnswerSound
        <3>3. CASE ~(Kind(h) = "authen" /\ g = loaded[h] /\ <<p, hash>> = Key(h))
            BY <1>i, <2>8, <2>9, <3>1, <3>3 DEF CacheSound
        <3> QED
            BY <3>2, <3>3
    <2>10. ASSUME "author" \in Kinds, NEW g \in Gens,
                  NEW c \in Cmds, NEW rs \in SUBSET Roles
           PROVE  CommandSound(cache'["author"][g][<<c, rs>>], c, rs)
        <3>1. <<c, rs>> \in Keys["author"]
            BY DEF Keys
        <3>2. CASE Kind(h) = "author" /\ g = loaded[h] /\ <<c, rs>> = Key(h)
            <4>1. c = request[h].arg /\ rs = RolesKey(info[h])
                BY <1>i, <2>2, <3>2, KeyFacts
            <4> QED
                BY <2>3, <2>8, <2>10, <3>1, <3>2, <4>1 DEF AnswerSound
        <3>3. CASE ~(Kind(h) = "author" /\ g = loaded[h] /\ <<c, rs>> = Key(h))
            BY <1>i, <2>8, <2>10, <3>1, <3>3 DEF CacheSound
        <3> QED
            BY <3>2, <3>3
    <2>11. CacheSound'
        BY <2>1, <2>9, <2>10 DEF CacheSound, CommandSound
    <2> QED
        BY <1>1, <1>i, <2>1, <2>6, <2>11 DEF TypeOK
\* A result is shared by the handlers with one key: what makes it sound for the
\* leader makes it sound for them.
<1>10. ASSUME NEW h \in Handlers, Release(h) PROVE DecisionInv'
    <2>1. pc[h] = "release"
          /\ pc' = [f \in Handlers |-> IF f \in Sharing(h) THEN "done" ELSE pc[f]]
          /\ verdict' = [f \in Handlers |-> IF f \in Sharing(h)
                                  THEN Rule(f, verdict[h]) ELSE verdict[f]]
          /\ UNCHANGED <<publisherVars, cache, request, info, loaded, quiet>>
        BY <1>10 DEF Release
    <2>2. verdict[h] \in BOOLEAN /\ AnswerSound(h, verdict[h])
        BY <1>i, <2>1 DEF HandlerSound, TypeOK
    <2>3. ASSUME NEW f \in Handlers, f \in Sharing(h) PROVE HandlerSound(f)'
        <3>1. pc[f] \in Working /\ pc[h] \in Working /\ pc[f] # "idle"
              /\ Kind(f) = Kind(h) /\ Key(f) = Key(h)
            BY <2>1, <2>3 DEF Sharing, Working
        <3>2. ASSUME Kind(f) = "authen"
              PROVE  /\ request[f].arg = request[h].arg
                     /\ info[f].password = info[h].password
            <4>1. Key(f) = <<request[f].arg, info[f].password>>
                BY <3>2 DEF Key
            <4>2. Key(h) = <<request[h].arg, info[h].password>>
                BY <3>1, <3>2 DEF Key
            <4>3. <<request[f].arg, info[f].password>>
                      = <<request[h].arg, info[h].password>>
                BY <3>1, <4>1, <4>2
            <4> QED
                BY <4>3, PairsEqual
        <3>3. ASSUME Kind(f) = "author"
              PROVE  /\ request[f].arg = request[h].arg
                     /\ RolesKey(info[f]) = RolesKey(info[h])
            <4>1. Key(f) = <<request[f].arg, RolesKey(info[f])>>
                BY <3>3 DEF Key
            <4>2. Key(h) = <<request[h].arg, RolesKey(info[h])>>
                BY <3>1, <3>3 DEF Key
            <4>3. <<request[f].arg, RolesKey(info[f])>>
                      = <<request[h].arg, RolesKey(info[h])>>
                BY <3>1, <4>1, <4>2
            <4> QED
                BY <4>3, PairsEqual
        <3>4. AnswerSound(f, verdict[h])
            BY <2>2, <3>1, <3>2, <3>3 DEF AnswerSound
        <3>5. pc'[f] = "done" /\ verdict'[f] = Rule(f, verdict[h])
            BY <2>1, <2>3
        <3> QED
            BY <1>r, <1>q, <1>c, <1>i, <2>1, <2>2, <3>1, <3>4, <3>5, RuleSound
    <2>4. ASSUME NEW f \in Handlers, f \notin Sharing(h) PROVE HandlerSound(f)'
        <3>1. pc'[f] = pc[f] /\ verdict'[f] = verdict[f] /\ HandlerSound(f)
            BY <1>i, <2>1, <2>4
        <3> QED
            BY <2>1, <3>1
               DEF HandlerSound, Covered, AnswerSound, CommandSound, Answered, Kind
    <2>5. (\A u \in Users : Covered(snapshot[u]))'
        BY <1>i, <2>1 DEF EntriesCovered, Covered
    <2> QED
        BY <1>2, <1>t, <2>1, <2>3, <2>4, <2>5 DEF DecisionInv
<1>11. ASSUME NEW h \in Handlers, Reply(h) PROVE DecisionInv'
    <2>1. pc' = [pc EXCEPT ![h] = "idle"]
          /\ request' = [request EXCEPT ![h] = NoRequest]
          /\ info' = [info EXCEPT ![h] = NoUser]
          /\ verdict' = [verdict EXCEPT ![h] = FALSE]
          /\ UNCHANGED <<publisherVars, cache>>
        BY <1>11 DEF Reply, GoTo
    <2>2. pc'[h] = "idle" /\ info'[h] = NoUser
        BY <1>i, <2>1 DEF TypeOK
    <2>3. HandlerSound(h)'
        BY <2>2 DEF HandlerSound, Working, Covered, Answered
    <2> QED
        BY <1>1, <1>2, <1>i, <2>1, <2>3 DEF TypeOK
\* Publishing a snapshot can only widen what was ever granted.
<1>12. ASSUME NEW s \in Published, StoreUsers(s) PROVE DecisionInv'
    <2>1. snapshot' = s
          /\ granted' = [r \in Roles |-> granted[r] \cup GrantedBy(s, r)]
          /\ UNCHANGED <<cache, pc, request, info, verdict>>
        BY <1>12 DEF StoreUsers
    <2>2. \A r \in Roles : granted[r] \subseteq granted'[r]
                          /\ GrantedBy(s, r) \subseteq granted'[r]
        BY <2>1
    <2>3. CacheSound'
        <3>1. ASSUME NEW a, NEW c, NEW rs \in SUBSET Roles, CommandSound(a, c, rs)
              PROVE  CommandSound(a, c, rs)'
            BY <2>2, <3>1 DEF CommandSound
        <3> QED
            BY <1>i, <2>1, <3>1 DEF CacheSound
    <2>4. ASSUME NEW f \in Handlers PROVE HandlerSound(f)'
        <3>1. HandlerSound(f) /\ RolesKey(info[f]) \subseteq Roles
            BY <1>i DEF RolesKey
        <3>2. Covered(info[f])'
            BY <2>1, <2>2, <3>1 DEF HandlerSound, Covered
        <3>3. AnswerSound(f, verdict[f]) => AnswerSound(f, verdict[f])'
            BY <2>1, <2>2, <3>1 DEF AnswerSound, CommandSound, Kind
        <3>4. Answered(f, "author")' /\ verdict'[f] =>
                  \/ info'[f].isOnDuty
                  \/ \E r \in RolesKey(info'[f]) : request'[f].arg \in granted'[r]
            BY <2>1, <2>2, <3>1 DEF HandlerSound, Answered, Kind
        <3> QED
            BY <2>1, <3>1, <3>2, <3>3, <3>4 DEF HandlerSound, Answered, Kind
    <2>5. ASSUME NEW u \in Users PROVE Covered(s[u])'
        <3>1. SUFFICES ASSUME s[u] # NoUser, NEW r \in RolesKey(s[u]),
                              NEW c \in s[u].role[r]
                       PROVE  c \in granted'[r]
            BY DEF Covered
        <3>2. s \in Snapshot
            BY DecisionAssumption
        <3>3. s[u] \in UserInfo
            BY <3>1, <3>2 DEF Snapshot
        <3>4. r \in Roles /\ s[u].role[r] \in SUBSET Cmds
            BY <3>1, <3>3 DEF RolesKey, UserInfo, RoleInfo
        <3> QED
            BY <2>2, <3>1, <3>4 DEF GrantedBy
    <2> QED
        BY <1>t, <2>1, <2>3, <2>4, <2>5 DEF DecisionInv
<1>13. ASSUME UNCHANGED <<snapshot, granted, cache, handlerVars>>
       PROVE  DecisionInv'
    <2>1. \A f \in Handlers : HandlerSound(f)'
        BY <1>13, <1>i
           DEF HandlerSound, Covered, AnswerSound, CommandSound, Answered, Kind
    <2>2. (\A u \in Users : Covered(snapshot[u]))'
        BY <1>13, <1>i DEF EntriesCovered, Covered
    <2> QED
        BY <1>2, <1>13, <1>t, <2>1, <2>2 DEF DecisionInv
<1>14. CASE StorePasswordCache \/ StoreCommandCache
    BY <1>13, <1>14 DEF StorePasswordCache, StoreCommandCache
<1>15. CASE UNCHANGED vars
    BY <1>13, <1>15 DEF vars
<1>16. ASSUME NEW h \in Handlers, Serve(h) PROVE DecisionInv'
    BY <1>16, <1>4, <1>5, <1>7, <1>8, <1>9, <1>10, <1>11 DEF Serve
<1> QED
    BY <1>3, <1>12, <1>14, <1>15, <1>16 DEF Next, Refresh

\* Every variable keeps its type, generations stay within their bound.
THEOREM TypeCorrect == Spec => []TypeOK
<1>1. DecisionInv /\ [Next]_vars => DecisionInv'
    BY NextSound
<1>2. DecisionInv => TypeOK
    BY DEF DecisionInv
<1> QED
    BY InitSound, <1>1, <1>2, PTL DEF Spec

\* Logins are answered exactly: neither a cache of another refresh nor another
\* goroutine's computation can change the answer.
THEOREM LoginsAreExact == Spec => []AuthenExact
<1>1. DecisionInv /\ [Next]_vars => DecisionInv'
    BY NextSound
<1>2. DecisionInv => AuthenExact
    BY DEF DecisionInv, HandlerSound, AuthenExact
<1> QED
    BY InitSound, <1>1, <1>2, PTL DEF Spec

\* No race gives a command to an account none of whose roles ever permitted it.
THEOREM PermitsWereGranted == Spec => []PermitWasGranted
<1>1. DecisionInv /\ [Next]_vars => DecisionInv'
    BY NextSound
<1>2. DecisionInv => PermitWasGranted
    BY DEF DecisionInv, HandlerSound, PermitWasGranted
<1> QED
    BY InitSound, <1>1, <1>2, PTL DEF Spec

-----------------------------------------------------------------------------
(* Exact answers to commands *)

\* Maps of the command cache that are not stored yet are empty.
UnusedMaps ==
    "author" \in Kinds => \A g \in Gens : g > latest["author"] =>
        \A key \in Keys["author"] : cache["author"][g][key] = Miss

\* A handler that holds a map loaded it from the pointer, and a handler that
\* checks roles found an account off duty.  None is quiet during a refresh.
HandlerPlaced(h) ==
    /\ pc[h] \in {"get", "compute"} /\ Kind(h) = "author" => loaded[h] <= latest["author"]
    /\ pc[h] \in Working /\ Kind(h) = "author" => ~info[h].isOnDuty
    /\ quiet[h] => publishing = "idle"

\* The last refresh has finished and no straggler outlived it.
Fresh == publishing = "idle" /\ ~tainted

\* Only handlers that will not touch a computation may have an old entry or map:
\* those that wait, and those that look into the map they loaded.
HandlerFresh(h) ==
    pc[h] # "idle" /\ Kind(h) = "author" =>
        /\ pc[h] \in {"load", "get", "join", "reload", "compute", "release"} =>
               info[h] = snapshot[request[h].user]
        /\ pc[h] = "wait" /\ quiet[h] => info[h] = snapshot[request[h].user]
        /\ pc[h] = "get" /\ quiet[h] => loaded[h] = latest["author"]
        /\ pc[h] = "compute" => loaded[h] = latest["author"]
        /\ pc[h] = "release" => verdict[h] = SomeRoleMatches(request[h].arg, info[h])
        /\ pc[h] = "done" /\ quiet[h] => verdict[h] = AuthorRule(info[h], request[h].arg)

ExactInv ==
    /\ UnusedMaps /\ CommandCacheAgrees
    /\ \A h \in Handlers : HandlerPlaced(h)
    /\ Fresh => \A h \in Handlers : HandlerFresh(h)

\* A snapshot gives the same answers to accounts that hold the same roles: the
\* roles are read once (Coherent).
LEMMA SameRolesSameAnswers ==
    ASSUME TypeOK, NEW u \in Users, NEW v \in Users,
           snapshot[u] # NoUser, snapshot[v] # NoUser,
           RolesKey(snapshot[u]) = RolesKey(snapshot[v]), NEW c
    PROVE  SomeRoleMatches(c, snapshot[u]) = SomeRoleMatches(c, snapshot[v])
<1>1. Coherent(snapshot)
    <2>1. CASE snapshot \in Published
        BY <2>1, DecisionAssumption
    <2>2. CASE snapshot = EmptySnapshot
        BY <2>2 DEF EmptySnapshot
    <2> QED
        BY <2>1, <2>2 DEF TypeOK
<1>2. PICK ri \in RoleInfo : \A w \in Users : snapshot[w] # NoUser =>
          \A r \in Roles : snapshot[w].role[r] \in {NoRole, ri[r]}
    BY <1>1 DEF Coherent
<1>3. \A r \in RolesKey(snapshot[u]) : snapshot[u].role[r] = snapshot[v].role[r]
    BY <1>2 DEF RolesKey
<1> QED
    BY <1>3 DEF SomeRoleMatches

\* What a handler with a current entry and map finds.
LEMMA FreshEntry ==
    ASSUME TypeOK, HandlersKnow, CommandCacheAgrees, Fresh, NEW h \in Handlers,
           pc[h] \in Working, Kind(h) = "author", info[h] = snapshot[request[h].user],
           loaded[h] = latest["author"]
    PROVE  Cached(h) \in {Miss, SomeRoleMatches(request[h].arg, info[h])}
<1>1. /\ request[h].arg \in Cmds /\ "author" \in Kinds
      /\ Cached(h) = cache["author"][latest["author"]][<<request[h].arg, RolesKey(info[h])>>]
    BY KeyFacts DEF Cached
<1>2. request[h].user \in Users /\ info[h] # NoUser
    BY SentinelAssumption, RequestFacts DEF HandlersKnow, Working
<1> QED
    BY <1>1, <1>2 DEF CommandCacheAgrees, Fresh

\* A step of h disturbs nothing that is claimed of the other handlers.
LEMMA ExactStepOf ==
    ASSUME ExactInv, NEW h \in Handlers, UNCHANGED publisherVars,
           UnusedMaps', CommandCacheAgrees',
           \A f \in Handlers \ {h} :
               /\ pc'[f] = pc[f] /\ request'[f] = request[f] /\ info'[f] = info[f]
               /\ loaded'[f] = loaded[f] /\ verdict'[f] = verdict[f] /\ quiet'[f] = quiet[f],
           HandlerPlaced(h)', Fresh => HandlerFresh(h)'
    PROVE  ExactInv'
<1>1. ASSUME NEW f \in Handlers \ {h}
      PROVE  HandlerPlaced(f)' /\ (Fresh => HandlerFresh(f)')
    <2>1. HandlerPlaced(f) /\ (Fresh => HandlerFresh(f))
        BY DEF ExactInv
    <2>2. HandlerPlaced(f)'
        BY <2>1 DEF HandlerPlaced, Kind, publisherVars
    <2>3. Fresh => HandlerFresh(f)'
        BY <2>1 DEF HandlerFresh, Kind, publisherVars
    <2> QED
        BY <2>2, <2>3
<1>2. Fresh' => Fresh
    BY DEF Fresh, publisherVars
<1> QED
    BY <1>1, <1>2 DEF ExactInv

\* The caches agree as long as they and the snapshot stay.
LEMMA CachesKept ==
    ASSUME ExactInv, UNCHANGED <<publisherVars, cache>>
    PROVE  UnusedMaps' /\ CommandCacheAgrees'
<1>1. UnusedMaps /\ CommandCacheAgrees
    BY DEF ExactInv
<1>2. UnusedMaps'
    BY <1>1 DEF UnusedMaps, publisherVars
<1>3. CommandCacheAgrees'
    BY <1>1 DEF CommandCacheAgrees, publisherVars
<1> QED
    BY <1>2, <1>3

\* A handler that takes its entry from the snapshot, or moves on without one.
LEMMA ExactLookup ==
    ASSUME DecisionInv, ExactInv, NEW h \in Handlers,
           \/ \E q \in Request : Begin(h, q)
           \/ Settle(h) \/ Consult(h) \/ Reply(h)
    PROVE  ExactInv'
<1> USE DEF publisherVars
<1>1. TypeOK /\ HandlersKnow
    BY Parts DEF DecisionInv
<1>2. HandlerPlaced(h) /\ (Fresh => HandlerFresh(h))
    BY DEF ExactInv
<1>3. UNCHANGED <<publisherVars, cache>>
    BY DEF Begin, Settle, Consult, Reply
<1>4. UnusedMaps' /\ CommandCacheAgrees'
    BY <1>3, CachesKept
<1>5. \A f \in Handlers \ {h} :
          /\ pc'[f] = pc[f] /\ request'[f] = request[f] /\ info'[f] = info[f]
          /\ loaded'[f] = loaded[f] /\ verdict'[f] = verdict[f] /\ quiet'[f] = quiet[f]
    BY <1>1 DEF Begin, Settle, Consult, Reply, Answer, GoTo, TypeOK
<1>6. ASSUME NEW q \in Request, Begin(h, q)
      PROVE  HandlerPlaced(h)' /\ (Fresh => HandlerFresh(h)')
    <2>1. pc'[h] = "lookup" /\ quiet'[h] = (publishing = "idle")
        BY <1>1, <1>6 DEF Begin, GoTo, TypeOK
    <2> QED
        BY <1>3, <2>1 DEF HandlerPlaced, HandlerFresh, Working
<1>7. ASSUME Settle(h)
      PROVE  HandlerPlaced(h)' /\ (Fresh => HandlerFresh(h)')
    <2> DEFINE found == snapshot[request[h].user]
    <2>1. /\ pc[h] = "lookup" /\ pc'[h] = "done" /\ info'[h] = found
          /\ verdict'[h] = (found # NoUser /\ found.isOnDuty)
          /\ request' = request /\ quiet' = quiet
        BY <1>1, <1>7 DEF Settle, Answer, GoTo, TypeOK
    <2>2. found = NoUser \/ found.isOnDuty \/ RolesKey(found) = {}
        BY <1>7 DEF Settle
    <2>3. request[h].user \in Users
        BY <1>1, <2>1, RequestFacts DEF HandlersKnow
    <2>4. found \in UserInfo \cup {NoUser}
        BY <1>1, <2>3, SnapshotEntry
    <2>5. found # NoUser => found.isOnDuty \in BOOLEAN
        BY <2>4 DEF UserInfo
    <2>6. verdict'[h] = AuthorRule(found, request[h].arg)
        BY <2>1, <2>2, <2>5 DEF AuthorRule, SomeRoleMatches
    <2> QED
        BY <1>2, <1>3, <2>1, <2>6 DEF HandlerPlaced, HandlerFresh, Working, Kind
<1>8. ASSUME Consult(h)
      PROVE  HandlerPlaced(h)' /\ (Fresh => HandlerFresh(h)')
    <2> DEFINE found == snapshot[request[h].user]
    <2>1. /\ pc[h] = "lookup" /\ pc'[h] = "load" /\ info'[h] = found
          /\ request' = request /\ quiet' = quiet
          /\ Kind(h) = "author" => ~found.isOnDuty
        BY <1>1, <1>8 DEF Consult, GoTo, TypeOK
    <2> QED
        BY <1>2, <1>3, <2>1 DEF HandlerPlaced, HandlerFresh, Working, Kind
<1>9. ASSUME Reply(h)
      PROVE  HandlerPlaced(h)' /\ (Fresh => HandlerFresh(h)')
    <2>1. pc'[h] = "idle" /\ quiet'[h] = FALSE
        BY <1>1, <1>9 DEF Reply, GoTo, TypeOK
    <2> QED
        BY <2>1 DEF HandlerPlaced, HandlerFresh, Working
<1>10. HandlerPlaced(h)' /\ (Fresh => HandlerFresh(h)')
    BY <1>6, <1>7, <1>8, <1>9
<1> QED
    BY <1>3, <1>4, <1>5, <1>10, ExactStepOf

\* A handler that loads a map, looks into it, or joins a computation.
LEMMA ExactMove ==
    ASSUME DecisionInv, ExactInv, NEW h \in Handlers,
           \/ LoadCache(h) \/ CacheHit(h) \/ CacheMiss(h)
           \/ Wait(h) \/ Lead(h) \/ ReloadCache(h)
    PROVE  ExactInv'
<1> USE DEF publisherVars
<1>1. TypeOK /\ HandlersKnow
    BY Parts DEF DecisionInv
<1>2. HandlerPlaced(h) /\ (Fresh => HandlerFresh(h))
    BY DEF ExactInv
<1>3. UNCHANGED <<publisherVars, cache, request, info, quiet>> /\ pc[h] \in Working
    BY DEF LoadCache, CacheHit, CacheMiss, Wait, Lead, ReloadCache, Working
<1>4. UnusedMaps' /\ CommandCacheAgrees'
    BY <1>3, CachesKept
<1>5. \A f \in Handlers \ {h} :
          /\ pc'[f] = pc[f] /\ request'[f] = request[f] /\ info'[f] = info[f]
          /\ loaded'[f] = loaded[f] /\ verdict'[f] = verdict[f] /\ quiet'[f] = quiet[f]
    BY <1>1
    DEF LoadCache, CacheHit, CacheMiss, Wait, Lead, ReloadCache, Answer, Forget, GoTo, TypeOK
<1>6. ASSUME LoadCache(h) \/ ReloadCache(h)
      PROVE  HandlerPlaced(h)' /\ (Fresh => HandlerFresh(h)')
    <2>1. /\ loaded'[h] = latest[Kind(h)] /\ pc'[h] \in {"get", "compute"}
          /\ pc[h] \in {"load", "reload"}
        BY <1>1, <1>6 DEF LoadCache, ReloadCache, GoTo, TypeOK
    <2>2. Kind(h) = "author" => latest["author"] \in Nat
        BY <1>1, <1>3, KeyFacts DEF TypeOK, Gens
    <2> QED
        BY <1>2, <1>3, <2>1, <2>2 DEF HandlerPlaced, HandlerFresh, Working, Kind
<1>7. ASSUME CacheHit(h)
      PROVE  HandlerPlaced(h)' /\ (Fresh => HandlerFresh(h)')
    <2>1. /\ pc[h] = "get" /\ pc'[h] = "done" /\ Cached(h) # Miss
          /\ verdict'[h] = Rule(h, Cached(h))
        BY <1>1, <1>7 DEF CacheHit, Answer, GoTo, TypeOK
    <2>2. HandlerPlaced(h)'
        BY <1>2, <1>3, <2>1 DEF HandlerPlaced, Working
    <2>3. ASSUME Fresh, Kind(h) = "author", quiet[h]
          PROVE  verdict'[h] = AuthorRule(info[h], request[h].arg)
        <3>1. info[h] = snapshot[request[h].user] /\ loaded[h] = latest["author"]
            BY <1>2, <2>1, <2>3 DEF HandlerFresh
        <3>2. Cached(h) = SomeRoleMatches(request[h].arg, info[h])
            BY <1>1, <1>3, <2>1, <2>3, <3>1, FreshEntry DEF ExactInv
        <3>3. info[h] # NoUser
            BY <1>1, <1>3, SentinelAssumption DEF HandlersKnow
        <3>4. info[h].isOnDuty = FALSE
            <4>1. info[h].isOnDuty \in BOOLEAN
                BY <1>1, <1>3 DEF HandlersKnow, UserInfo
            <4> QED
                BY <1>2, <1>3, <2>3, <4>1 DEF HandlerPlaced
        <3>5. SomeRoleMatches(request[h].arg, info[h]) \in BOOLEAN
            BY DEF SomeRoleMatches
        <3> QED
            BY <2>1, <2>3, <3>2, <3>3, <3>4, <3>5 DEF AuthorRule, Rule
    <2> QED
        BY <1>3, <2>1, <2>2, <2>3 DEF HandlerFresh, Kind
<1>8. ASSUME CacheMiss(h) \/ Wait(h) \/ Lead(h)
      PROVE  HandlerPlaced(h)' /\ (Fresh => HandlerFresh(h)')
    <2>1. pc[h] \in {"get", "join"} /\ pc'[h] \in {"join", "wait", "reload"}
        BY <1>1, <1>8 DEF CacheMiss, Wait, Lead, GoTo, TypeOK
    <2> QED
        BY <1>2, <1>3, <2>1 DEF HandlerPlaced, HandlerFresh, Working, Kind
<1>9. HandlerPlaced(h)' /\ (Fresh => HandlerFresh(h)')
    BY <1>6, <1>7, <1>8
<1> QED
    BY <1>3, <1>4, <1>5, <1>9, ExactStepOf

\* The leader sets the entry of its key in the current map to what the snapshot
\* says of every account with these roles.
LEMMA ExactCompute ==
    ASSUME DecisionInv, ExactInv, NEW h \in Handlers, Compute(h)
    PROVE  ExactInv'
<1> USE DEF publisherVars
<1> DEFINE answer == IF Cached(h) = Miss THEN Computed(h) ELSE Cached(h)
<1>1. TypeOK /\ HandlersKnow
    BY Parts DEF DecisionInv
<1>2. HandlerPlaced(h) /\ (Fresh => HandlerFresh(h))
    BY DEF ExactInv
<1>3. /\ pc[h] = "compute"
      /\ cache' = [cache EXCEPT ![Kind(h)][loaded[h]][Key(h)] = answer]
      /\ verdict' = [verdict EXCEPT ![h] = answer]
      /\ pc' = [pc EXCEPT ![h] = "release"] /\ loaded' = [loaded EXCEPT ![h] = 0]
      /\ UNCHANGED <<publisherVars, request, info, quiet>>
    BY DEF Compute, GoTo, Forget
<1>4. pc[h] \in Working
    BY <1>3 DEF Working
<1>5. ASSUME Fresh, Kind(h) = "author"
      PROVE  /\ answer = SomeRoleMatches(request[h].arg, info[h])
             /\ info[h] = snapshot[request[h].user] /\ loaded[h] = latest["author"]
    <2>1. info[h] = snapshot[request[h].user] /\ loaded[h] = latest["author"]
        BY <1>2, <1>3, <1>5 DEF HandlerFresh
    <2>2. Cached(h) \in {Miss, SomeRoleMatches(request[h].arg, info[h])}
        BY <1>1, <1>4, <1>5, <2>1, FreshEntry DEF ExactInv
    <2>3. Computed(h) = SomeRoleMatches(request[h].arg, info[h])
        BY <1>5 DEF Computed
    <2> QED
        BY <2>1, <2>2, <2>3
<1> HIDE DEF answer
<1>6. pc'[h] = "release" /\ verdict'[h] = answer
    BY <1>1, <1>3 DEF TypeOK
<1>7. HandlerPlaced(h)' /\ (Fresh => HandlerFresh(h)')
    BY <1>2, <1>3, <1>4, <1>5, <1>6 DEF HandlerPlaced, HandlerFresh, Working, Kind
<1>8. \A f \in Handlers \ {h} :
          /\ pc'[f] = pc[f] /\ request'[f] = request[f] /\ info'[f] = info[f]
          /\ loaded'[f] = loaded[f] /\ verdict'[f] = verdict[f] /\ quiet'[f] = quiet[f]
    BY <1>1, <1>3 DEF TypeOK
\* The one entry that changes.
<1>9. \A k \in Kinds : \A g \in Gens : \A key \in Keys[k] :
          cache'[k][g][key] = IF k = Kind(h) /\ g = loaded[h] /\ key = Key(h)
                              THEN answer ELSE cache[k][g][key]
    BY <1>1, <1>3, <1>4, KeyFacts DEF TypeOK
<1>10. UnusedMaps'
    <2>1. SUFFICES ASSUME "author" \in Kinds, NEW g \in Gens, g > latest["author"],
                          NEW key \in Keys["author"]
                   PROVE  cache'["author"][g][key] = Miss
        BY <1>3 DEF UnusedMaps
    <2>2. cache["author"][g][key] = Miss
        BY <2>1 DEF ExactInv, UnusedMaps
    <2>3. Kind(h) = "author" => g # loaded[h]
        <3>1. latest["author"] \in Nat /\ loaded[h] \in Nat /\ g \in Nat
            BY <1>1, <2>1 DEF TypeOK, Gens
        <3> QED
            BY <1>2, <1>3, <2>1, <3>1 DEF HandlerPlaced
    <2> QED
        BY <1>9, <2>1, <2>2, <2>3
<1>11. CommandCacheAgrees'
    <2>1. SUFFICES ASSUME "author" \in Kinds, Fresh, NEW c \in Cmds, NEW u \in Users,
                          snapshot[u] # NoUser
                   PROVE  cache'["author"][latest["author"]][<<c, RolesKey(snapshot[u])>>]
                              \in {Miss, SomeRoleMatches(c, snapshot[u])}
        BY <1>3 DEF CommandCacheAgrees, Fresh
    <2> DEFINE key == <<c, RolesKey(snapshot[u])>>
    <2>2. key \in Keys["author"] /\ latest["author"] \in Gens
        BY <1>1, <2>1 DEF Keys, RolesKey, TypeOK
    <2>3. cache["author"][latest["author"]][key] \in {Miss, SomeRoleMatches(c, snapshot[u])}
        BY <2>1 DEF ExactInv, CommandCacheAgrees, Fresh
    <2>4. ASSUME Kind(h) = "author", key = Key(h)
          PROVE  answer = SomeRoleMatches(c, snapshot[u])
        <3>1. Key(h) = <<request[h].arg, RolesKey(info[h])>>
            BY <2>4 DEF Key
        <3>2. c = request[h].arg /\ RolesKey(snapshot[u]) = RolesKey(info[h])
            BY <2>4, <3>1, PairsEqual
        <3>3. info[h] = snapshot[request[h].user] /\ answer = SomeRoleMatches(c, info[h])
            BY <1>5, <2>1, <2>4, <3>2
        <3>4. info[h] # NoUser /\ request[h].user \in Users
            BY <1>1, <1>4, SentinelAssumption, RequestFacts DEF HandlersKnow, Working
        <3>5. SomeRoleMatches(c, snapshot[u])
                  = SomeRoleMatches(c, snapshot[request[h].user])
            BY <1>1, <2>1, <3>2, <3>3, <3>4, SameRolesSameAnswers
        <3> QED
            BY <3>3, <3>5
    <2> HIDE DEF key
    <2>5. cache'["author"][latest["author"]][key] \in {Miss, SomeRoleMatches(c, snapshot[u])}
        BY <1>9, <2>1, <2>2, <2>3, <2>4
    <2> QED
        BY <2>5 DEF key
<1> QED
    BY <1>3, <1>7, <1>8, <1>10, <1>11, ExactStepOf

\* The goroutines that share a computation of the current snapshot all get its
\* answer for their own account entry.
LEMMA ExactRelease ==
    ASSUME DecisionInv, ExactInv, NEW h \in Handlers, Release(h)
    PROVE  ExactInv'
<1> USE DEF publisherVars
<1>1. TypeOK /\ HandlersKnow
    BY Parts DEF DecisionInv
<1>2. /\ pc[h] = "release"
      /\ pc' = [f \in Handlers |-> IF f \in Sharing(h) THEN "done" ELSE pc[f]]
      /\ verdict' = [f \in Handlers |-> IF f \in Sharing(h)
                                        THEN Rule(f, verdict[h]) ELSE verdict[f]]
      /\ UNCHANGED <<publisherVars, cache, request, info, loaded, quiet>>
    BY DEF Release
<1>3. UnusedMaps' /\ CommandCacheAgrees'
    BY <1>2, CachesKept
<1>4. ASSUME NEW f \in Handlers, f \notin Sharing(h)
      PROVE  HandlerPlaced(f)' /\ (Fresh => HandlerFresh(f)')
    <2>1. pc'[f] = pc[f] /\ verdict'[f] = verdict[f]
        BY <1>2, <1>4
    <2>2. HandlerPlaced(f) /\ (Fresh => HandlerFresh(f))
        BY DEF ExactInv
    <2>3. HandlerPlaced(f)'
        BY <1>2, <2>1, <2>2 DEF HandlerPlaced, Kind
    <2>4. Fresh => HandlerFresh(f)'
        BY <1>2, <2>1, <2>2 DEF HandlerFresh, Kind
    <2> QED
        BY <2>3, <2>4
<1>5. ASSUME NEW f \in Handlers, f \in Sharing(h)
      PROVE  HandlerPlaced(f)' /\ (Fresh => HandlerFresh(f)')
    <2>1. /\ pc'[f] = "done" /\ verdict'[f] = Rule(f, verdict[h])
          /\ pc[f] \in {"wait", "release"} /\ Kind(f) = Kind(h) /\ Key(f) = Key(h)
          /\ pc[f] # "wait" => f = h
        BY <1>2, <1>5 DEF Sharing
    <2>2. HandlerPlaced(f) /\ HandlerPlaced(h)
          /\ (Fresh => HandlerFresh(f) /\ HandlerFresh(h))
        BY DEF ExactInv
    <2>3. HandlerPlaced(f)'
        BY <1>2, <2>1, <2>2 DEF HandlerPlaced, Working
    <2>4. ASSUME Fresh, Kind(f) = "author", quiet[f]
          PROVE  verdict'[f] = AuthorRule(info[f], request[f].arg)
        <3>1. /\ info[h] = snapshot[request[h].user]
              /\ verdict[h] = SomeRoleMatches(request[h].arg, info[h])
            BY <1>2, <2>1, <2>2, <2>4 DEF HandlerFresh
        <3>2. info[f] = snapshot[request[f].user]
            BY <2>1, <2>2, <2>4, <3>1 DEF HandlerFresh
        <3>3. request[f].arg = request[h].arg /\ RolesKey(info[f]) = RolesKey(info[h])
            <4>1. Key(f) = <<request[f].arg, RolesKey(info[f])>>
                BY <2>4 DEF Key
            <4>2. Key(h) = <<request[h].arg, RolesKey(info[h])>>
                BY <2>1, <2>4 DEF Key
            <4>3. <<request[f].arg, RolesKey(info[f])>> = <<request[h].arg, RolesKey(info[h])>>
                BY <2>1, <4>1, <4>2
            <4> QED
                BY <4>3, PairsEqual
        <3>4. \A x \in {f, h} : /\ info[x] # NoUser /\ request[x].user \in Users
                                /\ info[x] \in UserInfo
            BY <1>1, <1>2, <2>1, SentinelAssumption, RequestFacts DEF HandlersKnow, Working
        <3>5. SomeRoleMatches(request[f].arg, info[f]) = SomeRoleMatches(request[h].arg, info[h])
            BY <1>1, <3>1, <3>2, <3>3, <3>4, SameRolesSameAnswers
        <3>6. info[f].isOnDuty = FALSE
            <4>1. info[f].isOnDuty \in BOOLEAN
                BY <3>4 DEF UserInfo
            <4> QED
                BY <2>1, <2>2, <2>4, <4>1 DEF HandlerPlaced, Working
        <3>7. Rule(f, verdict[h]) = SomeRoleMatches(request[f].arg, info[f])
            BY <2>4, <3>1, <3>5 DEF Rule
        <3>8. AuthorRule(info[f], request[f].arg) = SomeRoleMatches(request[f].arg, info[f])
            <4>1. SomeRoleMatches(request[f].arg, info[f]) \in BOOLEAN
                BY DEF SomeRoleMatches
            <4> QED
                BY <3>4, <3>6, <4>1 DEF AuthorRule
        <3> QED
            BY <2>1, <3>7, <3>8
    <2>5. Fresh => HandlerFresh(f)'
        BY <1>2, <2>1, <2>4 DEF HandlerFresh, Kind
    <2> QED
        BY <2>3, <2>5
<1>6. Fresh' => Fresh
    BY <1>2 DEF Fresh
<1> QED
    BY <1>3, <1>4, <1>5, <1>6 DEF ExactInv

\* While a refresh is under way nothing is claimed of the command cache, and no
\* handler is quiet.
LEMMA ExactRefreshing ==
    ASSUME DecisionInv, ExactInv, (\E s \in Published : StoreUsers(s)) \/ StorePasswordCache
    PROVE  ExactInv'
<1>1. TypeOK
    BY DEF DecisionInv
<1>2. /\ publishing' # "idle"
      /\ UNCHANGED <<cache, pc, request, info, loaded>>
      /\ "author" \in Kinds => latest'["author"] = latest["author"]
    BY <1>1 DEF StoreUsers, StorePasswordCache, NewMap, handlerVars, TypeOK
<1>3. \A h \in Handlers : ~quiet'[h]
    <2>1. CASE \E s \in Published : StoreUsers(s)
        BY <2>1 DEF StoreUsers
    <2>2. CASE StorePasswordCache
        <3>1. publishing # "idle" /\ quiet' = quiet
            BY <2>2 DEF StorePasswordCache
        <3> QED
            BY <3>1 DEF ExactInv, HandlerPlaced
    <2> QED
        BY <2>1, <2>2
<1>4. UnusedMaps' /\ CommandCacheAgrees' /\ ~Fresh'
    BY <1>2 DEF ExactInv, UnusedMaps, CommandCacheAgrees, Fresh
<1>5. ASSUME NEW h \in Handlers
      PROVE  HandlerPlaced(h)'
    <2>1. HandlerPlaced(h)
        BY DEF ExactInv
    <2>2. pc[h] # "idle" /\ Kind(h) = "author" => "author" \in Kinds
        BY RequestFacts DEF DecisionInv, HandlerSound, Kind
    <2> QED
        BY <1>2, <1>3, <2>1, <2>2 DEF HandlerPlaced, Kind
<1> QED
    BY <1>4, <1>5 DEF ExactInv

\* The last store of a refresh puts an empty map into the pointer.  With no
\* straggler, every handler that may still fill it holds a current entry.
LEMMA ExactRefreshed ==
    ASSUME DecisionInv, ExactInv, StoreCommandCache
    PROVE  ExactInv'
<1>1. TypeOK /\ Room
    BY DEF DecisionInv
<1>2. /\ publishing = "author"
      /\ tainted' = \E h \in Handlers : Straggler(h)
      /\ UNCHANGED <<snapshot, cache, pc, request, info, loaded, verdict, quiet>>
    BY DEF StoreCommandCache, handlerVars
<1>3. "author" \in Kinds => /\ latest["author"] \in Nat /\ latest'["author"] = latest["author"] + 1
                            /\ latest'["author"] \in Gens
    BY <1>1, DecisionAssumption DEF StoreCommandCache, NewMap, Room, TypeOK, Gens
<1>4. UnusedMaps'
    <2>1. SUFFICES ASSUME "author" \in Kinds, NEW g \in Gens, g > latest'["author"],
                          NEW key \in Keys["author"]
                   PROVE  cache["author"][g][key] = Miss
        BY <1>2 DEF UnusedMaps
    <2>2. g > latest["author"]
        BY <1>3, <2>1 DEF Gens
    <2> QED
        BY <2>1, <2>2 DEF ExactInv, UnusedMaps
<1>5. CommandCacheAgrees'
    <2>1. SUFFICES ASSUME "author" \in Kinds, NEW c \in Cmds, NEW u \in Users
                   PROVE  cache["author"][latest'["author"]][<<c, RolesKey(snapshot[u])>>] = Miss
        BY <1>2 DEF CommandCacheAgrees
    <2>2. <<c, RolesKey(snapshot[u])>> \in Keys["author"]
        BY DEF Keys, RolesKey
    <2>3. latest'["author"] > latest["author"]
        BY <1>3, <2>1
    <2> QED
        BY <1>3, <2>1, <2>2, <2>3 DEF ExactInv, UnusedMaps
<1>6. \A h \in Handlers : ~quiet[h]
    BY <1>2 DEF ExactInv, HandlerPlaced
<1>7. ASSUME NEW h \in Handlers
      PROVE  HandlerPlaced(h)'
    <2>1. HandlerPlaced(h) /\ loaded[h] \in Nat
        BY <1>1 DEF ExactInv, TypeOK, Gens
    <2>2. pc[h] # "idle" /\ Kind(h) = "author" => "author" \in Kinds
        BY RequestFacts DEF DecisionInv, HandlerSound, Kind
    <2>3. pc[h] \in {"get", "compute"} /\ Kind(h) = "author" => loaded[h] <= latest'["author"]
        BY <1>3, <2>1, <2>2 DEF HandlerPlaced
    <2> QED
        BY <1>2, <1>6, <2>1, <2>3 DEF HandlerPlaced, Kind
<1>8. ASSUME ~tainted', NEW h \in Handlers
      PROVE  HandlerFresh(h)'
    <2>1. ~Straggler(h)
        BY <1>2, <1>8
    <2> QED
        BY <1>2, <1>6, <2>1 DEF Straggler, HandlerFresh, Kind
<1> QED
    BY <1>4, <1>5, <1>7, <1>8 DEF ExactInv, Fresh

\* A client that starts has empty maps and idle handlers.
LEMMA ExactInit == Init => ExactInv
<1> SUFFICES ASSUME Init PROVE ExactInv
    OBVIOUS
<1>1. UnusedMaps
    BY DEF Init, UnusedMaps
<1>2. CommandCacheAgrees
    <2>1. SUFFICES ASSUME "author" \in Kinds, NEW c \in Cmds, NEW u \in Users
                   PROVE  cache["author"][latest["author"]][<<c, RolesKey(snapshot[u])>>] = Miss
        BY DEF CommandCacheAgrees
    <2>2. <<c, RolesKey(snapshot[u])>> \in Keys["author"] /\ latest["author"] \in Gens
        BY <2>1, DecisionAssumption DEF Keys, RolesKey, Init, Gens
    <2> QED
        BY <2>1, <2>2 DEF Init
<1>3. ASSUME NEW h \in Handlers
      PROVE  HandlerPlaced(h) /\ HandlerFresh(h)
    BY DEF Init, HandlerPlaced, HandlerFresh, Working
<1> QED
    BY <1>1, <1>2, <1>3 DEF ExactInv

\* Every step keeps the invariant.
LEMMA ExactInductive == DecisionInv /\ ExactInv /\ [Next]_vars => ExactInv'
<1> SUFFICES ASSUME DecisionInv, ExactInv, [Next]_vars PROVE ExactInv'
    OBVIOUS
<1>1. CASE Refresh
    BY <1>1, ExactRefreshing, ExactRefreshed DEF Refresh
<1>2. CASE \E h \in Handlers : Serve(h) \/ \E q \in Request : Begin(h, q)
    BY <1>2, ExactLookup, ExactMove, ExactCompute, ExactRelease DEF Serve
<1>3. CASE UNCHANGED vars
    <2>1. UNCHANGED <<publisherVars, cache, handlerVars, quiet>>
        BY <1>3 DEF vars
    <2>2. UnusedMaps' /\ CommandCacheAgrees'
        BY <2>1, CachesKept
    <2>3. ASSUME NEW h \in Handlers
          PROVE  HandlerPlaced(h)' /\ (Fresh => HandlerFresh(h)')
        <3>1. HandlerPlaced(h) /\ (Fresh => HandlerFresh(h))
            BY DEF ExactInv
        <3>2. HandlerPlaced(h)'
            BY <2>1, <3>1 DEF HandlerPlaced, Kind, publisherVars, handlerVars
        <3>3. Fresh => HandlerFresh(h)'
            BY <2>1, <3>1 DEF HandlerFresh, Kind, publisherVars, handlerVars
        <3> QED
            BY <3>2, <3>3
    <2>4. Fresh' => Fresh
        BY <2>1 DEF Fresh, publisherVars
    <2> QED
        BY <2>2, <2>3, <2>4 DEF ExactInv
<1> QED
    BY <1>1, <1>2, <1>3 DEF Next

\* The command cache that a finished refresh without stragglers left never comes
\* to hold a decision that its snapshot does not make, whoever fills it.
THEOREM CommandCacheIsCurrent == Spec => []CommandCacheAgrees
<1>1. Init => DecisionInv /\ ExactInv
    BY InitSound, ExactInit
<1>2. DecisionInv /\ ExactInv /\ [Next]_vars => (DecisionInv /\ ExactInv)'
    BY NextSound, ExactInductive
<1>3. ExactInv => CommandCacheAgrees
    BY DEF ExactInv
<1> QED
    BY <1>1, <1>2, <1>3, PTL DEF Spec

\* A command that no refresh overlaps gets exactly the answer of the rule, from
\* whatever cache or goroutine it comes, unless the last refresh had stragglers.
THEOREM QuietCommandsAreExact == Spec => []AuthorExactWhenQuiet
<1>1. Init => DecisionInv /\ ExactInv
    BY InitSound, ExactInit
<1>2. DecisionInv /\ ExactInv /\ [Next]_vars => (DecisionInv /\ ExactInv)'
    BY NextSound, ExactInductive
<1>3. ExactInv => AuthorExactWhenQuiet
    <2>1. SUFFICES ASSUME ExactInv, NEW h \in Handlers,
                          Answered(h, "author"), quiet[h], ~tainted
                   PROVE  verdict[h] = AuthorRule(info[h], request[h].arg)
        BY DEF AuthorExactWhenQuiet
    <2>2. Fresh
        BY <2>1 DEF ExactInv, HandlerPlaced, Fresh
    <2> QED
        BY <2>1, <2>2 DEF ExactInv, HandlerFresh, Answered
<1> QED
    BY <1>1, <1>2, <1>3, PTL DEF Spec
=============================================================================
