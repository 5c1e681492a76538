# A verification of tacacs-plus-go

The system answers TACACS+ requests of network devices (logins, commands,
accounting).  A central *server* keeps accounts, roles and approvals in MySQL;
*edge clients* close to the devices hold a snapshot of the permissions in
memory and answer from it; a web front end (*SwM*) proxies the administration.
This directory holds TLA+ models of the parts whose correctness depends on
interleavings, failures and timing, TLC runs that check them on small
instances, and TLAPS proofs for instances of every size.

Contents: 1 inventory, 2 modules, 3 runs, 4 fairness, 5 proofs, 6 what the
checks and the modelling found, 7 what is not modelled, 8 plan.

## 1. Inventory

| Part | Code | State it keeps | Operations | What makes it correct | Module |
|---|---|---|---|---|---|
| Snapshot refresh (edge client) | `client/tac_plus/user.go` `updateUsers` | snapshot, acknowledged version, running flag | poll every 2 s, forget the version every 5 min, rebuild query by query, recheck, publish, acknowledge | never publishes a mixture of two moments; never believes to be current when it is not; catches up | `CacheSync` |
| Version counters | `public/db/meta.go`, `static/sql/tacacs_meta.sql`, the writers of `public/db` | one counter per table | bump by trigger, by the writer, or by an administrator for all tables | every change is followed by a visible bump, or by the forced refresh | `CacheSync` |
| Login and command decisions (edge client) | `client/tac_plus/handler.go`, `user.go` | three atomic pointers (snapshot, password cache, command cache), two singleflight groups | handle a login or a command; replace the three pointers | no answer that no published snapshot supports | `AuthDecision` |
| TACACS+ connection, server side | `public/tacplus/conn.go`, `server.go` | session table, mux flags, idle timer, done channels, queues | receive and route packets, create and close sessions, write replies, time out, clean up | no session lost, closed twice or left unanswered; everything ends | `TacConn` |
| Audit reports | `client/logHub/logHub.go` | queue, closed flag, batch, counters | report, batch, send with retries, recover from a panic, stop | nothing accepted is lost uncounted; what counts as sent is stored; a clean stop leaves nothing | `ReportQueue` |
| Approval life cycle | `server/approvalSystem`, `tacacs_approval.go`, `handler_approval.go`, `feishuws/handler.go` | status of each request, a mutex for the sweeps | create, approve, reject, withdraw (page and card), time out, expire | one decision each, which stands | `Approvals` |
| Permission daemon: roles | `server/permissionSystem` | snapshots of users and approvals, alarm history | merge ranges, derive roles, write them back, warn | roles only in granted time; no false warnings | `Approvals`, `RangeMerge` |
| Permission daemon: passwords; accounts | `permissionSystem`, `handler_user.go`, `password_failures.go`, `tacacs_user.go` | rows, snapshot of rows, failure counters | create, check, change, reset, disable, pause, restore | bounded guessing; disabled stays disabled; status follows the password | `Accounts` |
| Request path | `swm/http` `handler.go`, `proxy.go`, `user_status.go`, `session.go`; `server/http/middleware_swm_auth.go` | cookie, page, cache of administrators, nonce store and its counter | login, logout, heartbeat, check, proxy, sign, retry, verify | a signed request is handled once; revoked accounts are refused | `AccessPath` |
| Template catalogue | `handler_template_*.go`, `handler_role.go`, `tacacs_template_*.go` | rows of templates and roles | add, delete by id and by name, create and delete roles | what accounts hold or ask for is not taken away under them | `Catalogue` |
| Duty list | `permissionSystem.go` `UpdateOnDutyUsers`, `tacacs_on_duty.go` | one table, updates under way | cover the table by roster and white list | overlapping updates do not lose or invent anybody | `OnDuty` |
| Login limiter | `swm/http/ratelimit.go` | buckets | admit, record a failure, reset, evict, clean | lock-outs last; bursts are bounded | `LoginLimiter` |
| Others | packet codec, protocol client, log store, notifications, configuration, start-up, browser pages | little or none | conversions and I/O | | section 7 |

How they interact.  The server writes tables and bumps versions in MySQL; every
client polls the versions over its own read connection and rebuilds its
snapshot; device connections run many handlers at once against the three
pointers that the refresh replaces; each handler reports to the log hub through
a queue.  The permission daemon and the approval sweeps write the same tables
from timers while administrators (through the request path) and message-card
callbacks do; the configuration library calls the duty update from its own
goroutines.

The hard behaviours: a rebuild of many queries racing with writes; three
pointers replaced one by one under running handlers; results shared through
singleflight; a select that may take any ready case; an idle timer that expires
while a packet arrives; checks and writes that are several statements without a
transaction; tasks that write from snapshots taken earlier; retries of what may
have been done; caches and stores that expire; errors that are not seen;
restarts.  `PROJECT.json` lists each at its line under "hazards".

## 2. Modules

One module per component, `MC...` modules with the values TLC needs, `...Proofs`
modules with the theorems.  `PublishedCopy` is an abstract specification.

| Module | What it is |
|---|---|
| `UserData` | Data without state: tables, snapshot, how the one is assembled from the other, the rules a login or a command is answered by |
| `CacheSync` | The refresh of one client against the server's writes and bumps |
| `PublishedCopy` | What a reader of the snapshot may rely on; implemented by `CacheSync` |
| `AuthDecision` | Handlers, decision caches and singleflight against the publication of refreshes |
| `TacConn` | One connection: its three loops, idle timer and session goroutines |
| `ReportQueue` | Handlers, queue, worker, Stop and the hub's answers |
| `RangeMerge` | Ranges of time and `mergeRangeTimes` |
| `Approvals` | Requests, decisions, sweeps, and the daemon that turns them into roles |
| `Accounts` | Accounts, password failures, and the daemon's two password tasks |
| `AccessPath` | A browser's request through SwM to a handler of the server |
| `Catalogue`, `OnDuty`, `LoginLimiter` | Templates and roles, the duty table, the web front end's limiter |
| `Management` | The three side by side; a step of the whole is a step of one of them |

**UserData**.  A command is a pair of command line and target device.  A role's
command templates (regular expressions) and server templates (addresses and
networks) are the sets of pairs they accept, so a role permits the intersection,
which is what `checkRoleMatch` computes.  An account's entry maps each role it
holds to what it permits; `rolesKey` is the set of the names.  Priority
arguments, reasons and wording are left out.

**CacheSync**.  `updateUsers` is one action per query: `StartUpdate`,
`ListRoles`, per role `FindRow`/`SkipRole`, `ReadServers`, `ReadCommands`, then
`ReadUsers`, `ReadOnDuty`, the recheck (`Confirm` or `Discard`),
`StoreSnapshot` and `Acknowledge`.  `AbortUpdate` is a failure of a query whose
error is checked.  The several template queries of one role are one step per
table; the role row is found with the lists it was created with, which no
operation changes.  The flag `isUpdateUsersRunning` is `phase # "idle"`.
`ClearTempTacacsTableUpdateTime` is enabled in every state because the cron
entry does not look at the flag; its unlocked assignment races with those of
`updateUsers`, and a torn string is the old one, the new one, the empty one, or
a crash, which is `Restart`.  The server writes with its bump in one transaction
(triggers, or `ResetUserPassword`), or writes and then calls `BumpMetaVersion`,
or loses the bump (a failed `Exec`, or a writer that returns before it); an
administrator's `RefreshAllMeta` takes one key at a time.  The model's database
is the replica that the client reads.  `Swallowed` names the queries that may
return only part of their rows, or nothing, without an error being seen: the
errors of the template queries (user.go:85, :94) are discarded, a role's row
(:77) and the duty list (:143) have no error result, and `GetTacacsRoleTemplates`
and `GetTacacsUserInfos` do not look at `rows.Err()`.

**PublishedCopy**.  A content that others change; a copy that is always the
image of the content of one moment, or empty after a start; a certificate that
holds only while the copy is current.  The mapping (`CacheSync!Copy`) takes the
database for the content, the database when the refresh read its first version
(the history variable `begun`) for the candidate, and "the acknowledged version
is the newest" for the certificate.

**AuthDecision**.  A handler's steps are its shared accesses: load the snapshot
pointer and take the account's entry; load the cache pointer; `Get`; join
singleflight; as leader load the pointer again, look again, compute and `Set`;
release.  The refresh stores the three pointers in three steps.  A map is named
by how many maps were stored before it, so that a goroutine can go on using an
old one.  `Published` is the set of snapshots that refreshes may store: any
whose roles come from one map of roles (which is what `BuildUsers` makes).

**TacConn**.  Unbuffered channels make send and receive one step; a select with
several ready cases takes any of them.  `serve` is split into its branches, each
with the test at the end of the loop.  A session's goroutine goes through read,
handle, write, send, wait and close.  The timer fires in two steps, since `Stop`
already fails before `conn.close` has run.  Of a packet the model keeps session
id and sequence number, which cannot overflow here: a login has at most twelve
prompts.  A panic of `handleAuthenStart` after a failed prompt (`s.p` is nil)
runs the deferred close and is recovered, which is the same step as an end.

**ReportQueue**.  An event is its position among the accepted ones.  Each
critical section of `bufMu` is a step; the check of `Enable` in `enqueue` is
outside it and is a step before.  The worker's states are those of its loop and
of `sendBulk`'s retries; `Signal` and `Broadcast` wake it from "waiting".  The
hub stores any part of a batch and answers with what it did, or the answer is
lost.  Connections outlive `TacPlusSystem.Stop`, so handlers report at any time.

**Approvals**.  Time counts in half days, the smallest difference the code's
constants distinguish.  Requests are rows, decisions are `ApproveWithLock`, the
two sweeps share a mutex, list first (`StartReviewSweep`, `StartExpirySweep`)
and then treat row by row (`SweepMission`).  The daemon is a cycle of
`UpdateUserInfos`, `UpdateRoleInfos` and `UpdateDatabase`, each with its failed
query, and `CheckRolePermissionExpiry` warns from the same snapshots.
`RangeMerge` is `mergeRangeTimes`: a recursive function over the turns of its
loop, for any order `sort.Slice` may leave.  The hourly quota of requests only refuses.

**Accounts**.  The statements of `handler_user.go` and the critical sections of
the two failure counters are one step each; whether a given password is right is
chosen when it is compared.  The tasks `CheckPasswordTimeout` and
`CheckPasswordUnTimeout` choose by a snapshot and write later.

**AccessPath**.  One clock, a session that is a signed cookie in the browser, a
page with its heartbeat, `AuthRequired` with its status query, the proxy, the
signed request whose id is its nonce, and `swmAuthMiddleware` with its store.
The proxy takes a request in steps between which time passes: `UseAdmins` judges
by the cached list; or `AskAdmins` is the server's reading of its table,
`StoreAdmins` or `FailAdmins` the end of the call, with the lock of the cache held
in between, and the list is stamped when it has come; then `SignRequest`, after
the body was read, sets the timestamp.  `CallTimeout` (15 s) and `ReadTimeout`
(30 s) end the two waits (`OnTime`); computing takes no time.  `LoseRequest`/`Retry` are a broken
connection and Go's transport, which sends a GET again.  `RestartServer` empties
the nonce store, `RestartSwm` the cache.  Classes of requests say which guards
apply; CSRF tokens, the address white list and size limits only refuse.  What
handlers do is in `Accounts` and `Approvals`.

**Catalogue**.  Every query of a request is a step; a check whose query fails
takes the result for empty, which makes the request `blind`.  `kind` says which
of the two nearly equal template tables is meant, with their different checks.
Deleted rows stay in the sequences as `None`, so that ids are never used twice,
as with `AUTO_INCREMENT`.  `approvals` is a table of applications, each for one
role; several may be for the same.  `since` is a history of what held ever
since a request began.

**OnDuty**.  Updates by start-up and by listener goroutines, statement by
statement: read the white list, read the table, DELETE, INSERT (refused as a
whole by the unique key), bump.  `episode` is a history of what overlapping
updates wanted.

**LoginLimiter**.  Buckets per source, per account and one for the process;
admission and failure are separate critical sections; `admitted` is a history:
for each key the attempts its bucket let pass, with the time of each.

**Management**.  The three share no state, so the module takes the catalogue as
it is and INSTANCEs of the other two, and a step leaves two of them unchanged.
`MCManagement` starts in a state that lets one part run at a time (`part`): their
product would only multiply the states.

## 3. Runs

| Run | Question | Bounds |
|---|---|---|
| `sync_triggers` | Under triggers, does the refresh implement `PublishedCopy` (`PublishesCopies`), acknowledge only what is current (`AckedIsCurrent`) and catch up by the two-second poll alone (`EventuallyConsistent`)? | 1 account, 2 roles, 1 command; 2 writes, 2 faults |
| `sync_safety_refresh` | Does the forced refresh repair lost bumps and unseen errors of every query (`EventuallyConsistent`)? | 1 write, 2 faults |
| `sync_swallowed` | Is a snapshot never acknowledged that lacks templates whose query failed? (violated, section 6) | no write, 1 fault, in a template query |
| `decision_author` | Is every permit one that a published snapshot granted to the roles held (`PermitWasGranted`)?  Do answers and cache agree with the snapshot once an untainted refresh is over (`AuthorExactWhenQuiet`, `CommandCacheAgrees`)?  Is everybody answered (`RequestsComplete`)? | 2 handlers, 2 accounts, 2 roles, 1 refresh |
| `decision_authen` | Is a login answered exactly by the entry it took (`AuthenExact`)? | 2 handlers, 1 account, 2 passwords, 2 hashes, 1 refresh |
| `conn_safety` | Session table (`RegistryIsExact`), timer (`TimerSparesSessions`) and replies (`EverySessionIsAnswered`), in every multiplexing mode | 2 session ids, 3 packets, 1 prompt |
| `conn_ends` | Do closed connections end (`ConnectionEnds`) and idle ones close (`IdleConnectionCloses`)? | 1 id, 3 packets |
| `report_queue` | Is every accepted event queued, in the batch or counted once (`NothingVanishes`), what is counted as sent stored (`SentIsStored`), a clean stop complete (`FlushIsComplete`), the worker never left asleep (`QueueDrains`)? | 2 handlers, queue 2, batch 2, 2 retries, 3 events, 3 failed calls, 1 panic |
| `approvals` | One decision each (`OneDecision`) that stands (`DecisionsStand`); roles only in granted time (`RoleWithinWindow`); no warning of an end that is none (`NoFalseWarning`); roles and requests settle (`RolesSettle`, `RequestsClose`) | 1 user, 1 role, two periods that touch, 2 requests, 3 half days, 1 fault |
| `accounts` | Failures (`FailuresBounded`), disabling (`DisabledStays`), status and age of the password (`StatusFollowsPassword`) | 1 user, 2 requests, time-out 1, time 2, 1 fault |
| `access` | Requests are handled once (`HandledOnce`), revoked accounts refused (`RevokedIsRefused`), former administrators refused in time (`AdminIsCurrent`), pages closed (`PageFollowsAccount`), the nonce counter exact (`TypeOK`) | 1 user, 2 requests, call 1, administrators cached for 1, body 1, skew 1, nonces for 2, 1 nonce, time 4 (2 beside a page), 1 change, 1 fault |
| `management` | Held templates and wanted roles are kept (`HeldTemplateIsFixed`, `WantedRoleIsKept`), a request alone keeps the catalogue sound (`AloneKeepsSound`), duty updates agree (`UpdatesAgree`), lock-outs last (`LockOutLasts`), bursts are bounded (`BurstIsBounded`) | catalogue: 2 templates in 3 rows, 2 roles, 2 requests, 2 applications, 2 events (3 requests and events together), 1 fault; duty: 2 users, start-up and 2 listeners, 2 rosters, 1 white list, 1 fault; limiter: 2 sources, 1 account, 3 buckets, window 1, lock-out 3, limits 1 and 2, time 4, 4 attempts |

Why these bounds are enough for the cases that matter.

* *Refresh*: two roles make a rebuild long enough for a write to fall before,
  between and after the reads of both, and two writes let one of them come after
  the recheck.  A fault is a failed query, a lost bump or a restart; two let a
  restart follow a failure.
* *Decisions*: two handlers are a leader and a waiter of one key, or a straggler
  with the old snapshot beside one with the new.
* *Connection*: three packets of two ids allow a session whose id is taken again
  while it is closing, a full queue, and a second session beside a first.
* *Reports*: three events are a full batch and one more, or a full queue and one
  refused; three failed calls use up the retries of a batch.
* *Approvals*: two requests for one role whose periods touch are merged, or
  decided differently; three half days let the first end while the second
  goes on, and the approval time-out pass.
* *Accounts*: two requests of one kind both pass the check of a counter before
  either counts; two units of time age a password past the time-out.
* *Access*: one nonce fills the store.  `MCAccessPath` is two instances in one.
  Beside an open page, one request of any class runs and accounts change; two
  units of time let a session and a nonce expire.  Without pages, an
  administrator's request and one that reads run while administrators change;
  four units let the call, the cached list, the body and the timestamp each take
  all the time they have.
* *Management*: two rows of one template and one of another tell the deletion of
  one row from that of all; two applications may be for one role and take turns,
  and two events are two steps of one of them or a step of each; three updates
  let a listener overlap start-up and another listener; three buckets are one
  fewer than two sources, an account and the process need.

Every counter that is bounded is bounded by a constant in a guard (`MaxChanges`,
`MaxFaults`, `MaxPackets`, `MaxRefreshes`, `MaxPrompts`, `MaxEvents`, `MaxPanics`,
`MaxRequests`, `MaxTime`, `MaxRosters`, `MaxLists`, `MaxAttempts`, ...), and the
theorems hold for every value.  Handlers, session ids, administrators' requests and
applications are interchangeable, so runs without liveness use them as symmetry
sets.

Runs allow deadlock where the system may stop or its bounded time ends: a
connection or a client ends, and where the clock and the requests are used up
nothing is left to do.

## 4. Fairness

Each is what a scheduler, a timer or a time-out guarantees, and no more.

* `CacheSync!PollSpec`: weak fairness of `UpdateUsers` (the cron library keeps
  firing, and a query returns with rows or an error) and of `Bump` (a handler
  that wrote goes on to its bump).  Writes, faults and the administrator owe
  nothing.  `FairSpec` adds the five-minute entry.
* `AuthDecision!FairSpec`: each goroutine that can run is scheduled.
* `TacConn!FairSpec`: the same; a select that has a case ready again and again
  takes it in the long run; the timer expires; a write ends, since it has a
  deadline; a read of a closed connection fails.  The device need not send
  anything: a session that waits for the answer to a prompt may wait for ever
  while its connection lives.
* `ReportQueue!FairSpec`: worker, handlers and Stop run on; calls, pauses and
  the time-out of Stop end.  Nobody has to report or to stop the client.
* `Approvals!FairSpec`: the daemon and the sweeps keep running, time goes on.
  The start of each sweep is strongly fair, since a task waiting for
  `sync.RWMutex` is let in.  Nobody has to decide.
* `Accounts!FairSpec`: the daemon's tasks run in endless loops.
* `AccessPath!FairSpec`: a request under way is served; an open page that is seen
  or used loads and repeats its heartbeat.  `session.js` (:22-26) stops the
  heartbeat of a page that was hidden and unused for half an hour, so
  `PageFollowsAccount` is about pages in use.

## 5. Proofs

All are checked by TLAPS, from the assumptions on the constants named in each
module (`SyncAssumption`, `DecisionAssumption`, ...).  They say that bounds are
natural numbers, sets are finite and "no value" is not a value.

| Module | Theorems | Beyond the module's assumptions |
|---|---|---|
| `CacheSyncProofs` | `TypeCorrect`; `AckedSnapshotIsCurrent`; `PublishedSnapshotIsAtomic`; `RefreshPublishesCopies` (`CacheSync` implements `PublishedCopy`) | errors are seen (`Swallowed = {}`); the last two also `Triggers` |
| `AuthDecisionProofs` | `TypeCorrect`; `LoginsAreExact`; `PermitsWereGranted`; `CommandCacheIsCurrent`; `QuietCommandsAreExact` | |
| `TacConnProofs` | `TypeCorrect`; `TableIsExact`; `IdleTimerIsSafe`; `RepliesAreNotLost` | |
| `ReportQueueProofs` | `TypeCorrect`; `EventsAreAccountedFor`; `SentEventsAreStored`; `StopLeavesNothing` | |
| `ApprovalsProofs` | `TypeCorrect`; `RequestsAreDecidedOnce`; `DecidedRequestsStand`; `MergeIsExact` (a moment is inside a merged range exactly if some range holds just before it and some just after); `RolesAreGranted`; `WarningsAreTrue` | |
| `AccountsProofs` | `TypeCorrect`; `FailuresAreBounded`; `DisabledAccountsStay` | |
| `AccessPathProofs` | `TypeCorrect`; `RequestsAreHandledOnce`; `RevokedRequestsAreRefused`; `AdministratorsAreCurrent` | the last three: `NonceTTL > MaxSkewSeconds`, `AdminCacheTTL > 0` (600 s, 300 s and 30 s in the code) |
| `ManagementProofs` | `TypesAreCorrect`; `UpdatesDoAgree`; `WantedRolesAreKept`; `HeldTemplatesAreFixed`; `AloneKeepsTablesSound`; `LockOutsLast`; `BurstsAreBounded` | |

**CacheSync** (`SyncInv`).  `AckedIsCurrent` alone is not inductive: nothing in
it says what a running refresh has read.  `SyncInv` adds where the refresh is in
its loops (`LoopsInOrder`), that versions only grow and the acknowledged one is
strictly behind the one a running refresh started from (`VersionsOrdered`), and
the heart: as long as the version is the one the refresh started from and every
write was bumped (`Undisturbed`), the database is the one of that moment and
everything read so far agrees with it (`ReadsAgree`).  So when `Confirm` finds
the version unchanged, all reads agree.  The refinement follows: with triggers
the rows at `store` are those of `begun`, so `StoreSnapshot` maps to `Publish`,
the version that is acknowledged is current only if `begun` still is the
database (`Finish`), and every write revokes the certificate because it bumps.
Without the assumptions the statements are false, as `sync_swallowed` shows.

**AuthDecision** (`DecisionInv`).  Every entry of a password map, of any
generation, and every result in flight is `CheckPasswordHash` of its key; this
is inductive because the key holds all the computation depends on.  For commands
the key holds the names of the roles only, so the invariant is weaker: every
TRUE in any map was granted, in some published snapshot, to one of the roles in
its key, and what a handler holds was granted to its roles.

`CommandCacheAgrees` and `AuthorExactWhenQuiet` need to know who may still hold
something old (`ExactInv`).  While no refresh is under way and no straggler
outlived the last (`Fresh`), every handler that has still to write or to share a
result has the entry of the snapshot of now and, if it computes, the map of now;
only a handler that waits, or that looks into the map it loaded, may be behind,
and that one is not quiet (`HandlerFresh`).  The key of the cache names roles
only, so the step that stores or shares a result needs
`SameRolesSameAnswers`: one snapshot answers accounts with the same roles alike,
because `BuildUsers` reads each role once.

**TacConn** (`ConnInv`).  Its parts say what sessions not yet born look like
(`BirthInv`), that the table and the open done channels agree in both directions
(`RegistryInv`), when the timer can run and why `serve` may be about to return
(`TimerInv`), and that a session that is closed, or asks to be, has its reply or
an excuse (`ReplyInv`).  The last two need each other: the timer may close the
connection only when no session is open, and a session is open until it is
answered.

**ReportQueue** (`QueueInv`).  Batch and queue are an interval of the newest
accepted events (`InOrder`); what was attempted with the batch of the moment
bounds how often its events are stored (`StoredOrder`); the queue was empty and
closed when the worker ended, and closed queues take nothing (`StopOrder`).

**Approvals** (`DecisionInv`).  A request under review was not decided, and the
rows an expiry sweep listed are still passed, because the mutex keeps the other
sweep out and no decision touches a passed row.

`MergeIsExact` says what the loop of `mergeRangeTimes` returns, for any number of
ranges, in any order that is sorted by start.  Induction over the turns is
not available as such; instead the least turn after which the claim fails is
taken, and the turn before it refutes it (`LeastNumber`, `MergeAll`).
The claim (`MergedUpTo`) is that the ranges finished so far, with the current one,
lie in order with gaps between them, hold all that the ranges treated so far hold
and nothing else.  `SortExists` shows that the list to start from exists.
`DaemonInv` then carries this through the daemon's cycle: the ranges it has for
an account and a role merge requests that an administrator passed
(`RangesGranted`, `PassedRows`).  So a role is written only inside granted time
(`RolesAreGranted`), and a warning names an end that no other range continues,
since there is a gap behind every merged range (`WarningsAreTrue`).

**Accounts** (`AccountsInv`).  Failures counted plus requests that may still
count are at most three plus the number of requests (`Budget`); the
counter, an `int8`, stops at 127 instead of overflowing.

**AccessPath** (`AccessInv`).  At every stage a request carries what justifies
it (`Path`): it was allowed at some moment since it reached SwM, and if handled,
its nonce is held until its timestamp is too old (`Remembered`).  That needs
nonces to live longer than timestamps are accepted.  No wait is over its limit
(`InTime`), and each stage adds its limit to the age of the administrator's right
(`RecentAdmin`, `ListOrder`): the bound of `AdminIsCurrent` is their sum.

**Management**.  A step of the whole is a step of one part and leaves the others'
variables alone (`PartsMove`), so each part has an invariant of its own.

* *Duty* (`DutyInv`).  What an update under way wants lies between what all and
  what some updates of its episode want (`TargetsInRange`), and whom all want is
  not deleted by one that saw him on duty (`WantedStay`).  While somebody whom
  all want is missing, or somebody whom none wants is there, an update is under
  way and none has come as far as its bump; none can be refused its INSERT in the
  first case, and each has still its DELETE to do in the second
  (`MissingAreInserted`, `UnwantedAreDeleted`).  So when none is under way,
  neither is the case, which is `UpdatesAgree`.
* *Catalogue* (`CatalogueInv`).  For every request, what it consists of at each
  query (`Shape`), and that whatever its history `since` says held all along is in
  what its queries have read or will still be found by the next (`WantedAreSeen`,
  `HeldAreSeen`).  An application that passes from "under review" to "passed" between
  the two reads is in the first list; read the other way round it would be in
  neither.  What a request that ran alone has found is still so (`FindingsHold`).
  The three properties are about the steps that write, and read off these.
* *Limiter* (`LimiterInv`).  Lemmas relate the buckets before and after each of
  `getBucketLocked`, the clean-up, the eviction and the loops over the keys
  (`Keeps`, `Raised`): none shortens a lock-out, and each bucket goes on in its
  window, begins a new one after the old, or is forgotten long after it.  For
  `BurstIsBounded`, what passed in the window that began last is bounded by the
  bucket's count, and what passed in as long a stretch before it by the limit
  (`Sparse`).  A stretch as long as a window meets at most these two, hence the factor two.

Only model-checked.  Every invariant, every action property and the refinement
that the runs check is a listed theorem.  The liveness properties are not, since
fairness and `ENABLED` are out of the prover's reach: `EventuallyConsistent`,
`RequestsComplete`, `ConnectionEnds`, `IdleConnectionCloses`, `QueueDrains`,
`RolesSettle`, `RequestsClose`, `StatusFollowsPassword`, `PageFollowsAccount`.

## 6. What the checks and the modelling found

One disagreement is kept as a run that TLC refutes:

1. *Unseen query errors are acknowledged* (`sync_swallowed`).  The run lets only
   the template queries lose rows.  The first refresh finds the role, the query
   for its server templates fails (user.go:85; :94 for commands is alike) and is
   taken for an empty answer, and nothing else goes wrong: the snapshot in which
   the role permits nothing is published and its version acknowledged.  The
   comment at user.go:217-220 promises a retry at the next poll.  The other
   queries of `Swallowed` lose rows in the same way.

What follows was met while modelling.  The models contain each, and the
properties are worded so as to hold with them.

Edge client
* A handler that holds roles of the old snapshot can write its decision into the
  new command cache (user.go:282, :300), where it answers until the next
  refresh, against README.md:1188 and :1190.  `AuthorExactWhenQuiet` speaks of
  untainted refreshes for this reason.
* The idle timer is created when the first session ends (conn.go:553), against
  the comment at conn.go:266: a connection that never had a session has none.
* Stop of the report queue gives up after five seconds, though one batch may take
  longer with its retries; a panic in `sendBulk` loses its batch, counted only
  as a worker panic; events beyond the soft limit are dropped and counted.
* The comment at cmd/client/client.go:118 says no event is reported once the
  listener is stopped, but connections outlive `TacPlusSystem.Stop`;
  `FlushIsComplete` shows that the queue copes.

Approvals and roles
* `checkCreateTimeTimeout` (approvalSystem.go:65) can overwrite a decision made
  after it listed the request; `DecisionsStand` allows exactly this.
* Time-outs and ends are announced also when their update failed (:65, :86).
* In the first round after a start, a failed query of approvals makes the daemon
  write an empty role column for everyone, until the next round.

Accounts
* Pause and restore write by a snapshot: an account disabled in between may be
  enabled again, against the comment at tacacs_user.go:124-125.  `DisabledStays`
  begins once the daemon knows.
* `UpdateUserNotes` also sets the time of the password's last change.
* `CheckPasswordTimeout` and `CheckPasswordUnTimeout` parse local time as UTC
  (permissionSystem.go:254, :353), which shifts the limit by the zone's offset.
* `ResetUserPassword` clears one of the two failure counters.

Request path
* A former administrator's request can be handled after the 30 s of the cached list
  and the 300 s of the timestamp: the list is stamped when it comes, up to 15 s
  after it was read, and a body may take 30 s between the check and the signature.
  `AdminIsCurrent` gives the sum as the bound.
* `GetTacacsAdminUser` returns an empty list on a database error, so SwM caches
  "no administrators" for 30 s, while an unreachable server keeps the old list.
* A request or heartbeat in flight saves the session cookie again after a logout.
* Go's transport may send a signed GET twice; the replay is refused.  The nonce
  store is lost by a restart of the server: `HandledOnce` speaks of one run.

Catalogue, duty list, limiter
* Neither role templates nor server and command templates have a unique key, so
  overlapping requests may add duplicates; `AloneKeepsSound` speaks of requests
  that run alone.
* Between the two queries of `httpApiRoleDelete` (handler_role.go:145-146) one
  application for the role may appear under review and another, passed, come to
  its end: neither list has the role, which is deleted though it was in use all the
  while, against the comment at :144.  `WantedRoleIsKept` speaks of one application.
* The checks of use compare a role's whole list with one template's name:
  templates in lists of several are not protected.
* `IsTemplateOnlyServer` lets a template with several rows be deleted by name
  while roles refer to it; `IsTemplateOnlyCommand` has a quoted `'?'`, always
  fails and takes the template for the only one, against its comment.
* `Add...Templates` stops at the first row that fails without a bump.
  `CoverTacacsOnDutyUser` returns without a bump when its INSERT fails after its
  DELETE, and the next update, finding nothing to do, does not bump either.
* A change of the roster between `GetConfig` and `AddChangeListener` is not
  delivered, and somebody removed from the white list stays on duty until the
  next change of the roster (README.md:980-981 reads otherwise).
* A success of another login in flight from the same source ends its lock-out;
  when all buckets are taken, a new key is admitted without one.

## 7. What is not modelled

* *Packet codec* (`packet.go`, `struct.go`): byte layouts and a pad; a pure
  conversion that its own tests cover.
* *Protocol client* (`client.go`) and *semaphore*: no program of the repository
  calls them.
* *Accept loop and PROXY protocol*: one goroutine per connection, no shared
  state beyond the listener.
* *Log store and log queries*: text of queries and streaming of rows of a
  remote store.
* *System and log handlers* (`handler_system.go`): read, validate and write one
  row, then tell the log store; if that fails the row stays written
  (:190-197), which the answer reports.
* *Notifications and cards*: remote calls and layout; the callback that decides
  requests is in `Approvals`.
* *CSRF, routing, static pages*: stateless checks and presentation.
* *Configuration, logging, start-up, generated code*: I/O and one-time set-up.
* `UpsertMiscBatch` takes row locks in the order of a Go map, so that two calls
  at once may deadlock in MySQL, which ends one of them with an error; not
  modelled, as locks of rows are not.
* Accounting requests are answered with success whatever happens.
* In `CacheSync` and `TacConn` time is order only: two seconds, five minutes and
  the idle time-out are "at some later moment".  The other models have a clock
  in units that separate their limits.

## 8. Plan

All invariants and action properties of the runs are proved.  What is left:

1. For the liveness properties, the facts about single steps that their
   arguments rest on, which are safety: that a goroutine or a daemon has a measure
   which no step of another raises (`TacConn`, `ReportQueue`, `CacheSync`).
2. `LoginDialogue`: prompts, aborts and retries of one login, composed with the
   rule of `AuthDecision`.
3. The writers of `Catalogue` and `OnDuty` with their bumps, composed with
   `CacheSync`.
4. An abstract limiter that `LoginLimiter` implements, if the front end gets a
   second one.
