# A TLA+ model of fastapi-best-architecture

The back end under `src/backend` is an administration server: FastAPI
processes, Celery workers and one Celery beat share a database and a Redis.
Several of its guarantees are kept by protocols over Redis keys, by asyncio
tasks and by the order of a cache deletion and a commit. These specifications
model those protocols, together with the algorithms and services around them; TLC
checks them on small instances, and TLAPS proves what the runs check for every instance,
but for liveness, the table of routes and the algorithms that recurse over their input.

Contents: [inventory](#1-inventory), [modules](#2-modules-and-the-code-they-model),
[runs](#3-runs-bounds-and-what-they-show), [fairness](#4-fairness),
[proofs](#5-what-is-proved), [findings](#6-disagreements-between-the-code-and-its-documentation),
[limits](#7-what-is-only-checked-and-what-is-not-modelled), [plan](#8-plan).

## 1. Inventory

| Component | State | Operations | What is hard | What makes it correct |
|---|---|---|---|---|
| Snowflake ID service, `utils/snowflake.py` | node keys with a lifetime in Redis; sequence and last timestamp in memory; a thread lock | lease a node, heartbeat, release, generate | two processes scanning at once, lost heartbeats, crashes, clock steps, threads, a used-up millisecond | a node has one running owner; IDs increase and are unique |
| Token sessions, `common/security/token.py`, `auth_service.py`, `user_service.py`, `plugin/oauth2` | access, refresh and extra keys; the index of a user's sessions, the swagger sessions, the set of online users; `is_multi_login` in the user's row | login (three kinds), refresh, logout, forced logout, password reset and change, deletion, toggle of `is_multi_login` | every await is a place where another request of the same user runs; pipelines, row lock and commit are separate steps; keys expire; requests fail half way | a revocation leaves no older token; a session is in the index while it lives; a user without `is_multi_login` has one session; a refresh token works once |
| User cache and authorisation data, `admin/utils/cache.py`, `get_jwt_user`, the services of users, roles, menus, scopes, rules, departments | one cached record per user with all it grants; rows and four association tables | authenticate; update, delete, relink; clear by user, role, menu, scope, rule | the clear precedes the commit; a record read before a write is cached after it; which links still exist when the users to clear are looked up | no record outlives the write that made it wrong, except through a race, and none for ever |
| Operation log, `common/queue.py`, `opera_log_middleware.py`, `registrar.py` | a bounded queue, a batch, the stop event | put, collect, store, stop, drain, cancel | full queue, failing handler, two nested timeouts, shutdown while starting | logs are stored in order, once; a stop drains; a stop ends |
| Beat scheduler, `task/utils/schedulers.py` | entries in memory, dirty names, `last_update` and the lock in Redis, rows | tick, reload, reserve, save, disable, take and extend the lock | change detection by second, one-off tasks, two beats, a paused beat | one beat is inside a tick; a task is not run twice in an interval; a change is seen |
| Login security, `user_password_history_service.py`, `captcha.py` | failure counter, lock, captchas, settings, password history | give a captcha, check it, count, lock, reset, change the address | read-modify-write of the counter, a captcha read and then deleted, expiry, settings changed under way | the threshold locks; a captcha works once |
| RBAC and data permission, `rbac.py`, `permission.py` | none of their own | verify, filter, build the sidebar | order of the checks, combination of rules, empty lists | what is granted is what the roles say |
| Trees, `build_tree.py`, dept and menu services | parent links | create, move, delete, build | moves that close a circle, parents that were filtered out, concurrent moves | the tree shows every row, at its place |
| Rows of the administration: users, roles, menus, scopes, rules, dictionaries, settings, code generation | tables without foreign keys | create, update, delete, link | a service looks up what it depends on, and others commit before it writes | rows refer to live rows; look-ups answer for the unique keys |
| Plugins, `plugin/core.py`, `installer.py`, `status.py`, `locks.py` | directories, `.env` and router files, information in Redis, the reload lock and its file | validate, order, inject, install, uninstall, switch, start | circles, lock expiry, concurrent switches, a restart during one | dependencies come first; shared files lose nothing; a change is announced |
| OAuth2 state and bindings | state keys, social accounts | begin, call back, bind, unbind | a state used twice, a user deleted under way | a state works once; an account has a live user |
| Socket.IO online state | sids per session, their lifetime, the set of online users | connect, disconnect, be disconnected, list | connecting during a revocation, a server that dies | no socket of a revoked session; the list is true |
| API routes and request pipeline | the table of routes | authenticate, limit, check, serve, answer, log, count | the order of dependencies and of paths, failures at every stage | who may call is who is served; answer, transaction, log and metrics agree |
| Dynamic configuration | settings of the process, rows of `sys_config` | load | settings changed during a request | |
| Infrastructure: pages, joins, connections | none of their own | page, nest the rows of a join | multiplied rows | nested results are what the links say |
| Async helper, command line, notices, sending mail | an event loop in a thread, files | I/O | | |

How they interact: a request passes `JwtAuthMiddleware`, which checks the access
key of TokenSessions and takes the record from UserCache; its service changes
rows, revokes sessions and clears records, and the transaction of the request
commits when the handler has returned (`CurrentSessionTransaction`); on the way
out `OperaLogMiddleware` puts its log into the queue. The lifespan of the
application leases the snowflake node, starts the consumer of the queue and ends
both in the reverse order. The beat process has its own lock and leases a node
of its own. A start validates and orders the plugins, injects their routers and runs
their hooks; an installation holds the reload lock so that the watcher does not
restart the process under it. A revocation disconnects the sockets of its sessions.

`PROJECT.json` lists every component, the hazards at their lines and the
properties that cover them, and the lines each definition stands for.

## 2. Modules and the code they model

**Snowflake** (`utils/snowflake.py`). A member of `Procs` is one life of a
process. `Scan`, `Register`, `RegisterTaken`, `Exhausted` are
`acquire_node_id`: the scan is a snapshot of the keys, the tries with SET NX come
after it one by one. `Heartbeat` extends the key, `HeartbeatFails` logs the
error, `Shutdown` is `release`, `Crash` loses the memory and leaves the key.
`Enter`, `NextSequence`, `TillNextMs`, `Return` are `generate` with its three
places of waiting: the lock, a clock behind `last_timestamp`, a used-up
sequence. `ClockForward`, `ClockBack` and `HeartbeatInterval` are time:
milliseconds and heartbeat intervals are two grains of one clock. `Pack` is the
64-bit composition, with the epoch as 0 and the datacenter and worker numbers as
one node number. A heartbeat interval that ends before the previous heartbeat
was sent stands for an event loop that was blocked.

**TokenSessions** (`common/security/token.py` and its callers). The state is the
Redis keys of one user and `is_multi_login`, committed and in flight. An
operation is one request; `pc` is the await it stands at. Sessions are named by
the login that created them, tokens by the request that wrote them, so that
comparing two tokens is comparing two names. `BeginLogin` to `LockUpdate` are the
ways into the token functions; `ReadIndex`, `Probe`, `Prune` are
`get_user_sessions`; `ReadSwagger` is the rest of `revoke_user_tokens`;
`DeleteKeys`, `RemoveMembers`, `CheckIndex`, `Unlist` are `_revoke_sessions`; the branch of
`get_user_sessions` for swagger sessions in the index is left out, as nothing puts them there now;
`Redeem`, `WriteAccess`, `WriteRefresh` are the writers. Abstractions: a
pipeline is one step (one write to Redis, executed together), so are the
concurrent MGETs and SREMs of a gather; the database is READ COMMITTED, and the
UPDATE of the user's row makes other UPDATEs of the row wait until the request
ends. Resets stand for the three requests that revoke everything.

**UserCache** (`admin/utils/cache.py`, `user_service.get_jwt_user`, the writing
services). `db` is the committed database: a state per row and the four
association tables as one relation. `Grants` is what a record read with
`get_join` gives, reduced to the rows in force. A write is `Write`, `Clear`,
`Commit` or `Rollback`; a request is `Arrive`, `GetHit` or `GetMiss`, `Read` or
`Deny`, `Set`. `Cleared` follows the joins of the five clear functions on the
database as the writer's own transaction sees it, which is what makes the
deletion of a menu clear nobody. A change of a row's content is the same as
switching it: the record grants something else than the row does.

**OperaLogQueue** (`common/queue.py`, `opera_log_middleware.py`,
`registrar.register_init`). Logs are numbered. A step is what runs between two
suspensions on the event loop: the collector takes everything it can at once,
because `get()` of a queue that is not empty does not suspend. `AfterCollect` is
the choice between handling, leaving and waiting on; `DequeueTimeout` the outer
timeout; `Handle` and `HandleFails` the handler with its `finally`; `Stop`,
`DrainTimeout`, `StopEnds` are `stop_consumer`, whose timeout is taken to be
longer than the interval at which the collector looks at the stop event (10 and
1 seconds).

**LogDelivery** is the abstract specification of the operation log: logs are
accepted or turned away, and what was accepted is settled from the oldest on, a
batch at a time, stored or discarded as a whole. `OperaLogQueue!Delivery` maps
the batch and the queue, concatenated, to its pending logs.

**BeatScheduler** (`task/utils/schedulers.py`, `task/model/scheduler.py`,
`task/service/scheduler_service.py`). A member of `Beats` is one life of a beat
process, `sched`, `heap`, `dirty` and `checked` are its `_schedule`, Celery's
heap, `_dirty` and `_last_update`, `built` that `_heap` is not None, `invalid` is
`_heap_invalidated`. `Setup` and `Acquire` are the start: the rows
are read before the lock is asked for. A tick is `Extend` (or `ExtendFails`,
which ends the process); then up to three looks at `schedule`, for the comparison
(`FirstTick` leaves it out, as there is no heap yet), for the copy and in
`populate_heap`, each a `Check` or a `CheckChanged`, which saves, reads the rows again
(`Load`) and goes on at `after`; the second and third come only with a heap that has to
be built, by `Build`; and then one of `Dispatch`, `EndOneOff` and
`NotDue` for the first entry of the heap and no other. An entry of `_schedule` keeps the run
it was read with (its field `entry`), because `reserve` puts the successor into
the heap alone; the model that both share has the last run (`last`). `SyncSave`,
`SyncReload`, `SyncFails`, `SyncDone` are `sync`, which looks at `schedule` for
every name; `Close` and `Exit` are the end by a signal, `Crash` any other end.
`Edit`, `Stamp`, `Announce`, `Commit` are a request that changes a row: the
listener's task and the commit are in either order. `Trunc` is the format of
`last_update`, which has no fraction of a second. `again`, `unseen`, `missed`,
`lost`, `late`, `lapsed`, `between` and `readWhile` record what the properties speak of. The loop
around `tick`, the heap and the moment of a sync are Celery's and are modelled
from how the scheduler uses and overrides them.

**LoginSecurity** (`auth_service.py`, `user_password_history_service.py`, the captcha
endpoints, `dynamic_config.py`). An attempt is `Begin`, `CheckCaptcha`, `SpendCaptcha`,
`CheckStatus`, `DropLock` and `DropFailures` of an expired lock, `UserVerify`, and for
a wrong password `ReadCount`, `StoreCount`, `SetLock`, each of them a command to Redis. A
change of the address shares the captcha steps. `LoadConfig` is inside the steps that call
it, so that `EditConfig` falls between two looks of one attempt.

**OAuth2Bindings** (`plugin/oauth2`). `GetAuthUrl` and `GetBindingAuthUrl` leave a state,
`Callback` to `SpendState` read and delete it, `Login` looks up bindings and users and
decides, `Commit` writes. `DeleteUser` takes the bindings along, as `crud_user.delete` does.

**PluginLifecycle** (`plugin/installer.py`, `core.py`, `status.py`, `utils/locks.py`,
`plugin_service.py`, `code_gen_service.py`). A job is a request or the start of a process.
`AcquireDistributedReloadLock` to `Release` is an installation or a generation, with the file it
reads and writes back: a zip (`Extract`) is refused under the lock when the plugin is there, a
repository (`Clone`) before the lock is asked for (`Begin`), and `Unpacks` may fail half way.
`RemovePlugin`, `ForgetPlugin`, `TellChanged` are an uninstallation; `ReadStatus`,
`WriteStatus`, `TellChanged` a switch; what raises during a removal, or before the notice is
given, ends the request where it is (`GivesUp`). A start is `Scan`; then twice, for the routers
of all plugins and for the hooks of the enabled ones, `Clean`, which deletes the notice, and
`ReadPluginConfig`, `WritePluginConfig` for each plugin, which write the status back as it was
read, and `ResetChanged`; with `BuildFinalRouter` after the first and `GetEnabledPlugins` in
between. `Started` ends it; `StartFails` is whatever raises at any of these places, such as
`load_plugin_config`, `validate_plugin_config` and `resolve_plugin_order`, which come after the
notice was deleted. `untold` records the changes nobody will hear of.

**OnlineSessions** (`common/socketio/server.py`, the end of `token.py`,
`monitor/online.py`). A socket is `Authenticate`, `SetSid`, `AddSid`, `ReadTtl`, `SetTtl`,
and on its end `GetSid`, `DelSid`, `RemoveSid`, `ReadRest`, `ProbeRest`, `DropStale`. A
revocation is `ReadSids` to `StartKicks`, the monitor `ReadUsers` to `RemoveUser`, `Crash`
the death of the server. Time has three instants: an access token of a login
lasts to the first, one of a refresh to the second.

**AdminRows** (the services and CRUD modules of departments, menus, roles, scopes, rules,
users, dictionaries, settings, businesses and columns). A request looks things up and
plans a write; `Commit` or `RollBack` makes it. The database waits for rows and keys that
another transaction changed, so the second step is taken whole; what was
committed between the two steps is what the services do not see. `Clash` is the
unique keys, `Renames` and `Taken` the look-ups in front of them. Deletion is a flag.

**Trees**, **Sidebar**, **Authorisation**, **JoinSerialize**, **Paging**, **PluginStart**,
**Requirements**, **Routes**, **RequestPipeline** hold no state: they are the algorithms as
operators, each with the reference it is compared with at the end of the module. `Trees` is
`build_tree.py` (traversal, recursive, and the one of the front end); `Sidebar` the menus a user
is shown, as such a tree; `Authorisation` is `rbac_verify` and `filter_data_permission`, with
the types of users, roles, menus, scopes and rules; `JoinSerialize` nests the rows of a join as
`select_join_serialize` does, and `LeftJoin` makes these rows from links; `Paging` cuts pages
and links them; `PluginStart` validates, parses, orders and injects plugins and runs their
hooks; `Requirements` walks the metadata of installed distributions. `Routes` is the table of
the 138 endpoints with their dependencies in the order of registration, and the choice of one
for a path; `RequestPipeline` takes a request through the middlewares, authentication, limits,
permissions, handler and exception handlers to its answer, its log and its count. The
dependencies of an endpoint are resolved in order, so the request ends with the failure of the
first that fails (`Resolve`, `Dependencies`). The callbacks of OAuth2 (`Redirecting`) commit and
answer with a redirect; the operation log parses a body before the request goes on, unless it is
too large or left out of the log (`Unparsable`), and then it is the endpoint's own parse that
refuses it; an authentication that raises anything is answered with the attribute `code` of
that, and with a `code` that is no number by the outermost handler (`auth_exception_handler`).

**Decisions** puts these last three to use: a step asks whether a user passes a check, what a
rule more makes him see of a table, or what becomes of a request for an endpoint. The users,
checks, rules, tables, requests and the table of endpoints are its constants.

**PluginOrder** is `resolve_plugin_order` once more, as a state machine: a step is what `visit`
does between two calls of itself. `visiting` is the list of that name, `met[n]` how far
the loop over the dependencies of `n` has come, `ordered_plugins` the result, whose names are
also `visited`; a plugin without `depends_on` is one with an empty list. `PluginStart` has the
same function as a recursive operator, inside a whole start; the walk can be proved for any
plugins.

**Services** puts `AdminRows`, `LoginSecurity`, `OAuth2Bindings`, `PluginLifecycle`,
`OnlineSessions` and `PluginOrder` side by side, each instantiated whole: they share no state, so a
behaviour belongs to one of them, its `part`, and the variables of the others have the value `None`.

**MCSnowflake**, **MCTokenSessions**, **MCUserCache**, **MCBeatScheduler** and **MCRequests** (for
`Services`) give TLC the symmetry sets, the casts and the constant functions;
`OperaLogQueue` needs none. **MCDecisions** gives `Decisions` the 138 endpoints of the
repository, users and requests; **MCAlgorithms** adds to its steps those that pick one of the
recursive algorithms and one of its inputs.

**SnowflakeProofs**, **TokenSessionsProofs**, **OperaLogQueueProofs**, **BeatSchedulerProofs**,
**UserCacheProofs**, **AdminRowsProofs**, **DecisionsProofs** and **ServicesProofs** hold the
theorems; the last also those about `LoginSecurity`, `OAuth2Bindings`, `PluginLifecycle`,
`OnlineSessions` and `PluginOrder`.

## 3. Runs, bounds and what they show

| Run | Bounds | Properties |
|---|---|---|
| `snowflake` | 3 process lives, 2 threads each, 2 nodes, 2 sequence numbers per millisecond, a key of 2 heartbeat intervals, clock to 2, 3 IDs, 1 clock step; `Bounds`: a clock step or a lapsed node, not both, and the third process only within a millisecond | `TypeOK`, `NodeExclusive`, `IdsIncrease`, `IdsUnique` |
| `token_sessions` | one of the casts of `MCCasts`: four of 2 password logins, a refresh, a logout and a revocation of everything, with 1 expiry; an OAuth2 and a swagger login, 2 refreshes and a toggle, with 1 request that fails; 6 casts of four requests in which the other kinds of request meet | `TypeOK`, `RevokeComplete`, `SessionListed`, `LogoutFinal`, `SingleSession`, `RedeemOnce`, `PairIntact` |
| `token_revoke_all` | 2 logins, a refresh, a reset | `RevokesEverySession`, violated |
| `user_cache` | 1 row of each kind, 2 writes, 2 requests | `CacheFresh`, `EventuallyFresh` |
| `user_cache_dept` | the same, 1 write | `DeptLockRefuses`, violated |
| `user_cache_menu` | the same, 1 write | `MenuDeleteClears`, violated |
| `opera_log` | 6 logs, queue of 3, batches of 2 | `TypeOK`, `Balanced`, `DrainedBeforeExit`, `Delivery`, `EventuallySettled`, `StopTerminates` |
| `beat` | 2 beats and no edit; 1 beat and 1 edit; 1 beat and 2 edits of the interval task; in the first two an interval task (2 instants) and a one-off task (1); 2 instants in a second, a lock of 2, clock to 3, 1 failed save | `TypeOK`, `LockExclusive`, `LateDispatch`, `RunsSpaced`, `ChangesNoticed` |
| `beat_one_off` | 1 beat, an interval task and a one-off task, no edit, clock to 4 | `OneOffLeaves`, violated |
| `requests` | 3 interchangeable callers. Rows: 7 scenes of two to five rows, 2 requests; login: 3 attempts, or 2 changes of address, a threshold of 2, 2 captchas of a key, 1 expiry, 1 edit; OAuth2: 2 users, 2 accounts, 2 states, 1 deletion; plugins: 2 plugins, 1 expiry or lost key, and a start that overlaps a job only with one other job begun (`Bounds`); online: 2 sockets and a revocation, or a socket, a revocation, the monitor and 1 crash, or 2 logins, a revocation and the monitor, or a socket and 2 revocations of its session; order: 3 plugins, each with any list of up to 2 of 4 names as its dependencies | `Anchored`, `ChecksSuffice`, `SpentOnce`, `LockHolds`, `BoundToLive`, `FilesKept`, `PluginsLoaded`, `SocketsFollow` |
| `algorithms` | 145 705 inputs. Decisions: users with up to 2 roles over 3 menus, and every check; users whose roles have up to 2 of 6 scopes, 36 rules more, 9 rows; each of 138 endpoints for 7 callers and every end, in two environments. Algorithms: four rows under each other, under none or under a missing one, in 3 sort orders; joins of 2 users, roles, menus, scopes, rules with a few links and deleted rows; pages of 3 users; 3 plugins with all dependencies and every defect; 2 installed distributions | `AccessRight`, `FilterRight`, `RoutesRight`, `RequestsRight`, `TreesRight`, `JoinsFaithful`, `PagesTrue`, `StartsRight` |
| `now_variable` | the decisions of `algorithms` | `NowRight`, violated |

Why these bounds reach the cases. Two processes and two nodes make a node free,
taken, lapsed and reused; two sequence numbers make the wrap happen with the
second ID of a millisecond; three IDs are one more than that. A third process
finds both nodes taken, or takes over a node that changed hands before. In the token run
every two kinds of request are together in one of the casts, and each request
stops at every await; the interesting
interleavings need two sessions and three requests. One row of each kind is
enough for the cache, because `Cleared` and `Grants` follow single paths of
links; two writes give a write that races a reader and one that changes the path.
A queue of 3 with batches of 2 is full, holds a full and a partial batch, and
needs two batches to drain. `Casts` runs three small scenarios of the beat in one
run: with two beats the lock expires, is taken over and is lost by a stalled process; with
one beat an edit falls between any two
steps of a tick or a sync, before or after its announcement; two edits of a task
give one that hides another. Two instants in a second and a clock to 3 are two
seconds, so that an announcement falls in the second of a look and in the next.
In `requests` two requests are enough for the rows, since a look-up misses what one other
commits; a threshold of 2 needs a third attempt to be exceeded; two sockets make one that leaves
while the other keeps the set; two revocations of one
session meet at every step; three jobs hold, wait for and inherit the lock. Four rows
make a circle of two or three with rows below it and beside it. Three plugins make a chain
and a circle.
Deadlock is not checked: all runs end when the bounded requests are used up, and the
application itself may stop. The joined runs exist because their parts ask one question of
many services; each property names its part or algorithm first.

What the weakened conclusions say. `RevokeComplete`, `SessionListed` and `SingleSession` exclude
the sessions whose writer was `Disturbed`, that is, ran while some request shrank the index;
`token_revoke_all` shows why. `LogoutFinal`, `RedeemOnce` and `PairIntact` exclude requests that
overlap, as the code has no guard between the comparison and the write. `CacheFresh` excludes
readers that overlap a write, and the two services that clear nobody. `IdsUnique` excludes a
clock step, a lapsed node and an ID in the very millisecond in which the node changed hands. In
`requests`, `Anchored` and `ChecksSuffice` exclude what two overlapping requests both changed;
`BoundToLive` a user deleted between asking for a binding and its commit; `SpentOnce` the
requests that were already past the look at a captcha or state when it was deleted; `LockHolds`
attempts that were past the look at the lock together; `FilesKept` a lock that expired under its
holder; `PluginsLoaded` a start among the jobs, a plugin whose installation, removal or
switching failed half way or whose key is lost, and the changes that waited when a start failed
that had deleted their notice; `SocketsFollow` a socket added behind the revocation's back, one
that outlives its token, a set whose lifetime two connects shortened, and, until it ends, one
that another revocation of the session is still to disconnect. The history variables `raced`,
`seen`, `mixed`, `untold`, `overrun`, `missed`, `hidden`, `cut` record these cases and nothing
else reads them.

The algorithms have no such exclusions, but say what the code does where one might expect
something else: the tree leaves out the rows on a circle (`TreeRight`); the pages count users
and not rows of the join (`UserPagesTrue`); a user whose enabled roles have no menu at all is
shown everybody's sidebar (`SidebarOwn`); an answer of the failing kind is logged with the code
200, a request whose body is no JSON is not logged at all, unless the log leaves bodies of its
size or path out, and an endpoint that takes no body runs even with a malformed one
(`AnswerRight`).

`RunsSpaced` says when a task runs again too soon: its last run was forgotten (a failed save, a
schedule replaced during the sync, the death of the process) or overwritten, or it was made by
another beat that had not ended when this one read the rows, or the beat built its heap a second
time from entries that do not know the run. The last happens to one beat and without any
failure: a change found by the copy or by `populate_heap` leaves the heap invalidated, so when
the tick has dispatched a task the next builds it again, from a `_schedule` in which `reserve`
has noted nothing. `ChangesNoticed` excludes what the beat cannot know: edits that are not
announced, which deletions never are, or not committed, edits announced in the second of its
last look or before their commit, and edits announced since. TLC refutes either property with
any alternative of its conclusion left out.

Each property has a mutant in the module: an operator next to the one it
replaces, named in a comment, such as SET without NX, an unmasked sequence, a
refresh token left behind by a revocation, a consumer that leaves without
draining. TLC reports the property violated with the mutant in place.

## 4. Fairness

`UserCache`: weak fairness of `Expire(u)` only, because Redis expires keys
whatever the application does; requests and writes have none, they need not come.
`OperaLogQueue`: weak fairness of the consumer's own steps, of the timeouts and
of `StopEnds`, because the event loop runs what is ready and its timers fire; for
the handler only that it returns or raises. Nothing is assumed of requests or of
a stop. The other modules state safety only: requests need not come or end, and a beat
may be stalled for any time, which is what its lock has a lifetime for.

## 5. What is proved

`SnowflakeProofs`, for all processes, threads, nodes, sequence sizes, tolerances
and lifetimes, from `SnowflakeAssumption`:

- `SnowflakeTypeOK`, `SnowflakeNodeExclusive`, `SnowflakeIdsIncrease`,
  `SnowflakeIdsUnique`.
- The invariant `IInv` adds what the properties need to be inductive: a running
  owner's key is alive unless its node lapsed (`LeaseNext`); the thread inside
  `generate` holds the lock and its timestamp is not below the last one; every ID
  of a process is below the (last timestamp, sequence) pair it will continue from
  (`GenNext`); IDs keep the node of their process (`NodeOfIdNext`); timestamps lie
  between the birth of the process and the clock until the clock is stepped back
  (`InTimeNext`); on a node that never lapsed, processes succeed one another
  (`SuccessionNext`). Uniqueness of the 64-bit values then rests on `PackInjective`,
  the uniqueness of a number's digits.

`TokenSessionsProofs`, for all logins, refreshes, logouts, revocations, casts and numbers of
expiries and failures, from `TokenAssumption` (the kinds of request are disjoint): every
property of the run `token_sessions`.

- `Base` is `TypeOK` with what makes it inductive: the steps each kind of request takes
  (`Ways`), that a token in Redis is of a request past writing it and of its session
  (`Named`), that what ended stays ended (`Past`). `Frame` says once for all steps what a
  request's step leaves alone; most lemmas need nothing else of the other requests.
- `TokenRedeemOnce`, from `Redeemed`: after a refresh its token is in Redis no more,
  and who still asks for it with success began before.
- `TokenLogoutFinal`, from `Logged`: between the deletion of the keys and ever after a session
  that lives has a request that met the logout.
- `TokenPairIntact`, from `Paired`: neither writer of a session's two tokens came after the
  other, unless the later one is between its pipelines or failed there.
- `TokenSessionListed`, `TokenSingleSession`, `TokenRevokeComplete`, from `Listed`: a written
  session is in the index, with its user online, or its writer was *shaken*: a request ran
  with it that shrinks the index. `Accounts` follows what a reader of the index knows of the
  sessions written before it began, from the snapshot to the deletion and on: it has found
  each, or its writer was shaken. So the pipeline that prunes from a stale snapshot, and the
  removal of a user whose index was empty a moment ago, harm only writers that were shaken.
  `SwaggerListed` does the same for swagger sessions, which nothing prunes: there the revocation
  has no exception.

`OperaLogQueueProofs`, for all queue and batch sizes and numbers of logs, from
`QueueAssumption`:

- `QueueTypeOK`, `QueueBalanced`, `QueueDrained` from the invariant
  `TypeOK /\ Balanced /\ Accounted`. `Accounted` says that every log put is
  stored, dropped, lost, in the batch or in the queue, and that the stop event is
  only set once the stop has begun: without it, leaving with an empty queue would
  say nothing about the logs put before the stop.
- `QueueImplements`: every step of the queue is a step of `LogDelivery` or leaves
  its variables alone. The lemmas on sequences (`MoveItems`, `HeadOfConcat`,
  `SettleBatch`) say that taking items from the queue into the batch does not change
  their concatenation, and that a handled batch is its head.

`BeatSchedulerProofs`, for all beats, edits, tasks, intervals and lifetimes of the
lock, from `BeatAssumption`:

- `BeatLockExclusive`, `BeatLateDispatch` from an invariant of two parts. `Held`: a
  held key has time to live, and who is inside a tick has the lock or has seen it
  expire. `OnTime`: a beat that has the lock, is inside a tick or has not yet taken it
  has dispatched nothing without it, and no beat more than one task: without this a
  beat that was late could come back for a second late dispatch.
- `QuietStep` proves all steps that leave the lock alone at once: they enter a tick
  only from a tick. The remaining cases are taking, extending and releasing the lock, the
  dispatch, and the clock.
- `BeatTypeOK` from `Types`, which adds that a heap that is built has the schedule's
  entries, and `BeatChangesNoticed` from `Notice`: no announcement is later than the running
  second (`Stamped`), an edit announced before its commit was missed by all (`Early`), a beat
  that was told of an edit it has not missed will find a change at its next look (`Hears`), and
  any beat that can come to serve its heap without a reload knows its rows (`Knows`).
- `BeatFresh`: an entry of the heap, or of a `_schedule` that a heap is about to be built from,
  knows the last run its beat knows of, unless the rows were last read between the comparison and
  the building (`Fresh`).
- `BeatRunsSpaced` from `Runs` and `Fresh`: the last run of a task is in its row, or forgotten,
  or the beat that made it has still to save it (`Traced`); an entry that does not know the last
  run is another beat's, which had not ended when the rows were read (`Recalled`); two requests
  never change one row together (`RowLocks`). The attempt showed that `lost` was recorded too
  narrowly: a beat that saves an entry with the instant the row already has, but without the
  mark that it has run, wipes that mark. `Overwritten` now counts this; TLC's bounds had not
  reached it.

`UserCacheProofs`, for all users, rows, links, changes, writes and requests, from
`UserCacheAssumption`:

- `UserCacheFresh` and `UserCacheTypeOK`, from `TypeOK /\ Known /\ AllRight`. What a record
  says depends on a cone of rows: the user, the department, what the links reach from the
  user, and the links of that. A change outside the cone leaves the record right (`Outside`,
  `Unaffected`); one inside clears the user, unless its service clears nobody (`ConeCleared`).
  `AllRight` follows a record from the read to the cache and says of each reader that what
  it read is granted still, or a write that overlaps it, or clears nobody, accounts for
  the difference; and that a write which has cleared, began after the reader had ended and is
  yet to commit changes a row outside the cone or clears nobody (`Spared`).

`ServicesProofs`, for all values of the constants, from `ServicesAssumption` (the
assumptions of the six parts): every property of the run `requests`.

- The lemmas `LoginPart` to `OrderPart`: a behaviour of the composition is one of its part's
  specification, a step of another part being a stutter. They say nothing of the code; the theorems
  `ServicesLockHolds` and its likes use them to carry what is proved of a part over.
- Captchas and the lock, `LoginLockHolds`, `LoginCaptchaSpent`, `LoginTypeOK`, from `TypeOK /\
  Unspent /\ (mixed \/ Counted)`. `Unspent`: a code that is stored is the last one issued and
  was not spent. `Counted`: as long as attempts do not overlap, one at most is past the look at
  the lock, and the stored count falls behind the wrong passwords only by the one about to be
  stored.
- Bindings, `OAuth2StateSpent`, `OAuth2BoundToLive`, from `TypeOK /\ Known /\ Gone /\ Headed`.
  `Gone`: a spent state does not come back. `Headed`: on every place between a state and a row of
  bindings there is a user who is live, was deleted under way, or is about to be created.
- Plugins, `PluginFilesKept`, from `overrun \/ (Locked /\ Added)`: who is at work on the files
  holds the lock, its file is there, and what a job read of a shared file and will write back is
  what the file holds. `PluginChangesTold`, from `mixed \/ (Alone /\ Told /\ Found)`: a process
  starts while nobody else is at work; a plugin whose state is not the loaded one is announced,
  or owed an announcement by a job on its way (`Owes`), or in `untold`; and in each of its two
  passes a start has found what is there or has yet to read it. So the notice a start deletes is
  either taken up by what it loads or, when it fails, entered in `untold`.
- Sockets, `OnlineSocketsFollow`, from `OnlineInv`. `Keyed`: a connected socket whose token has
  not run out has its key, or is about to be disconnected (`Going`). `Grouped`: it is in its
  session's set, or about to be disconnected, or was missed by a revocation. `Spared`: no other
  socket's clean-up takes it for a dead one. `Lasting`: the set lives as long as the token,
  unless two connects raced for its lifetime. `Watched`: who takes the user off the list has
  seen no token, or one was written since.
- The order of plugins, `OrderOfPlugins`, from `OrderInv`, for any lists of plugins whose names
  differ. `Path`: the open visits are of different plugins, none of them ordered yet, and any
  numbering that puts plugins behind their dependencies (`Ranks`) falls along them; so a circle
  or a missing plugin leaves no such numbering. `Met`: what a visit has met is ordered, but for
  the last, which may be the next open visit. `Turned`: a plugin of the list whose turn has been
  is ordered, or is the outermost open visit.
- The attempt to prove `RevokedOffline` failed at first: with two revocations of one session
  the second can be done while the first, which emptied the set, has not yet disconnected its
  sockets. The property now says so, and the run has two revocations.

`AdminRowsProofs`, for all tables that are in order, all requests and names, from
`RowsAssumption`. `Whole` is what it asks of the tables a behaviour begins with: unique keys
respected, references and links from live rows to live rows of the right kind, no two live
menus of a title but for buttons, and dictionary data with its type's code.

- `RowsAnchored`, `RowsChecksSuffice` from `AdminInv`. Its core is `Planned`: for a request
  between its look-ups and its commit, `since` being what others have committed in between,
  what it will write is well formed (`Shaped`), what it refers to or relies on is as it was,
  or is in `since` (`Kept`), and the keys and titles it takes are free, or what took them is in
  `since` (`Free`). A commit of another request keeps that because it adds what it changes to
  `since` (`OthersGood`), and at the own commit what is in `since` is recorded as raced
  (`Overlapping`, `ClashMet`); unique keys are left to the database, `RollBackStep`.
- One lemma for each kind of plan (`PlainRows`, `DeptRows`, `MenuRows`, `KilledRows`, `Relinked`,
  `UserRows`, `DataRows`, `ColumnRows`, `BulkRows`, `ImportRows`) proves that the look-ups of the
  services make a plan that is good on the spot.

`DecisionsProofs`, for all users, checks, rules, tables, endpoints and requests of the types the
modules state, from `DecisionsAssumption` and `NamesAssumption` (the marks `None` and `Text` are
no value of what they stand beside):

- `DecisionsAccessRight`, from `AllowedWhen`: `rbac_verify` lets a request in for one of the
  reasons the lemma lists, each of which speaks of one role at a time. `DecisionsFilterRight`, from
  `VisibleToBoth` (the two forms of the filter, one of them with the code's early returns) and
  `GiveRules` (which rules a user has who is given one more).
- `DecisionsRequestsRight`: if the table of endpoints is right (`RoutesRight`, which TLC checks of
  the repository's table), then every request is let in, answered, committed, logged and counted as
  `RequestsRight` says, whatever the table, the request and the user. `DependenciesPass`: a request
  that gets past the dependencies of its endpoint passed each of them; `PassedMayCall`: then the
  user may call it, because a permission is named before the check that looks at it; `RouteOf`: the
  endpoint a path is answered by is the first that fits; `ServeEnds` lists the ends of a request
  and its transaction, from which answer, log and metrics are followed through the middlewares
  (`RequestOfRoutes`). First positions in a sequence come from `Least`, a least element of a set
  of numbers.

## 6. Disagreements between the code and its documentation

1. `revoke_user_tokens` documents that all sessions of a user are revoked. A
   request that read the index while it held no live session deletes the whole
   index later, also what another login added in between; the next revocation
   does not find that session (`token_revoke_all`).
2. `get_available` documents that a user of a locked department is refused. The
   department service clears no cached record, so the user is authorised by it
   until it expires (`user_cache_dept`).
3. `clear_by_menu_id` documents that it clears the users of a menu. When a menu is
   deleted its links are deleted first, and it finds nobody (`user_cache_menu`).
4. A one-off task that has run is disabled with a "high delay, to avoid checking
   again" (a comment of `is_due`). Its entry stays first in Celery's heap, every later tick
   checks it and serves nothing else, and the change it announces in the second of
   the beat's own look is not noticed (`beat_one_off`).
5. The settings offer `${now}` to data rules as the current time. Its resolver is the
   function `timezone.now`, which nobody calls: a rule that compares a time with it
   compares with something that is no time (`now_variable`).

Smaller ones, met while modelling and without a run of their own: the menus seeded for the code
generator grant `codegen:model:*`, while its endpoints ask for `codegen:column:*`, and a
permission for changing settings is written with dots, not colons (`plugin/code_generator/sql`,
`plugin/config/api/v1/sys/config.py`); a location that is not found is stored as the text `None`
(`request_parse.py`); a plugin called `changed` cannot be downloaded, because the path of
another endpoint is registered before (`RouteRight`); a socket outlives the token it connected
with, and after a refresh the monitor no longer shows it and a revocation no longer disconnects
it (`OnlineTrue`, `RevokedOffline`); malformed JSON is answered with 500 and not logged when the
operation log parses it, with 422 and logged when it is too large or redacted
(`opera_log_middleware.py:138`), and a failed look at the token whose exception has a textual
`code` raises once more in the handler (`jwt_auth_middleware.py:104`); a beat that finds a
change at `copy.copy(self.schedule)` builds its heap twice and may dispatch a task again within
its interval (`schedulers.py:437`, with 308-320); a start that fails on a broken plugin has
deleted the notice of a change (`plugin/core.py:118`).

## 7. What is only checked, and what is not modelled

Only model-checked: the liveness of the operation log and of the cache (`EventuallySettled`,
`StopTerminates`, `EventuallyFresh`), since the prover does not treat fairness; `TreesRight`,
`JoinsFaithful`, `PagesTrue` and `StartsRight`: these algorithms recurse over their inputs, and
induction over data is out of the prover's reach, so they are compared with their references on
bounded inputs (the order of plugins within `StartsRight` is proved as `OrderOfPlugins`, though
not that the walk comes to an end); and `RoutesRight`, which is about one table of 138
endpoints, so that a theorem of it would be the evaluation TLC makes. The state machines need no
recursion.

What the models take for granted: Redis executes a pipeline in one piece and keeps its keys;
the database is READ COMMITTED; a lifetime of a token is long beside a connect of a socket;
production, where a socket without a token is refused; a disconnection ordered by a
revocation reaches the server of the socket, in whatever order (`Kick`).

Not modelled: nodes fixed by configuration and `parse` of the ID service; the history,
strength and age of passwords; the refusal of locked users by `refresh_token`; reads whose
result no property depends on; creation of rows in the cache model; in the beat,
tasks of `tasks/beat.py`, `start_time`, crontabs, malformed rows, rows that have never run
(their interval counts from when they were read), while the nested sync of
a reload, the reads of a start and the announcement of a one-off task's end are one step
each, and the looks of one sync at `schedule` between two writes are one; the delivery of events
between Socket.IO servers; conversions of a rule's text other than to numbers and
template variables. Not modelled because they are input and output or
third-party programs: the command line, the sending of mail, pip, git and
unzip, the sites of OAuth2, templates of generated code, connections, logging,
translations, notices (rows nothing refers to). The cache of HTTP answers and the
rate limits are an external library: `Routes` and `RequestPipeline` model where it is asked.
The async helper runs a coroutine in a thread and waits for it; its caller, the scheduler,
is modelled with its steps one after another.

## 8. Plan

Done: the ID service, token sessions, the user cache, the operation log with its abstract
specification, the beat, login security, bindings, plugins, sockets, rows, and the
algorithms of section 2, with the proofs of section 5. Left, in this order:

1. An abstract specification of the beat, one dispatch per interval, that holds
   for one beat without failures; tasks of `tasks/beat.py`.
2. Passwords: their history and age, with the lock.
