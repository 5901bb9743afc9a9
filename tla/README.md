# A TLA+ verification of reemote

reemote manages virtual machines: a Go server (`src/backend`) with a REST API, a
libvirt client, a console gateway and a PostgreSQL store; a small serverless API
(`src/api`); and a React front end (`src/frontend`). This directory holds TLA+
modules that model the parts with state and concurrency of their own, TLC
configurations that check them on small instances, and TLAPS proofs that lift the
main results to every instance.

    tlc -workers 2 -config ConsoleSafety.cfg MCConsole     # one run
    tlapm ConsoleManagerProofs.tla                         # one proof module

`PROJECT.json` lists the runs, the lines each definition models, a mutation of the
code for every property (the properties notice all of them), the hazards, the
findings and the theorems.

## 1. Inventory

Paths are below `src/backend/internal` unless they start with another directory.

| component | state | operations | hard part | what makes it correct | model |
|---|---|---|---|---|---|
| console sessions: `console/websocket.go`, `vnc_proxy.go` | `sessions` map under `cm.mu`; per session `closed`, `lastActivity` under `cs.mu`; per proxy the TCP connection and `isConnected` under `vp.mu` | HandleConnect, HandleDisconnect, HandleMessage, HandleStats, CleanupInactive every 5 minutes | every request and the cleanup on a goroutine of its own, three nested locks, a TCP dial under two of them, `cm.mu` kept while waiting for a session | no session leaks, closing is final, the map only offers open sessions, the cleanup spares a session that was active before it was judged, every request returns | `ConsoleManager`, `ConsoleLifecycle` |
| VNC proxy pool: `vnc_proxy.go` | slice of proxies | Add, Remove, cleanup | created by the manager, never used | - | no |
| VNC protocol, compression: `vnc_protocol.go`, `compression.go` | quality level | encode, decode, AdjustQuality | none: called by nothing in the server | inverse functions | no |
| circuit breaker: `libvirt/client.go` | state, two counters, time of the last failure, mutex | Call, GetState | the mutex is kept while the function runs; retries against the reset timeout | opens on consecutive failures only, protects while open, recovers, trips | `CircuitBreaker` |
| connection pool: `libvirt/client.go` | list, buffered channel, mutex | GetConnection, ReleaseConnection, Close | waits with the mutex locked; drops at a full channel; Close forgets connections in use | no sharing, no lost capacity, every wait ends | `ConnectionPool` |
| libvirt client, domain manager: `libvirt/client.go`, `domain.go` | breaker + pool | Ping, nine domain operations, Close | one lock waits inside another | no operation waits for the pool; each returns; still a breaker | `LibvirtClient` |
| event bus, event monitor: `libvirt/events.go` | queue of 100, listeners, cache of domain states | Publish, dispatch, Subscribe, poll every 30 s, two Stops | a full queue drops events; the cache is updated before Publish, whose error is ignored; the server starts the monitor and never the bus; a Stop that waits for a poll | the last event of a domain tells its state unless it was dropped; a lasting state is reported; the shutdown ends | `EventMonitor` |
| rate limiter: `security/ratelimit.go`, `withRateLimit` of the server | token bucket per user and per IP | AllowRequest, Allow, Cleanup every 5 minutes | lazy refill; a dropped bucket comes back full; two buckets per request | never more than burst + rate x time while the window is not longer than the hour the cleanup waits, and a bounded gift per drop otherwise; laziness is not noticed | `RateLimiter`, `EagerBuckets` |
| TLS manager: `security/tls.go` | certificate, configuration | load, reload, inspect | I/O | - | no |
| authentication: `auth/*.go` | secrets | issue and verify tokens, passwords, TOTP codes | cryptography | - | no; its verdicts are choices in `Accounts` |
| user service: `service/user.go`, `repository/user.go` | table users | Register, Login, SetupTOTP, ConfirmTOTP, DisableTOTP, ChangePassword, UpdateUser, DeleteUser | no transactions: check, then insert; read, then write all columns; accounts deleted in between | unique emails for ever, final deletes, no column undone that did not change since it was read, no password change unearned | `Accounts`, `SoftTable` |
| VM service: `service/vm.go`, `repository/vm.go` | table virtual_machines | CreateVM, UpdateVM, UpdatePowerState, DeleteVM | the same, for the power state | as above | `VMAccess`, `SoftTable` |
| permissions: `service/permission.go`, `repository/permission.go` | table permissions, partial unique index | GrantAccess, CheckAccess, RevokeAccess | rows that expire without being touched and stay unique | a right for as long as it was given, until revoked, at its level and below | `VMAccess`, `Rights` |
| HTTP server: `src/backend/cmd/server/main.go` | - | routes, middleware, shutdown | which handler sees which id; the order of the Stops | - | console routes in `ConsoleManager`, `withRateLimit` in `RateLimiter`, start and shutdown in `EventMonitor`; the other handlers are the requests of `Accounts` and `VMAccess` |
| metrics, logging: `metrics/`, `logging/` | counters | record | nothing reads them back | - | no |
| configuration, database, migrations | settings, schema | start-up | - | - | unique and foreign keys in `Accounts` and `VMAccess`; the rest no |
| Go API client: `api/client.go` | - | HTTP calls | - | - | no |
| serverless API: `src/api` | database | register, login, list VMs | one query per request | - | no |
| front-end store: `src/frontend/src/stores/auth.ts`, `services/api.ts` | the token in three places, loading flag | login, register, logout, checkAuth, interceptors | calls that overlap and are answered in any order, reloads in between | a request carries the token the store holds; the flag goes out | `AuthStore` |
| front-end pages: `src/frontend/src` | view state | rendering, key events of the console | events posted without waiting | - | no |

Interactions: the console routes of the server call the handlers, these the manager,
the manager its sessions, each session its proxy. Every domain operation goes through
`circuitBreaker.Call`, whose function takes a connection from the pool and gives it
back; the event monitor polls through the same path every 30 s. Services call
repositories, repositories the database; nothing is cached between requests.

Observed while reading, outside the models: `cmd/server/main.go` has errors that keep
it from compiling (lines 299 and 520); the route of the connect endpoint has no
`{session_id}`, so that `HandleConnect` as routed answers 400. The model follows the
handler, which takes the id of a connect from its path. `docs/CONSOLE.md:207-222` has it
otherwise: an empty request, and an id that the server returns.

## 2. The modules

| module | role |
|---|---|
| `ConsoleLifecycle` | abstract: create, establish, retire from the registry, finish |
| `ConsoleManager` | the console code; implements `ConsoleLifecycle` under `Lifecycle` |
| `MCConsole` | the symmetry of its safety run |
| `ConsoleManagerProofs` | its theorems |
| `CircuitBreaker` | the breaker around any function |
| `ConnectionPool`, `ConnectionPoolProofs` | the pool with any users |
| `LibvirtClient` | extends the breaker, INSTANCEs the pool and runs every operation through both |
| `LibvirtClientProofs` | theorems about the breaker alone, then composes them with those of `ConnectionPoolProofs`, which it INSTANCEs |
| `EagerBuckets` | abstract: buckets that fill as time passes, and may be filled early after a rest |
| `RateLimiter`, `MCLimiter`, `RateLimiterProofs` | lazy buckets, cleanup and middleware; implements `EagerBuckets` under `Eager` |
| `EventMonitor`, `EventMonitorProofs` | the monitor, the bus and the end of main |
| `SoftTable` | abstract: a table with a unique key and final deletes |
| `Accounts`, `AccountsProofs` | the users; implements `SoftTable` under `Table` |
| `Rights` | abstract: rights with a level and an end |
| `VMAccess`, `VMAccessProofs` | VMs and permissions; implements `SoftTable` under `Table` and `Rights` under `Ledger` |
| `MCAccounts`, `MCVMAccess` | the symmetry of their runs |
| `AuthStore`, `AuthStoreProofs` | the store of the front end in one tab |

The operators named `...Unchecked`, `...Locked`, `...Lenient`, `...Forgetting` and so
on, marked as mistakes, are used by no specification. They are what `PROJECT.json` puts
in the place of an action to see that a property fails.

### ConsoleManager

`cmMu` is the owner of `cm.mu`; `dialer[s]` the request that dials with `cs.mu` and
`vp.mu` of session s locked. A goroutine that needs a session lock for one short step
takes and releases it inside one action, guarded by `SessionFree(s)`. The control
state of a request is `pc`, its path value `id`, the session in its hands `sess`:

    connect     idle -> create -> connect -> dial -> idle     (or -> delete, on an error)
    disconnect  idle -> delete -> close -> idle
    message     idle -> get -> decode -> activity -> route -> idle
    stats       idle -> peek -> stats -> idle
    cleanup     idle -> lock -> scan -> test -> age -> remove -> close -> scan ... -> idle

A disconnect keeps `cm.mu` from "delete" to the end of "close", as the deferred unlock
of `CloseSession` does, and the cleanup keeps it for its whole loop. `idle[s]` is the
age of `lastActivity`; the zero time of a new session is an age beyond the timeout.
The cleanup's clock value is the set `expired`, the sessions that were stale at that
instant; a later activity takes its session out. For each entry of the map the loop
first asks `IsActive`, under `cs.mu` (`CleanupTest`, from "test"), then reads
`lastActivity` without it (`CleanupAge`, "age"), then deletes the entry (`CleanupRemove`)
and closes the session (`CleanupClose`): connects and messages, which need only `cs.mu`,
come in between every two of these. The unlocked read races with `UpdateActivity`; it
gives the old or the new value, which the order of `Touch` and `CleanupAge` covers.
`IsActive` was true just before, so the session has been connected and its constructor
is long done; only when the zero time gives way to the first value do more words than one
change, and a mixture of the two compares as stale or as young, that is, like the old or
like the new value.
`overtaken` is history: the session in the cleanup's hands was connected or used since
the cleanup tested it. A message with an invalid body is rejected at "decode", before it
waits for the session; one of unknown type returns after `UpdateActivity`.
A session object nobody refers to may be taken again for a new session: the garbage
collector and `NewConsoleSession` in one. Left out: the traffic counters, on which no
control depends, and the bytes sent.

### CircuitBreaker, ConnectionPool, LibvirtClient

`Call` keeps the mutex while the function runs, so the breaker admits one caller at a
time: `holder`. Ages are counted in ticks and cut off one beyond the reset timeout.
`streak` (failures since the last success) is a history variable for the properties. In
the pool, `poolMu` differs from `Nobody` only between two actions: during the wait
inside `GetConnection`. `total` is the length of `conns`, the only thing the code reads
of it. `LibvirtClient` gives each caller a `stage` inside its operation; the domain
operations differ in their results only and share one action, `Ping` may fail when the
URI is not set.

### RateLimiter

`window` is the field `NewRateLimiter` sets, any of `Windows`. A token is `window` units
and a tick of time is worth `Limit[b]` units, so that the refill rate `maxRequests /
window` is exact; the code's float64 rounds, which the model leaves out. `tokens[b]` is
`Missing` for an identifier that is not in the map; `age[b]` is the age of `lastRefill`,
cut off at `Oldest`, from where neither a refill nor the cleanup tells ages apart. The
cleanup drops what was not asked for longer than `MaxAge`, an hour in the code, which is
`Patience` ticks. `Refilled(b)` is what `AllowRequest` computes before it decides. A
request asks the bucket of its user, then that of its address, in two critical sections
that other requests, the clock and the cleanup may separate. `watched`, `passed`,
`since` and `dropped` observe one arbitrary bucket over stretches of up to `Horizon`
ticks. `Prefix` stands for the first 16 characters of a token: `generateAccessToken`
signs with HS256, and the encoded header `{"alg":"HS256",...` fills them. Left out: an
Authorization header that holds no such token; `token[:16]` needs 16 characters.

The settings are read from the environment and not validated. The model has every limit
from zero and every positive window, shorter or longer than the cleanup's age. A bucket
that is dropped comes back full. When the window is longer than the age, it was not full
yet: `EagerBuckets` allows it to be filled early once it holds the refill of `Patience`
ticks, and `RateBounded` counts what that gives away (`Forgiven` ticks of refill for each
drop). When the window is not longer, such a bucket is full anyway and `Forgiven` is zero.
Left out: a window of zero, whose refill rate is infinite, so that nothing is limited; a
negative one, with which a bucket never refills until the cleanup drops it; and negative
limits, with which everything is refused as with zero.

### EventMonitor

`stage` is how far `main` is, `mon` and `bus` the two goroutines. A poll is a ticker
event, the answer of `ListDomains` (any set of domains in any states, or an error) and
one step for each round of the two loops, so that the bus runs in between; `Publish` is
part of the step that calls it. `select` chooses freely among the ready cases: a closed
`done` does not keep a tick or an event from being taken, nor Publish from using the
queue. `Init` has the bus off, as the server leaves it, or running, as its API allows.
`MonitorStopped` may come before the goroutine of the monitor is born: `main` starts it
with `go` and `wg.Add` runs inside. `heard` and `lost` are history: the type of the
last event dispatched per domain, and the domains whose latest event was dropped. Left
out: the listeners, whose calls touch no state of the bus.

### Accounts and VMAccess

A query is one step of the database. No operation uses a transaction, so an operation
with two queries is two actions and `req[r]` carries its local variables from one to the
other: the copy of the row, the password that was verified. Ids are fresh UUIDs; a
deleted row stays (`live` is `deleted_at IS NULL`) and keeps its key, as the `UNIQUE` on
`email` and `libvirt_id` is not partial. `stale[r]` is history: since r read the row,
another request has changed what r took from it without being about it, and nothing less.
For a change of the password that is the password it verified; for `UpdateUser` the second
factor, for `ConfirmTOTP` and `DisableTOTP` the name (`Intact`); for `UpdateVM` the power
state (`Outdated`). A login stamp, another column or a deletion does not set it.
Requests that fail before they write are left out, they change nothing.
`Register` ignores the error of its check, so the model lets it go on whatever the table
holds. Passwords stand for their hashes; what a row has in the columns nothing changes
(`is_admin`, sizes of a VM) is left out. The Boolean `secret` says whether
`totp_secret` is set, which is all that `Login` needs before it dereferences it.

In `VMAccess` a grant carries the ticks until `expires_at`; `Never` is the one without
an end. Expiry is no action of the code: `InForce` looks at the clock in every query,
and the row of an expired grant stays in the way of a new one until it is revoked.
`Rights`, the specification, takes a right away the moment it ends. Two things are left
out: `expires_at` is a `TIMESTAMP` without time zone, so an `ExpiresAt` that a client gives
with another offset than UTC loses the offset when it is stored, and the right ends hours
earlier or later than asked; and `CheckAccess` for a level that is none of the three.

### AuthStore

`token`, `saved` and `header` are the three places of the token: the store, the item in
localStorage that the persist middleware rewrites with *every* `set()`, and the default
header of axios. An action is a stretch of JavaScript between two awaits. A failed call
runs the response interceptor first, so its effect and that of the `catch` are one action;
a `set()` after a 401 brings back the item that the interceptor removed. `Reload` is a
new page load: it forgets the calls, reads the store from localStorage and runs the
`checkAuth` of `App`. `Carried` is what the request interceptor sends.

## 3. Runs

| run | instance | distinct states | shows |
|---|---|---|---|
| `console_safety` | 2 ids, 3 sessions, 2 requests, cleanup, timeout 1; symmetry | 1.75 M | TypeOK, NoOrphan, RegistryUsable, NoCircularWait, ClosedIsFinal, CleanupJustified |
| `console_live` | 1 id, 2 sessions, 2 requests, cleanup | 161 k | RequestsReturn, StaleSessionGoes, ImplementsLifecycle |
| `breaker` | 3 callers, limit 2, threshold 2, reset timeout 1 | 1.4 k | TripsOnStreaks, OpenIsQuiet, CallsReturn, Recovery, Trip |
| `pool` | 3 users, size 2, 5 connections | 1.8 k | Exclusive, CapacityKept, WaitIsFutile, Released |
| `client` | 3 callers, size 1, URI not set | 29 k | ClientTypeOK, NoPoolWait, SingleConnection, ImplementsBreaker |
| `empty_pool` | 3 callers, size 0 | 0.9 k | EmptyPoolTrips |
| `rate_limiter` | 1 user and anonymous requests from 1 address, 2 requests, limits 1, windows 2 and 3, cleanup age 1, horizon 3; symmetry | 2.02 M | TypeOK, RateBounded, ImplementsEager |
| `events` | 2 domains, 2 states, queue of 1, bus on or off | 201 k | TypeOK, FeedAccurate, ShutdownEnds, Informed |
| `accounts` | 2 ids, 2 emails, 2 passwords, 2 names, 2 requests; symmetry | 212 k | TypeOK, ImplementsTable, UndoneByRaceOnly, PasswordChangeEarned |
| `vm_access` | 1 user, 2 VMs, 2 libvirt ids, 2 configurations, 2 power states, 2 requests, times up to 2; symmetry | 316 k | TypeOK, ImplementsPromises, PowerUndoneByRaceOnly |
| `auth_store` | 2 tokens, 3 calls | 3.0 k | TypeOK, CarriesStoreToken, LoadingSettles |
| `fresh_user` | limiter, 2 users | - | finding: users share a bucket |

Why the bounds are enough. Console: every hazard involves a registered session, at most
one goroutine that overtakes another, and the cleanup; two requests and the cleanup give
every pair and the three-way case, two ids let a goroutine hold `cm.mu` for one session
while the other session dials, and as each goroutine has at most one session in hand,
three objects always leave one free where it matters. A timeout of one tick separates
"now", "at the limit" and "beyond". Breaker: limit and threshold of 2 let a success fall
between two failures and a failure between two probes; three callers queue. Pool: three
users for two places wait, time out, and give back more connections than fit after a
Close; five objects serve all of them at once. Rate limiter: windows of two and three
ticks make fractions of a token; two ticks are as long as the cleanup waits, the
tightest case in which a drop gives nothing away, and three are longer, so that it does;
the horizon has room for a drop between two grants; a user and a nobody behind one
address meet the limit of the address. Events: a queue of one is full after one event,
two domains compete for it, `running` and `shutoff` take the two branches of the second
loop. Tables: two requests on one row, two rows and keys, so that a key of a deleted row
is wanted again; two values per column show an old one coming back. Permissions: a grant
that ends at once, one that lasts two ticks and one without an end. Store: a login, a
check and a call of a page overlap. The theorems below remove these bounds for the
safety properties. The counters cut off are `idle`, `age`, the breaker's `since` (at
timeout + 1, beyond which the code does not distinguish them) and `streak` (at the
limit); the limiter's observation restarts at `Horizon`.

The `TypeOK` of `CircuitBreaker` and of `ConnectionPool` are not listed in their runs;
both are conjuncts of `ClientTypeOK` in `client`, and theorems. Deadlock is checked in
every run but `events`, where nothing is left to do after the shutdown.

### Fairness

* Whoever waits for a Go mutex that becomes free again and again gets it (the mutex's
  starvation mode): strong fairness of the steps that acquire `cm.mu` or the breaker's
  mutex, and of `Release` in the pool.
* A goroutine that can run is scheduled, a dial ends (10 s context in `HandleConnect`),
  the function inside the breaker returns, the pool's timer fires: weak fairness.
* The tickers of the cleanup and of the clock never stop: weak fairness. The event
  monitor polls every 30 s for ever, hence the breaker is always called again: strong
  fairness of `Ask(Monitor)`, in `LibvirtClient` of `Start(Monitor)`.
* `EventMonitor`: the goroutines are scheduled, the ticker ticks and `ListDomains` answers
  (the breaker and the pool timeout see to that: `CallsReturn`): weak fairness. A `select`
  chooses at random among ready cases, so one that finds `done` closed again and again
  takes it in the end: strong fairness of `MonitorEnd` and `BusEnd`.
* `AuthStore`: a call is answered or given up after the 30 s of axios: weak fairness of
  `Answer`. Users need not do anything.
* A message that waits for its session is not helped by other messages that are rejected:
  `RejectMessage` belongs to "decode", where no lock is awaited.
* Requests need not arrive, VMs need not drop connections, calls need not succeed or
  fail. `Recovery` and `Trip` state what happens once they all do.

### Findings

* `FreshUserServed`: `docs/SECURITY.md:45` promises "100 requests/minute per user". The
  bucket of a user is named by the first 16 characters of the token, which all users
  share, so that one user's requests can use up another's limit.

### Observations

Where a document and the code differ, seen while modelling; the model follows the code.

* `docs/CONSOLE.md:159` speaks of a cleanup of sessions inactive for 30 minutes.
  `CleanupInactive` removes every session that is not connected, also one whose connect
  request still runs: `!session.IsActive()` is true from its creation on. And a session may
  be connected, or used again, between the cleanup's test and its `delete`, and still be
  removed: `CleanupJustified` says that this is the only way a connected, young session
  goes, and without `~overtaken` TLC finds the race.
* `docs/CONSOLE.md:311` has "Automatic cleanup of disconnected sessions". Nothing reads
  the socket, so `isConnected` outlives the connection, and messages that keep arriving
  keep the session (`RemoteDrop` in the model).
* `docs/SECURITY.md:158` and `:165` give the half-open state 30 seconds. `resetTimeout`
  bounds the open state; half-open ends with calls only.

* `docs/SECURITY.md:45-56` gives a refill rate of maxRequests / window and lets buckets go
  after an hour. With `SECURITY_RATELIMIT_WINDOW` above an hour (`config.go:136` takes any
  duration, `ratelimit.go:101` has the hour fixed) a client that pauses for an hour gets a
  full bucket before the refill would have filled it; by default the window is a minute.

And what a reader of the code should know:

* After a failed connect `CloseSession(sessionID)` removes whatever session has the id by
  then, which may be one that a later connect created. `NoOrphan` shows that even so
  nothing leaks.
* The receive branch of the second `select` of `GetConnection` is dead code:
  `WaitIsFutile`.
* `EventBus.Start` has no caller: in the server the queue fills once and then drops.
  `Unsubscribe` removes nothing. A dropped event is never repeated; `FeedAccurate` says
  that the next change of that domain repairs the feed.
* `ConfirmTOTP`, `DisableTOTP`, `UpdateUser` and `UpdateVM` undo a concurrent write of the
  columns they are not about; a change of name can so bring back a second factor that
  was disabled meanwhile. `UndoneByRaceOnly` and `PowerUndoneByRaceOnly` bound it.
* `ConfirmTOTP` gives `VerifyToken` its arguments as (code, secret), which expects
  (secret, code); `Login` never sets `Tokens`, and `handleLogin` makes tokens only when
  they are set. The front end then stores no token, which `LoginAnswered` includes.
* The table constraint `UNIQUE (...) WHERE` of permissions is not accepted by PostgreSQL;
  the model takes it as the partial unique index it describes. Deleting a VM keeps the
  grants for it.
* A `checkAuth` that fails for an old token signs out a login that succeeded meanwhile;
  `CarriesStoreToken` says that the three copies still agree. Two tabs share localStorage
  but not the store, so one may send the token of the other; the model has one tab.

## 4. Proofs

All theorems hold for every value of the constants that satisfies the ASSUMEs:
distinctness of the goroutines and the special values, natural timeouts and limits,
positive windows, and for the pool a finite set of users (for their number to exist).
`RateIsExact` and `EagerWhenPatient` have a hypothesis of their own: no window is longer
than the cleanup waits, as the code has it by default but does not enforce. Most of the
formulas are what the runs check; those that are stated in a proof module only were run
through TLC on the same instances before they were proved.

* `ConsoleManagerProofs`. None of the properties is inductive. `IInv` adds who owns
  what: `ManagerOwned` (who owns `cm.mu` is in one of the control states that have it,
  and the other way round), `DialOwned` (a session's locks belong to the request that
  dials), `ConnectOwned` (only the creator connects a session, once, and not after it
  was closed), `ConnectionKnown` (`isConnected` says that a connection exists, and a
  closed session has none), `RemovedFirst` (a session about to be closed is out of the
  map; every open one is in the map or about to be closed) `CleanupKnows` (what the loop
  has yet to visit is in the map, what it calls stale is stale) and `Judged` (what the
  loop is about to remove is not connected or stale, unless it was overtaken).
  `RegistryUsable` is needed too: as no session has two ids, deleting one entry takes it
  out for good. One lemma for each of the 22 actions, then `Invariance`, and from it
  `NoSessionLeaks`, `RegistryStaysUsable`, `ClosedStaysClosed`, `CleanupIsJustified` and
  `LifecycleImplemented` (`Spec => Lifecycle!SafeSpec`). `NoDeadlock` bounds the chains
  of waits, so that there is no circle of any length: by `LockOwners` one waits for a
  request that dials or for the owner of `cm.mu`, and by `ManagerWaitsForDials` the
  latter waits for requests that dial only, which wait for no lock.
* `LibvirtClientProofs`, the breaker. `BreakerInv` adds `CountIsStreak` (the counter never
  runs ahead of the failures in a row), `ClosedCountsAll` (while the breaker is closed it
  is their number) and `ProbesCounted`. Results: `BreakerTypeCorrect`,
  `BreakerTripsOnStreaks`, `OpenProtects`.
* `ConnectionPoolProofs`. TypeOK, Exclusive, CapacityKept and WaitIsFutile are inductive
  together; taking or giving a connection changes the number of holders by one. Results:
  `ExclusiveAlways`, `CapacityAlways`, `WaitingIsFutile`.
* `LibvirtClientProofs`, the composition. Every step is a step of the breaker or leaves it
  alone (`BreakerInside`), and the same for the pool (`PoolInside`); so both component
  theorems hold inside. Together: the caller that asks the pool is the only one inside the
  breaker, all capacity is in the buffer, so with a size of at least one nobody waits
  (`NobodyWaits`) and one connection is in use at most (`OneConnection`). For any size, the
  pool's mutex is free or the caller's own when it wants it (`NobodyBlocksInside`): the two
  nested locks cannot block each other, and who queues for the breaker waits for a timer at
  most. With size zero nothing is ever served (`NoneServed`, from the pool's capacity), so
  that a breaker that has opened never closes again (`EmptyPoolNeverRecovers`): probes
  only fail.
* `RateLimiterProofs`. `RateBounded` is not inductive: `Account` adds that what the
  watched bucket granted plus what it could grant now came from its size, the refill since
  and what was given away; `Spaced` that a bucket must grow old again before it is dropped
  again; `MissingIsNew` that a bucket not in the map has no age. `OldHasRested` says what a
  drop gives away, `RefillTick` why laziness is harmless. Results, for every window and
  cleanup age: `TypeCorrect`, `RateIsBounded`, `EagerImplemented` (`Spec => Eager!Spec`);
  and while no window is longer than the cleanup waits: `RateIsExact` (burst plus rate and
  nothing else), `EagerWhenPatient` (`Spec => Eager!StrictSpec`: nothing is filled early).
* `EventMonitorProofs`. `FeedAccurate` is inductive with the types and `TodoListed` (a poll
  compares listed domains only). `PublishRight` covers the domain an event is about,
  `PublishOthers` the rest, `DispatchKeeps` the moment an event leaves the queue.
  `ShutdownQuiet`: the Stops come in order, and once `main` is down no bus runs and no
  listener is called, also when the goroutine of the monitor begins only then.
* `AccountsProofs`. Type correctness alone is not inductive: that an enabled second
  factor has a secret depends on the copies that requests carry. `IInv` adds `Unique`
  (no two rows have an email, which makes the row of an email well defined) and
  `CopyCurrent` (a copy shows its row's columns, and a verified password is still there,
  until another request changes them). `StepCases` reduces every step to five shapes, on
  which the other proofs split. The refinement needs `Unique` before and after the step:
  `Replaced` says that replacing the row of an id replaces exactly that entry of the
  abstract table. Results: `TypeCorrect`, `RaceOnly`, `PasswordEarned`,
  `SecondFactorSafe` (the second factor is switched by a confirmation or a disabling, or
  by an UpdateUser that read the row before one of them), `TableImplemented`.
* `VMAccessProofs`. The same along the libvirt id, with `Refers` (a grant is for a VM that
  has a row). `LedgerStep` shows that a tick of the database's clock is a tick of `Rights`
  and that granting over an expired row is not possible. `AccessSafe` says more than
  `Rights`, which does not tell an expired grant from none: a right comes only to a pair
  without a row, so that the expired row keeps its user out until it is revoked, and it
  goes by a revocation or in its last tick, not with the VM. Results: `TypeCorrect`,
  `RaceOnly`, `AccessSafe`, `PromisesImplemented`.
* `AuthStoreProofs`. `CarriesStoreToken` is about what a request would carry; `IInv`
  compares the copies one by one: `SavedCurrent` (localStorage holds the store's token, or
  nothing when the page is being left) and `HeaderCurrent` (the default header holds it or
  none). `SendKeeps` and `LoadingKnown` do the counting behind the flag: whoever ends a
  login also puts it out. Results: `TypeCorrect`, `RequestsCarryStoreToken`, and
  `SignedOutStaysOut`: a token gets into the store by the answer to a login only, no late
  answer and no reload brings an old one back.

Only model-checked: all liveness (RequestsReturn, StaleSessionGoes, CallsReturn, Recovery,
Trip, Released, EmptyPoolTrips, ShutdownEnds, Informed, LoadingSettles), and the fairness
part of the refinements of the lifecycle and the breaker; TLAPS has no rules for ENABLED
here, on which fairness rests. Every other property of a passing run is a theorem.
Induction over data and RECURSIVE operators are out of the prover's reach as well; no
module needs them so far. That nobody waits for ever, which needs fairness on top of
`NoCircularWait`, is `RequestsReturn`.

## 5. Not modelled

* VNC proxy pool, VNC protocol and compression: nothing in the server calls them, and they
  interact with no other part.
* TLS manager, authentication primitives, configuration, database connection: calls into
  libraries at start-up or without state. What they answer is a free choice where it
  matters.
* Metrics and logging: written, never read back. Go API client: a wrapper of `net/http`.
  Serverless API: one query per request, all state in the database.
* Pages of the front end: rendering; the key events of the console viewer are posted
  without waiting for each other, and no document says in which order they arrive.
* Of the modelled parts: the traffic counters of the VNC proxy, the listeners of the event
  bus, operations of the services that only read, and `server.Shutdown`.

## 6. Plan

Done, in this order: `ConsoleLifecycle` and `ConsoleManager`, the largest concurrent part;
`CircuitBreaker` and `ConnectionPool`; `LibvirtClient`, their composition; `EagerBuckets`
and `RateLimiter`; `EventMonitor`; `SoftTable` and `Accounts`; `Rights` and `VMAccess`;
`AuthStore`; each with its run and its proofs.

Left: a second tab beside `AuthStore`; and deleting a user in `Accounts` together with
the grants in `VMAccess`.
