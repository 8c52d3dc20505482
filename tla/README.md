# A verification project for MCPxy

MCPxy is a proxy that puts many MCP servers ("upstreams", reached over HTTP or
as subprocesses) behind one URL.  It is one asyncio process: JSON-RPC requests
are authenticated, checked against policies, routed to an upstream and
forwarded; an admin API reconfigures it while it runs; the configuration, the
secrets, the users and the state of the first-run wizard live in a SQL
database.  A dashboard in React shows what it does, drives its admin API and
leads through the set-up.

This directory holds TLA+ modules that model the process and the dashboard, TLC
configurations that check them on small instances, and proofs that TLAPS
checks.  `PROJECT.json` lists, for each definition that models code, the lines
it models (`map`), the runs and their properties, for each property a bug that
it catches (`mutants`), the places where the code can go wrong in ways a test
hardly reaches (`hazards`), where it disagrees with what the repository says of
it (`findings`), and the theorems.

- [Inventory](#inventory)
- [Plan](#plan)
- [What the modules model](#what-the-modules-model)
- [The runs](#the-runs)
- [The proofs](#the-proofs)
- [Findings](#findings)
- [What is not modelled](#what-is-not-modelled)

## Inventory

### The process

Paths are relative to `src/src/mcpxy_proxy/`.

| Component | State it keeps | Operations | What makes it correct |
|---|---|---|---|
| Proxy bridge, `proxy/bridge.py` | a bounded queue used as a counter of calls in flight, a shutdown event, one request task and one shutdown waiter per call | `forward`, `start_shutdown` | every call gives its place back exactly once; one traffic record per answer; no task outlives its call; shutdown ends the calls in flight; no call passes a shutdown check after the signal, and each that passed the last one is sent |
| Stdio transport, `proxy/stdio.py` | the subprocess, its reader task, a table of futures keyed by JSON-RPC id, a write lock, a started flag | `start`, `stop`, `restart`, `request`, `send_notification`, the reader with its back-off and respawn | a waiting request can always be answered or flushed; one reader and one process; an exit ends those who wait for it |
| HTTP transport, `proxy/http.py` | an `httpx` client, TLS material on disk, a last error | `start`, `stop`, `request`, `send_notification` | requests end; a client is not used after it is closed |
| Upstream manager, `proxy/manager.py` | the live transports and the definitions they were built from | `start`, `stop`, `apply_diff`, `get`, `restart` | a difference that fails leaves everything as it was; the record of definitions is true |
| Runtime configuration, `runtime.py` | the raw and parsed configuration, the telemetry pipeline, an asyncio lock | `apply` | memory, policies and database agree; a failed apply changes nothing; a successful one is in service; the lock is given back |
| Config store, `storage/` | SQL tables: active configuration and history, secrets, onboarding row, users, invites, tokens, revoked sessions; a cache of secrets; `bootstrap.json` | saves, upserts, consumes, stamps; open, migrate | an operation is one transaction; the cache equals the table |
| Registration and file drop, `discovery/registration.py` | the watcher's record of the files it has applied | `add`, `remove`, `bulk_add`, the polling scan | the configuration follows the directory |
| OAuth manager, `auth/oauth.py` | tokens, pending authorizations, endpoints, client credentials per upstream; one lock per upstream | start and finish an authorization, get and refresh a token, revoke, register on a config apply | a state is used once; one refresh at a time; memory and secrets agree; a retry has a new token |
| Onboarding and database hot swap, `server.py` | the onboarding row, the configuration, the pointers to the store, `bootstrap.json` | the wizard's endpoints, the gate middleware, `set_database` | nothing is lost by a swap; a crash leaves a usable start |
| Users and tokens, `authn/`, `server.py` | users, invites, personal access tokens, sessions | invite, accept, log in, delete, change role | an invite makes one user; there is always an admin |
| Policy engine, `policy/engine.py` | compiled policies, token buckets | `check`, `replace_config` | a limit holds per upstream and per client |
| Telemetry pipeline, `telemetry/` | a bounded queue, a batching task, drop counters | `start`, `stop`, `emit_nowait` | every event is delivered, dropped and counted, or still queued |
| Traffic recorder, `observability/traffic.py` | a ring of records, a queue per subscriber, a counter of what they missed | `record`, `subscribe`, `recent`, the stream of `server.py` | what a subscriber misses is counted |
| Discovery, importers, catalogue, plugin registry, secrets facade, CLI | caches, lookups | | |

`server.py` calls `ProxyBridge.forward` under a timeout; the bridge asks the
policy engine, then the upstream manager for a transport, and awaits
`transport.request`.  Every change of the configuration (dashboard, admin MCP,
file drop, onboarding) goes through `RuntimeConfigManager.apply`, which drives
the telemetry pipeline, `UpstreamManager.apply_diff`, the policy engine and the
store in turn.  The HTTP transport asks the OAuth manager for a token before
each request.  Signal handlers and the lifespan call `start_shutdown`.

### The dashboard

Paths are relative to `src/frontend/src/`.  Each page keeps what the server said,
what the operator is editing, an error and a `busy` that disables buttons; the
session token is in `localStorage`, the session cookie in the browser.

| Component | State it keeps | Operations | What makes it correct |
|---|---|---|---|
| Set-up wizard, `pages/Onboarding.tsx` | a step, the last status, the form of a database and the result of its test, a catalog | test and save a database, configure authentication and log in, install a first server, finish | what it shows as done was done by the server; only a tested database is saved; the operator ends up signed in |
| Session, `App.tsx`, `components/LoginGate.tsx`, `Sidebar.tsx`, `api/client.ts` | the token, who is signed in, whether that was found out | two effects that probe the server, sign-in in three ways, sign-out, the 401 of any call | no one sees the dashboard of an administrator who is not one; a sign-out lasts; the page does not wait for ever |
| Live pages, `pages/Overview.tsx`, `Traffic.tsx`, `Graph.tsx`, `api/sse.ts` | buckets; a table of records; edges with their statistics, records that wait for a frame, pulses | a stream of records that begins with a snapshot, a repeated poll, animation frames, a tick | what is counted and shown is what the stream delivered; the picture catches up |
| Browse and its dialogs, `pages/Browse.tsx`, `components/AddManuallyDialog.tsx` | the catalog, a form, a toast | register, install, close, edit | the form asks for what the schema asks for; the toast is true |
| Tokens, Users, Token mappings | rows, a panel with a secret that is shown once | create, invite, delete, load | rows at rest are those of the server |
| Policies, Config | the document and its draft | edit, validate, dry run, apply, load | it announces what the server did |
| Routes, Logs, Connect, Import | the answer to the last question, what is ticked, the upstream that is busy | poll, restart, remove, rediscover, filter, scan, import | the answer on display is to the last question; buttons come back |

The wizard and the session share the token and the `onboarding` state of `App`:
the wizard ends by handing over to the session.  All pages call the admin API
through `api/client.ts`, which removes the token after a 401; `App` is not told, and finds out at its
next load or probe.
The live pages read the records that the bridge writes.

### What is hard

The process runs on one event loop, and so does the page: code between two
awaits is atomic, and every await is a place where another request, another
click, a restart, a timeout or a shutdown comes in.  The hard behaviours are

- cancellation: `asyncio.wait_for` cancels `forward()` at whatever await it is at;
- shutdown: `start_shutdown()` also runs in a POSIX signal handler, between any two instructions;
- subprocesses that exit at any moment, and a reader that sleeps before it respawns them;
- an apply with six steps that can each fail, and a manual undo;
- state read before a lock or an await and used after it: the candidate of a
  registration, the token of a refresh, the store of a swap, the form of a test;
- answers that overtake each other: polls, reloads, the probe of a session that
  is no longer the current one;
- requests that fail on the way there, when nothing was done, or on the way
  back, when it was;
- queues and tables at their limit: the places of the bridge, the records that
  wait for a subscriber, the rows of the table, the buckets of the chart.

`PROJECT.json` lists these hazards at the lines where they bite.

## Plan

The order puts the path of a request first, then the path of a configuration,
then what surrounds them, then the dashboard that drives it all.

1. `ForwardLedger` (abstract) and `ProxyBridge` (detailed), with proofs. *Done.*
2. `StdioTransport`, with proofs. *Done.*
3. `ConfigSwitch` (abstract) and `RuntimeConfig`: `apply` composed with `apply_diff`,
   telemetry and restart, with proofs. *Done.*
4. `OAuthManager`: requests, refresh, forced refresh, revocation, the
   authorization flow, registration by the post-apply hook, with proofs. *Done.*
5. `Onboarding`: the wizard's endpoints, gate, swap of the store, start of the
   process, with proofs. *Done.*
6. `FileDrop`: directory, watcher, registration over an abstract apply, with proofs.
   *Done.*
7. `Wizard` and `Session`, which composes the wizard with the rest of the session,
   with proofs. *Done.*
8. `LiveStream` with `Traffic`, `Overview` and `Graph`, composed by `LiveViews`, with
   proofs. *Done.*
9. `Console` with the modules of the other pages, composed by `Pages`, with proofs. *Done.*
10. `Users`: invites, the users they make, who may change whom, federated users.
    `Session` has the roles and deletions as far as the one who is signed in sees them.
11. `TelemetryPipeline` and `Policy` (token buckets, checked against a reference
    definition over bounded inputs).
12. A module that composes `ProxyBridge` with a transport whose process may
    exit, to state what a client sees end to end.

Every invariant and every action property that a run checks and the code satisfies
is also a theorem.  Worth proving next, once they are written: the theorems about
items 10 and 12.  The modules are written for proofs: constants with named
assumptions, one action per operation or await, no `RECURSIVE` operator.

## What the modules model

An action is the code between two awaits, all of it: nothing else runs in
between on one event loop.  Values that only pass through (messages, answers,
definitions of upstreams) are members of small sets.  Each module holds a few
definitions marked *Seeded fault*: variants of an action with a plausible bug,
in no next-state relation; `PROJECT.json` (`mutants`) says which property
catches which.

### ForwardLedger and ProxyBridge

`ForwardLedger` says what the HTTP layer may rely on: a call is
accepted only while the bridge is open, let in only while a place is free, and
committed to be sent only while the bridge is still open; a call that is committed
is sent, also when the bridge closes in between; a call that is over stays over.
So after the close the transports see the messages of the calls committed before
it and no others: `create_task` (205) only makes the request task, which runs, with
no further check, when the event loop gets to it.

`ProxyBridge` models `forward()`.  `pc[c]` is the await call `c` is at:

| `pc` | in `forward()` |
|---|---|
| `new` | before the first shutdown check (line 126) |
| `arrived` | past the first check; `turn` holds the event loop for this call up to its first await, and only a signal handler can come in |
| `admitted` | past `queue.put_nowait` (172) |
| `cleared` | past the second shutdown check, inside the try block |
| `notifying` | `await upstream.send_notification` (192) |
| `racing` | `await asyncio.wait({request_task, shutdown_waiter})` (207) |
| `cancelling` | `await request_task` after its `cancel()` (211) |
| `collecting` | `await shutdown_waiter` after its `cancel()` (217) |
| `done` | returned or raised |

`task[c]` and `waiter[c]` are the two tasks of lines 205-206; a request task is
`created` until `StartRequestTask` hands the message to the transport.  `slots` is
`queue.qsize()`, `records[c]` counts calls of the traffic recorder.  A call stands
where the ledger says by `Stage`: `cleared`, or racing with a task that has not run,
is committed; `sent` begins when the task runs.  `Abandon` is the
cancellation by the request timeout of `server.py` (625-629) or by a client that
hangs up.  It is not offered at `cancelling` and `collecting`: there
`contextlib.suppress` swallows it and the call goes on, which is what the model's
other actions do anyway.  Nor is it offered before the request task has run its
first step: the task was ready before the cancellation could be.

### StdioTransport

`proc` is `self._proc` as a process number; process 0 is none.  `reader[g]` is
the reader task started with process `g`: reading, in its back-off, spawning,
over, or crashed by a line it cannot handle.  `readerTask` is the one the
transport still refers to.  `pending` is the table; `future[c]` is the future of
call `c` and `answers[c]` whose reply resolved it.  `held[g]` is the requests
process `g` has read and not answered.  A call chooses its id when it arrives,
`NoId` makes it a notification.  `writer` holds the write lock.

`stop()` is cut at each of its awaits, and can end at any of them.  The reader it
cancels may have crashed, and awaiting it raises (`StopRaises`); so may the stderr
task, at a line longer than the stream's limit (`StopRaisesAtStderr`, lines 87-91 and
157): that comes after the reader was cancelled and before anyone is flushed or the
process terminated, and every later `stop()` raises there again.  `stdin.wait_closed()`
and the wait for the process can be cancelled (`StopCancelled`), which leaves
`op = "interrupted"` and the process within reach of the next `stop()`; and
`wait_closed()`, which has no timeout, may never return, so nothing is assumed of
`ProcessReaped`.  `stderrTask` is `_stderr_task`, `stderrCrashed` are the processes
at whose stderr task a `stop()` raised.  What is then left behind is named in the
properties: `NoOrphanProcess` excepts a process one of whose two readers crashed, and
`HeldCallsEnd` a call whose reader was cancelled by a `stop()` that raised.

Assumptions: `start`, `stop` and `restart` come one at a time (`op`), and after a
`stop()` that was cancelled the next is a `stop()`: the manager starts no transport
that it has not stopped; a process
closes its standard output only by exiting; what it had written before is read
before end of file or lost.  `MaxSpawn` bounds the processes ever spawned:
the last one spawned can exit, but a spawn after it is not taken.

### ConfigSwitch and RuntimeConfig

`ConfigSwitch` is what the callers of `apply()` may rely on, without lock, plan,
backup or phase: calls may overlap (`asked`), a call that ends with success puts the
configuration that it asked for in force at that moment, one that ends with a
failure leaves it.  `serving` is what the upstreams run: after a write that failed it
may be what the failed call asked for, as the run `config_rollback` shows, so `Fail`
allows that.  Three modules are related to it, each with `INSTANCE ... WITH`:

- `RuntimeConfig` implements it (`ImplementsSwitch`): `current` is `config`,
  `serving` what the transports serve, `asked` the candidates of those in `apply()`,
  waiting for its lock or holding it.  Nothing happens in the abstract until the
  commit or the rollback.
- `Onboarding`, which takes `apply()` for one step, is shown to use no more than
  it (`DurableIsSwitched`), with `current` the configuration that the next start of
  the process would find: a swap of the database, a crash in the middle of one and
  a start are steps in which the contract sees nothing, or its `Restart`.
- `FileDrop` likewise (`UsesSwitch`), with the upstreams as the configuration, and
  with configurations that `apply()` finds valid.

So what the two coarser modules take for granted of `apply()` is what the detailed
one is shown to keep, except that they never see a failure that leaves upstreams
behind: neither of them looks at what serves.

`apply()` and `apply_diff()` are one control flow, modelled by `phase`:
`telemetry`, `new telemetry`, `plan`, `upstreams`, `undo`.  A transport is the
pair of its upstream's name and the call that built it; a pipeline is named by
the call that built it.  `Apply` and `PersistFails` are everything from the
manager's commit to the return of `apply()`: nothing is awaited there.
`RestartStops` and `RestartStarts` are `UpstreamManager.restart`, which the admin
interface calls without the lock.

A `stop()` returns, raises or is cancelled; in the last two cases the transport is
`unstopped`, which says that its process may run on.  One that raises while the old
transports are stopped makes `apply_diff` roll back (lines 112-121); one that raises
in that rollback is swallowed (`UndoStart`, lines 126-130), and the manager forgets
the transport.  The admin interface runs `apply()` under `asyncio.wait_for`, so it can
be cancelled at any await (`CancelQueued`, `CancelApply`): `CancelledError` passes
both `except Exception` clauses, the lock is given back and nothing is rolled back.
`NothingLeftRunning` names what may then run on: the transports that a cancelled call
built, and those whose `stop()` raised in its rollback (`NotTakenBack`).

Two things are coarser than the code.  The transports to start are taken in any
order, the code takes them in the order of the definitions.  The diff of a plan
contains names only: routes, groups and secrets take the path of `raw`.

### OAuthManager

One HTTP upstream.  `pc[r]` is where `async_auth_flow` of request `r` is: waiting
for the upstream's lock (`locking`), at one of the awaits under it
(`discovering`, `registering`, `exchanging`), or with its first or second attempt
at the upstream (`sent`, `resent`).  A flow is one authorization, named by its
`state`; its `pc` is the part before the browser is sent away, `pending` is the
dictionary, `exchanging[f]` counts the `finish_authorization` calls that await the
token endpoint.  `token` is what memory has, `stored` what the secrets have.
Writing or deleting a secret awaits nothing, but it may raise after memory was changed
(lines 597-603, and 520-522 of a revocation): `Persist` and `Drop` say whether it was
`written`, and `unwritten` that the last change was not.  Then the callback or the
request fails, memory and secrets differ, and the next registration or restart brings
back what the secrets have; `MemoryIsPersisted` excepts that window.
Token sets are numbers in the order they are issued; `lapsed` are those past
their expiry, `forced` says that the one in memory was marked expired by a 401.

What the authorization server, the upstream and the clock answer is a choice.
A request keeps the refresh token it read before it waited for the lock (lines
557-570); which one an exchange carries is part of the choice whether the server
takes it.  `Register` and `Unregister` are what the hook after each apply does for this
upstream.  `Restart` loses whatever was awaited and loads the stored tokens; in
the code it is the construction of a new manager and `register_upstream`.
`unmarked` is a history variable: it says that a registration loaded a token set
again that a 401 had marked, the one case in which a retry can carry the token
that was just rejected.

### Onboarding

`databases[d]` is what matters of one database: its active configuration,
whether the secrets the configuration refers to are there, the onboarding row
with the stamp of the administrator's credentials, and whether the local
administrator is among the users.  `bootstrap` is what `bootstrap.json` names,
`store` the database that `state.config_store`, the secrets and `apply()` write
to, `authn` the one of the `AuthnManager`, which a swap does not rebind.

A call checks its access (`_require_onboarding_access` or the gate), then awaits
its body (`checked`), then computes a candidate from the configuration of that
moment and waits for `apply()` (`applying`); `queue` is the order of the lock.
`apply()` is `RuntimeConfig`'s subject and is here applied or refused in one
step.  `rebound` is `state.raw_config` once `set_authy_config` has made it an
object of its own.

The swap of the database awaits nothing between taking `_database_swap_lock` and
giving it back, so in a running process it is one step.  A crash is not bound to
awaits: `SetDatabaseCrashes` is the process that dies after each of its stages,
before or after `bootstrap.json` is replaced, and `SetDatabaseFails` the stage
that raises.

### FileDrop

`RegistrationService` and the watcher.  `files` is the directory, which other
processes change at any moment (`Write`, `Delete`); `known` is `_known`, and a time
of modification is the number of the write.  `watcher`, `gone`, `todo` and `present`
are the locals of `_scan_once`.  The watcher and the administrators' calls make a
whole configuration out of the one in force (`With`) and wait in `queue`; `apply()`
is again applied or not, and a definition in `Refused` is one that it finds invalid
before it takes its lock.  A file that cannot be opened or is not JSON is passed over
(`NoDef`).  One that is not UTF-8 (`Garbled`) raises `UnicodeDecodeError` through
`_scan_once` and `_loop`, which catch neither it nor anything else: the task ends
(`ReadRaises`, `watcher = "dead"`), and only a restart begins a new one.
`FilesArePickedUp` excepts a dead watcher, and shows that nothing else keeps a good
file from being picked up.  The restart loses `known` and keeps the configuration,
which is in the database.

`missed` and `touched` are history variables: what others have changed since an
actor in the queue made its candidate, and which upstreams have been changed by
anything but the file of their name.

### Wizard and Session

`Wizard` models `Onboarding.tsx` step by step.  `step`, `busy`, `stamped`,
`isDefault` and `card` are the state of the component, `form` and `result` that of
`StorageStep`, `provider` that of `AuthStep`, `catalog` and `selected` that of
`FirstServerStep`.  `asked[o]` are the arguments of the requests of kind `o` in
flight.  An action is one event of the tab: a click with its handler up to the
first await, or an answer with the code that awaited it and the effects that
follow.  Each request either has its effect or does not reach the server, and
each answer arrives or does not; `server` holds what of the process the wizard
can tell apart, and `Swapped`, `Configured` and `Issued` are what its endpoints
do to it (their own model, with their interleavings and crashes, is
`Onboarding`).

`Session` extends it by `App.tsx`: the effect that asks for the state of the
onboarding, the one that finds out who is signed in (`/me`, and with a token a
second request when that fails), the three ways in, the sign-out of the sidebar,
and `page` calls of endpoints for administrators.  `roles` is what each user is for
the server, and another administrator may promote, demote or delete one at any moment
behind the wizard (`ChangeRole`); `App` asks for the role once and goes on showing what
it was (`me`), while the server looks at the role of each call (`Who`, `AdminReply`).  A
cookie that verifies and whose user is gone is nobody, whatever the bearer says
(`UserOf`, middleware.py:57-60).  A call carries the token and
the cookie there were as it was sent; the server answers it at one moment, and
the page gets the answer at a later one.  `crossed`, `overtaken`, `edited`,
`tested`, `fallen` and `out` are history variables, each named in the property it is for.
`crossed` says that the user signed in while the cookie of an earlier session was
being probed, or beside the token it had left; `RoleIsTheirs` and `SignOutSticks`
except it.  `fallen` are the users who lost the role of an administrator, or were
deleted, during the session that is on: `RoleIsTheirs` lets the dashboard they had stay
until that session ends, and no longer.  `overtaken` says that AuthStep was submitted again while it waited
for the status; only `TokenIsAccepted` excepts it.

### LiveStream, Traffic, Overview, Graph and LiveViews

`LiveStream` is what the three live pages have in common: `log` and `dropped` are
the recorder of the process, `stream` is the subscription of the page with its
snapshot and its bounded queue, `polls` are the requests of the repeated poll in
flight.  `Traffic` adds the table with its first list, pause and filter,
`Overview` the buckets with a clock, `Graph` the records that wait for an
animation frame (`pending`, `scheduled`, `frames`), the statistics of the edges,
the pulses and the tick that fades them.  The sum of two exponentially fading
counts is abstracted to the counts and the ticks since the last record: what
matters is when an entry falls below the noise floor and is dropped.
`LiveViews` opens one of the pages (`opened`); `displayed` are the upstreams of the
last poll.  `touched`, `arrivals` and `seen` are history variables.  That the first
list and the snapshot fit the table (200 and 100 records, 500 rows) is an
assumption of `Traffic`, and that a page may poll as it opens one of `LiveStream`.

### Console, Roster, Editors, Inquiry, RoutesPage, UpstreamForm and Pages

`Console` is what the other pages have in common: `calls` are their requests in
flight, `busy` and `error` their state, `revision` what the server holds,
`shown` what is on display, `due` what the operator was told was done, `missed`
that a load failed or was overtaken by a later one.  A change makes a new
revision; on the pages of questions the revision is the question.  `Roster` is the
three pages with rows, `Editors` the two with a document, `Inquiry` the four that
ask, `RoutesPage` the list of upstreams, `UpstreamForm` Browse with its two
dialogs.  `Pages` visits one of the eleven.

The form is the one place with data: `Forms` are the fields that may be filled,
`CanSubmit` is `canSubmit`, `Payload` what is posted, and `Valid` the schema of
`config.py`.

## The runs

| Run | Instance | Shows |
|---|---|---|
| `bridge` | two requests, one notification, two places; 21 305 states | places, records and tasks add up in every interleaving; the bridge implements `ForwardLedger`; shutdown drains requests |
| `stdio` | call `a` with id `one`, call `b` with id `one`, `two` or none; two processes; 1 707 368 states | the table of futures is exact (`NoLostWaiter`, `PendingUnresolved`, `AnswersFit`), there is one reader and one process (`OneReader`, `NoOrphanProcess`), an exit ends those who wait |
| `config` | two names, two settings, two telemetry sections, five configurations, two applies and a restart at any await, each of which may be cancelled or find a `stop()` that raises; 725 365 states | memory and store agree, the manager's record is true, `apply()` keeps the contract of `ConfigSwitch` (`ImplementsSwitch`), nothing is left running but what a cancelled call built or a failed `stop()` kept (`NoStrayTransport`, `OnePipeline`), every apply returns unless a `stop()` hangs |
| `config_rollback` | the same | *violated*: a failed write leaves the rejected upstreams in service |
| `oauth` | two requests, one authorization, two token sets, one configuration that registers a client and one that names its own, secrets that cannot always be written; 801 946 states | memory agrees with the secrets wherever the last write succeeded, exchanges are exclusive (`OneExchange`, `StateUsedOnce`), a retry has a new token, every request ends |
| `onboarding` | two databases (the second empty, or used by a finished deployment), four calls of any kind; 769 560 states | the configuration in force is the stored one and the one a restart finds, in the middle of a swap too, its secrets are with it, and it changes only as `ConfigSwitch` says (`DurableIsSwitched`) |
| `filedrop` | two upstreams, one good definition and one that is refused, a file that is not UTF-8, one call, two writes, one restart; 215 116 states | what the watcher takes for done is in force; good files are picked up while it lives; a registration is lost only to a call that overlapped it; `apply()` is used as `ConfigSwitch` promises it, and nothing refused is in force (`UsesSwitch`) |
| `session` | two tokens of which one runs out, two calls, one sign-out, one reload or change of a role, one dialect besides SQLite; 1 407 457 states | the wizard shows as done what was done, leaves an accepted token, saves what it tested and swaps nothing later (`SwapIsSound`: `SaveIsTested`, `NoSwapAfterStamp`); roles and sign-outs hold; no wait is for ever (`WaitsEnd`) |
| `wizard_stale_ok` | one token, one call | *violated*: "Connection OK" under a form that was not tested |
| `live` | two upstreams of which one is registered, records of three kinds, two records, a snapshot, a queue and a table of one, two buckets of width two, two polls, one failure; 427 002 states | what the pages count and show is what the stream delivered (`GraphIsExact`: `OneFrame`, `EdgesCountRecords`); the picture catches up (`RecordsAreDrawn`, `TopologyCatchesUp`) |
| `pages` | two upstreams, two requests, two changes, one failure; 158 288 states | a page at rest is current, the form fits the schema, the toast is true, buttons come back |
| `pages_refusal` | one request | *violated*: "Applied." of a configuration that was refused |

Names in parentheses are the conjuncts of the property a run names.  `TypeOK` of
each module types its variables; it is kept as documentation and, where proofs
need it, proved.

### Bounds, and why they are enough

`QueueSize = 2` with three calls is the least that has a full queue, a place
given back and taken again, and two calls racing with one shutdown.  Two calls
on the stdio transport are the least that share an id or queue for the lock, two
processes the least with a respawn whose old reader could interfere.  Two
applies are the least where one waits for the lock of the other, or where one
starts from what the failure of the other left; two upstreams are the least
where one is started and the next fails.  Two requests and one authorization are
the least where a refresh waits for another, and where a 401, a finished
authorization and a refresh meet; `MaxTokens` bounds the answers of the server
that carry tokens, and two is a first set and its renewal.  An authorization can
come before or after the requests.  Four onboarding calls allow a swap to come
between the check, the candidate and the apply of three others; calls may be
used up while the process stops and starts without bound.  Two writes of a file are
the least where it changes between the listing and the end of its apply; one
restart is the least that loses the watcher's record.

In the session, two tokens are an old one and the one that replaces it, two
calls are a probe and what overtakes it, and `MaxUpsets` is one reload or one change
of a role: a demotion, a deletion or a promotion in the middle of any sign-in,
probe or sign-out.  The wizard and the gate see two dialects,
one that may be saved untested and one that must be tested; a target differs from
another by its dialect, or by being a URL.  On the live pages, a queue and a table
of one are full at once, and two records are the least where one is dropped or
cut off; two buckets of width two have a first and a last instant and one to shift
into; two polls are the least that overtake each other.  On the other pages two
requests are the least that overtake each other, and two revisions the least
where a load is behind; the run was repeated once with three revisions, with the
same outcome.  `CHECK_DEADLOCK FALSE` stands where calls, records or revisions are
finite in number, so that a behaviour may end when they are used up.  The process
of `Onboarding` can always be stopped or started again, and its run does look for
deadlocks.

### Fairness

`FairSpec` of the bridge is weak fairness of each call's own steps: the event
loop runs every task that is ready.  Nothing is assumed of clients, signals,
upstreams or timeouts, so `ShutdownDrains` holds though an upstream never
answers.  For the stdio transport it is weak fairness of the reader at end of
file, of a request whose future is resolved and of a stop that was begun, up to its
wait for the pipe.  For
the configuration, the awaits of a pipeline and of a transport's `start()` end and a
free lock is granted; nothing is assumed of a `stop()` (`StopStep` has no fairness),
because the stdio transport waits for the pipe to its subprocess without a timeout
before it terminates it (stdio.py:96-98).  `ApplyReturns` says that this is the only
await at which an apply, and the lock, can be held for ever; that a call is cancelled
is never assumed.  For OAuth requests,
every await ends: the clients that talk to the authorization server and to the
upstream have time-outs, and a lock that is free goes to one who waits.  That a
request is cancelled is never assumed.  For `FileDrop`, the watcher polls, every
`apply()` returns, and one that is tried again and again for the same file is
applied at some time (strong fairness: `FilesArePickedUp` is about failures that
pass).  `Onboarding` has no liveness property: the only wait in it is the one for
`apply()`, whose end is `ApplyReturns`.

In the dashboard, every request is answered or fails (the browser gives up on a
connection at some time) and the handler that awaits it goes on.  The live pages
also have a browser that draws the frames it was asked for and ends its
animations, and a poll that repeats.  Nothing is assumed of the operator, of other
administrators, of the tab being visible, or of the success of any one request; but
the streams and polls of a live page fail at most `MaxOutages` times, and the requests
of the other pages are lost at most `MaxFailures` times, so `PageCatchesUp` and `ButtonsComeBack` are about
failures that pass.  `WaitsEnd` needs no such bound.

## The proofs

`ProxyBridgeProofs` proves, for every set of calls, every subset of
notifications and every positive queue size (`CallsAssumption`,
`QueueAssumption` of `ProxyBridge`):

| Theorem | States |
|---|---|
| `Invariance` | the inductive invariant `BridgeInv` |
| `TypeCorrect` | `TypeOK`, and with it that the queue never exceeds its size |
| `SlotsNeverLeak` | `SlotsMatchCalls` |
| `AnswersRecordedOnce` | `OneRecordPerAnswer` |
| `TasksEndWithTheirCall` | `OnlyAbandonedCallsLeaveTasks` |
| `BridgeImplementsLedger` | `ImplementsLedger`: the refinement of `ForwardLedger` |

`BridgeInv` conjoins the typing, the account of places, the account of records,
and two parts that make them inductive: `TurnHolder` (a call is `arrived`,
`admitted` or `cleared` exactly when it holds the turn) and `TasksFollow` with `OutcomeFollows` (which states of
its tasks and which outcomes a call can have at each await).  Without them a step
out of an unreachable state, such as an admitted call that already has an
outcome, would break the properties.  The proof has one lemma per action, with
one step per conjunct the action can disturb; three lemmas (`Entering`,
`Leaving`, `Staying`) say how an action changes the cardinality of the try block.
The refinement maps every step to a step of the ledger or a stutter (`Stage`).

`OnboardingProofs` proves, for all sets of databases, upstreams, policies and
calls (`OnboardingAssumption` of `Onboarding`: the default database is one of the
databases, the placeholders are not values they stand in for):

| Theorem | States |
|---|---|
| `Invariance` | the inductive invariant |
| `RestartsKeepConfig` | `RestartFindsConfig` |
| `MemoryFollowsStore` | `MemoryIsStored` |
| `SecretsAreCarriedAlong` | `SecretsFollow` |
| `TypeCorrect` | `TypeOK`, and with it that only calls in `apply()` are in its queue |
| `DurableSwitches` | `DurableIsSwitched`: the refinement of `ConfigSwitch` |

None of the three invariants is inductive.  `InStep` adds that the store in use
is the one a restart opens while the process runs: a swap sets both, and a crash
between the two leaves no process that could tell.  `DownIsIdle` says that a
process that is down has no call past its start and none in the queue, or else a
step of a call could change a database that nobody has open.  `SecretsReady`
says that the secrets are there not only for the configuration in force but for
every candidate that waits for `apply()` and for the configuration `set_authy_config`
left in `state.raw_config`, in the database in use, wherever a swap has moved it
meanwhile.  That is what makes `SecretsFollow` hold when such a candidate is
applied after the swap: the copy takes every secret, not those that the active
configuration refers to.  There is one lemma per action.

The refinement needs `Queued` besides: a call is in the queue at most once and is
`applying` while it is there, so the one that leaves with the lock is one that has
asked, and it alone ends (`LeavingEnds`).  `DurableIsMemory` says that what a start
would find is what is in memory, which `InStep` gives; every step but a commit
leaves it (`DurableStays`), those that move the database or crash while it moves
included.

`FileDropProofs` proves, for all sets of upstreams, definitions and calls and any
number of writes and restarts (`FileDropAssumption` of `FileDrop`):

| Theorem | States |
|---|---|
| `TypeCorrectness` | the typing, and that an actor is in `apply()` at most once |
| `DoneFilesStayInForce` | `DoneFilesAreInForce` |
| `OnlyOverlapsLose` | `OnlyOverlapLoses`, an action property |
| `RegistrationsSwitch` | `UsesSwitch`: the refinement of `ConfigSwitch` |

The invariant adds `Overlap`: a configuration that waits differs from the one in
force only in the names it is about and in those that others have changed since
it was made.  `Past` and `Reading` relate the times of modification the watcher
has seen, and the one it is reading, to those in the directory.  The action
property follows from the invariant in the state before the step.  The refinement
adds `Accepted`: the configuration in force and those that wait have no definition
that `apply()` refuses.  That is an invariant because a candidate is checked as it
enters and is a whole configuration, so it stays valid whatever is applied before it.

`StdioTransportProofs` proves, for any calls, ids and number of processes
(`StdioAssumption`: finitely many calls, each with any set of ids, so that two may
use one at once):

| Theorem | States |
|---|---|
| `Invariance` | the inductive invariant `StdioInv` |
| `TypeCorrect` | `TypeOK` |
| `WaitersAreFound` | `TableIsExact` |
| `OneReaderOneProcess` | `OneOfEach` |

The invariant has three parts.  `TableInv` is about the table of futures: a call has
its id and its future from the moment it is entered, and a process holds only
requests, so whoever finds a call under an id may resolve it.  `AnswerInv` is about
what the process was sent, which `AnswersFit` alone does not say: a request it holds
is with no other process and not answered yet (`HeldIsOpen`), one that was answered
was written (`AnsweredWasWritten`).  `ProcessInv` is about the reader and the
process: `OneOfEach` alone would allow a reader that respawns over a process that
still lives, or one that a `stop()` cannot find.  `ReaderIsCurrent` says that an
active reader belongs to the process in use and is the one a `stop()` cancels,
`ReplacesTheDead` that a reader in its back-off has lost its process, and
`LiveIsAttended` that a live process has a reader or a `stop()` on its way to it, or one that gave up at
the stderr task.  `StderrIsCurrent` says that the stderr task a `stop()` raises at is that
of the process in use, so no other process is ever left behind by it.

`RuntimeConfigProofs` proves, for any names, settings, configurations and calls
(`ConfigAssumption`):

| Theorem | States |
|---|---|
| `Invariance` | the inductive invariant `ConfigInv` |
| `TypeCorrect` | `TypeOK` |
| `NeverTornApart` | `MemoryMatchesStore` |
| `RecordHolds` | `RecordIsTrue` |
| `NothingIsLeft` | `NothingLeftRunning` |
| `SuccessIsReal` | `AppliedTakesEffect`, an action property |
| `ApplyIsAtomic` | `ImplementsSwitch`: the refinement of `ConfigSwitch` |

The properties speak of the moments between two applies, or of the commit, and an
apply gets there in many steps, of which each can raise.  The invariant says how
far it has come: `LockInv`, that one call holds the lock and that the backup is
what is in memory until the last step; `PlanInv`, that what was started and stopped
and what is still to do are together the difference between the record of the
manager and the candidate (`DiffIsExact`), which at the end of the loop is what
`AppliedTakesEffect` says; `TransportInv`, that what runs and does not serve was
started by the apply in progress, by one that could not take it back, or by a
`restart()` beside it (`StrayIsKnown`); `PipelineInv`, which
pipeline runs at each step.  `NothingLeftRunning` keeps the exceptions that its run
needs: what a `restart()` started again, what a cancelled call built, what a `stop()`
that raised left, and pipelines after a rollback or a cancellation.

`ApplyIsAtomic` maps every step to a step of `ConfigSwitch` or a stutter.  To start,
stop and undo transports is out of sight (`OutOfSight`), because a transport that
was started does not serve before the commit; the commit is `Succeed`
(`CommitServes`, by `DiffIsExact`); a rollback is `Fail`, with the upstreams as they
were (`RollBackFails`) or, after a write that failed, as they were asked for; and so is
a cancellation, before the commit (`CancelFails`).  That the configuration is left as it was follows from `LockInv`: the backup is still what
is in memory.  `SuccessIsReal` adds what the contract cannot say, because it does not
name the answer of a call: one that reports success has put its candidate in service.
No run checks `AppliedTakesEffect` beside `ImplementsSwitch`; the theorem covers it.

`SessionProofs` proves, for any dialects, texts, tokens and number of calls,
sign-outs, reloads and changes of roles (`WizardAssumption`, `SessionAssumption`: the users and the
marks for no user and no token differ):

| Theorem | States |
|---|---|
| `Invariance` | the inductive invariant `SessionInv` |
| `TypeCorrect` | `TypeOK` |
| `DoneIsDone` | `StepFollowsServer` |
| `TokenWorks` | `TokenIsAccepted` |
| `RoleHolds` | `RoleIsTheirs` |
| `SignOutHolds` | `SignOutSticks` |
| `NoSwapBehind` | `NoSwapAfterStamp`, an action property |
| `OnlyTestedIsSaved` | `SaveIsTested`, an action property |
| `SwapsAreSound` | `SwapIsSound`, the two together |

`WizardInv` says what holds the wizard together: its one `busy` lets one request be
in flight (`OneRequest`), each kind of request belongs to its step (`Stages`), and
what is known of the server at each of them: `StampIsSure` is why
`NoSwapAfterStamp` holds although the server would allow the swap.  `AppInv` is
about the page behind it.  `Settled` says that nobody is signed in, or about to be,
at a server that still requires the wizard.  The rest holds as long as nobody
signed in across an earlier session: a probe that is listened to carries the
credentials the browser has (`ProbeIsOurs`), so an answer that makes someone an
administrator is about them or about one who has lost the role since (`AdminIsReal`),
and after a sign-out no sign-in is in
flight (`OutIsClean`), because the gate is only there when no one is signed in
(`OneSignIn`).  `overtaken` is no exception there, only in `TokenIsAccepted`.

`PagesProofs` holds the theorems about the other pages of the dashboard.  For
`Pages`, for any names of upstreams and any numbers of requests, revisions and
failures (`ConsoleConstants`):

| Theorem | States |
|---|---|
| `Invariance` | the inductive invariant `PagesInv` |
| `PagesAreCurrent` | `Current` |
| `FormsAreAccepted` | `FormIsAccepted` |
| `ToastsAreTrue` | `ToastIsTrue` |

`Current` speaks of a page at rest and says nothing of how it came to rest.
`InTime` does: while a page does not show what was promised, a load is in flight
whose answer will be new enough, or whose failure will be noticed.  It needs that
a load that has not reached the server yet will be answered with the revision of
then, which is no older than any promise, and that on the pages of questions the
answer to the last question is on its way whatever comes before it.  `Carried`
says of each registration in flight that it fits the schema, and of one that was
answered with success that its upstream is among those registered, which is what
the toast and the dialog use however late the answer is.  A step of a page is one
of seven moves of a handler (a click that asks for nothing, a request, the next
request of the same handler, an answer that ends it and is displayed or not, a load
that failed, a dialog that is closed); there is one lemma for each move, two for
the server and the network, and the lemmas of the pages only say which of them an
action is.  `SubmittedIsValid` is the fact about the form: whatever `CanSubmit` lets
through, `Valid` accepts after `Payload`.

For `LiveViews`, for any limits of the queue, the snapshot and the table, any number
and width of buckets, any windows and any number of records, polls and failures
(`LiveStreamConstants`, `TrafficConstants`, `OverviewConstants`, `GraphConstants`):

| Theorem | States |
|---|---|
| `ViewsInvariance` | the inductive invariant `ViewsInv` |
| `ViewsTypeCorrect` | `ViewsTypeOK` |
| `TableMissesOnlyDropped` | `TableIsComplete` |
| `ChartCountsArrivals` | `ChartIsHistogram` |
| `FrameIsAsked` | `OneFrame` |
| `NoRecordCountsTwice` | `EdgesCountRecords` |
| `GraphCountsExactly` | `GraphIsExact`, the two together |
| `PulseRateIsBounded` | `OnePulsePerFrame`, an action property |

`TableIsComplete` counts the records that are nowhere.  To keep the count, the
invariant has to say why each is not there.  Until the table follows the stream,
`QueueIsComplete` does: those of the subscription that do not wait in the queue are no
more than were dropped.  Then `RowsAreComplete` does: some number `k` of the first
rows came by the stream, in order and older than all that waits (`TopRows`); a
record is lost (`Lost`) when it neither waits nor is among them nor was pushed off
the end by as many younger ones, and the lost are no more than the dropped.
`TopRowsKept` is the step that matters: a record that goes on top pushes off only
the oldest row, and loses none.  The chart needs that a record does not arrive twice
(`ArrivedBefore`) and that its buckets are in order, do not overlap and have begun
(`Spaced`); otherwise the shift, which forgets the first bucket, could forget
arrivals that another still claims to count, and a record that comes just after the
last bucket could fall between two (`HistogramKept`).  For the graph,
`FlushedFacts` shows that a frame adds to the statistics of each edge what it takes
from the records that wait, and `PulseFacts` that it starts a pulse in one colour
only.  Cardinalities of sets of records are compared through the library's
theorems on finite sets; `OneMore` and `OneMoreArrival` are the two facts used.

`OAuthManagerProofs` proves, for any sets of requests, flows and configurations and
any number of token sets (`OAuthAssumption` of `OAuthManager`):

| Theorem | States |
|---|---|
| `Invariance` | the inductive invariant `Inv` |
| `TypeCorrect` | `TypeOK` |
| `ServerIsAskedOnce` | `ExchangesAreExclusive` |
| `MemoryHoldsWhatIsStored` | `MemoryIsPersisted` |
| `RetriesAreWorthwhile` | `RetryHasNewToken`, an action property |

That a state is exchanged once needs the order in which a flow is entered, taken
out and exchanged (`FlowsOnce`).  That a retry has a new token needs
`RejectedIsMarked`: while a request that got a 401 waits for the lock or the server,
the token set it was rejected with, where it is still the stored one, is also the
one in memory and is marked expired there, or else a registration has loaded it again,
which `unmarked` records.  `RejectedIsMarked` in turn needs `MemoryIsPersisted`: the
mark is put on what is in memory.  The steps of a request are moves from one await to another
(`Move`, with the lock taken or given back), so `OneExchange` is shown once, in
`MoveKeeps`, and not once per action.

Only model-checked: liveness (`ShutdownDrains`, `HeldCallsEnd`, `ApplyReturns`,
`FilesArePickedUp`, `RequestEnds`, `WaitsEnd`, `PageCatchesUp`, `ButtonsComeBack`),
which is out of the prover's reach under fairness, as is `ENABLED`; and `TypeOK` of
`Pages`, whose bounds on requests and revisions are those of the instance.  The theorems
are about the specifications without fairness, so they hold of the fair ones as
well.  No module has a recursive definition, so no theorem needs an induction over
data.

## Findings

Three runs end in a violation of something the repository says of the program;
`PROJECT.json` quotes the lines.

Others were met while modelling and have no run.

*Said of the process, and not so.*  "The watcher loop catches its own per-scan errors"
(`discovery/registration.py:178`): a file that is not UTF-8 ends it, as `FileDrop`
models.  `docs/architecture.md:154` gives code -32000 for
a full queue where `forward()` answers -32002, and lines 157-158 say that the
in-flight request is retried after a subprocess exit where the code answers it
with nothing.  A call that is dispatched and then times out, or whose transport
raises, leaves no traffic record, where `proxy/bridge.py:49` says "called once per
forwarded request".  A respawn that fails is never retried, where
`proxy/stdio.py:128` says "next reader EOF will retry": the reader that would see
it has returned.  The file that `docs/admin-guide.md:328-338` shows has its
definition under the upstream's name, a shape that `_normalize_drop_payload`
refuses.  The comment at `server.py:1561-1566` says that a swap only happens before
the token is set, because the gate rejects the endpoint afterwards; the gate lets
every endpoint of the wizard through (`server.py:812`), and
`_require_onboarding_access` closes them when the wizard is completed or expires,
not when the token is set; `Onboarding.tsx:168-169` relies on it too, and it is
the busy state of the page that keeps its promise (`NoSwapAfterStamp`).
`storage/schema.py:129-130` says the stamp keeps a second round trip from
overwriting the token, and `set_admin_token` does not look at it.  `server.py:757`
says a restart reopens an expired wizard; its row keeps the time it was created
at, so it stays expired.

*What the process does that a reader may not expect*, and that the models contain:
two clients that use the same JSON-RPC id on one stdio upstream can get each
other's reply; a refresh in flight brings back the tokens that a revocation
removed; after the wizard has set up Authy the policies endpoint applies a copy
of the configuration that is no longer followed; the `AuthnManager` keeps the
database from before a swap, in which the next local administrator is looked up;
a file that is deleted around a restart, or whose removal is refused, leaves its
upstream.

*Said of the dashboard, and not so.*  `Onboarding.tsx:167` wants to "start on the
right step if the operator reloaded mid-flow": once the administrator is set the
server does not ask for the wizard any more, so after a reload it starts at its
first step or not at all.  Its header (lines 29-53) describes a route and
an endpoint that it does not use.  The hint of the form for a name says that it is
lower case, and its expression takes upper case.  A warning of a registration
(`server.py:1846-1848`) is never seen, because `onInstalled` closes the dialog that
would show it.

*What the dashboard does that an operator may not expect*, and that the models
contain: a 401 to a request that was sent with an old token removes the one that
replaced it (`client.ts:42`); the first list of the Traffic page replaces what the
stream had put on it; the time-out of one toast clears a later one; a
registration that is answered after its dialog was closed closes the one that
was opened since; a first scan that fails leaves the Import page without a button
to repeat it, and an import unticks what was ticked meanwhile; the load after a
save overwrites what was edited since, and a save before the first load removes
every policy (`Policies.tsx:307`).

## What is not modelled

`PROJECT.json` (`components`) lists every part.  Left out for good: formatting,
logging, parsing of configuration documents, SQL dialects and migrations, TLS
material, the components that draw (`TrafficGraph`, `Card`, `Badge`) and the tables
of the pages, the client package and the installers, which are pure functions,
one-shot commands or layout; `TokenStep` of the wizard, which nothing renders.

Of the modelled parts, the Config page of `Editors` leaves out that the operator sees
`***REDACTED***` in the place of secrets and may post it back; `Onboarding` leaves out `MCPXY_DB_URL` (with it a start
ignores `bootstrap.json`), a seed configuration file, administrators who are not
the wizard's local one, and the endpoint that tests a database without changing
anything; `OAuthManager` leaves out that upstreams share an HTTP client, which
holds no state they could see; the dashboard is one tab, and a page that is left
and visited again starts anew, as its code does.  `StdioTransport` assumes that
`start`, `stop` and `restart` come one at a time.

Left for the next steps: points 10 to 12 of the plan.  The policy engine and the
routing are sequential code that their tests reach; users and invites are single
transactions, of which one pair is not (`accept_invite`); the telemetry pipeline
is a queue with two ways to drop.
