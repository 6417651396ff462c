# Verification of the sing-box panel

TLA+ models of the panel under `src/backend`: what its goroutines, its HTTP
handlers, its web UI and its database tables do to each other. TLC checks the models on
small instances; TLAPS proves the main results for every instance.

## The system

The panel is one Go process over one SQLite file (or a Postgres database). With SQLite there
is a single connection, so every store call is a transaction of its own, and a handler
makes several. The process watches a fleet of sing-box nodes through their Clash API,
hands out subscription links to them, and serves an API and a web UI that calls that API.

| Component | State | Operations | Talks to | What makes it correct |
|---|---|---|---|---|
| sampler worker (`sampler/worker.go`) | per node: online state, `lastSeen`, `perIPActive`, `ipAcc`, sums and peaks, backoff | session, two reader goroutines, Drain, Stop | node streams, hub | each byte and connection counted once; nothing stale after a disconnect; Stop returns |
| sampler hub (`sampler/hub.go`) | map of workers, its context, `h.mu` | Start, Reload, Stop, flush tick, maintenance | handlers, workers, store | the running workers are the wanted nodes; nothing runs after Stop |
| traffic and IP tables (`store/traffic.go`, `store/ips.go`) | samples, rollups, `ip_stats`, `ip_daily` | upserts of a flush, ClearActiveIPs, pages, pruning | hub, pages | rollups nest, samples and rollups agree, a walk over the pages is complete |
| sessions (`auth/jwt.go`, `api/session.go`, `webui/auth.go`, `store/auth.go`) | `refresh_tokens`, issued JWTs, the rotation cache | login, refresh, silent rotation, logout, revocation, profile edit, pruning | users | a token is redeemed once; no session survives a revocation |
| user accounts (`api/users.go`) | `users` | create, update, delete | sessions, subscriptions | ids are reused: tokens of a deleted account are dead |
| node API (`api/nodes.go`) | `nodes`, idempotency store | create, patch, delete, import of a configuration | hub, remote configuration | no edit on data its client has not seen, no half import, no orphans |
| ICMP monitor (`monitor/icmp.go`) | latency and failure counters in `nodes` | ping round, automatic disabling | nodes | disables only after consecutive failures |
| settings (`api/settings.go`, `store/misc.go`, two forms) | the settings row and its revision | get, patch, images | hub, monitor | no lost update |
| subscriptions (`api/subscription.go`, `store/misc.go`, buttons of two pages) | token and time of the last reset | fetch, reset, revoke | nodes, users | a dead link serves nothing; a reset waits for the cooldown of the recorded ones |
| probe operations (`api/monitoring.go`, `probe/probe.go`) | `operations`, `exit_ip_checks`, a semaphore, child processes | start, run, finish | nodes | every operation ends; slots and processes are given back |
| geo lookup (`geo/geo.go`) | cache, calls in flight, budget per minute | lookup | provider | one request per address; waiters return |
| rate limiters (`auth/ratelimit.go`, `webui/auth.go`) | window per address | Allow, RetryAfter, collection | login, refresh, subscription fetch | the window's limit; who is refused is let in once the window ends |
| setup, bootstrap, migrations (`webui/setup.go`, `cmd/panel`, `store/store.go`) | `database.json`, key and password files, schema version | first start, upgrade | everything | nothing lost over a stop at any place |
| pages, sums, REST client, encryption, HTTP plumbing | none of their own | | | |

The hard behaviours are listed with their lines under `hazards` in
`PROJECT.json`: frames that arrive while a flush is in progress, transactions of one operation
of which any may fail, stops between them, handlers that commit in the middle of a Reload, races for
one refresh token, a row read before an edit or a ping and written after it, two requests
over the same anchor, resources that have to be given back on every exit.

## Modules

| Module | Models | Checked by |
|---|---|---|
| `Sampler` | one node, its worker, the hub acting on that worker, the node's rows in the store | `MCSampler` |
| `SamplerProofs`, `TrafficProofs` | theorems about `Sampler`: the per-IP counters, the traffic tables | TLAPS |
| `HubReload` | the hub's worker map against the `nodes` table and the settings | `MCHubReload` |
| `HubReloadProofs` | theorems about `HubReload` | TLAPS |
| `Sessions` | users, refresh tokens, JWTs, the browser's rotation | `MCSessions` |
| `SessionsProofs` | theorems about `Sessions` | TLAPS |
| `NodeEdit` | one row of `nodes` between its editors and the ICMP monitor | `MCNodes` |
| `NodeImport` | an anchor and its imported children, the idempotency store | `MCNodes` |
| `NodesProofs` | theorems about `NodeEdit` and `NodeImport`, as `MCNodes` puts them together | TLAPS |
| `Settings` | the settings row, its forms and uploads | `MCServices` |
| `AtomicSettings` | what the settings promise; `Settings` implements it | `MCServices`, TLAPS |
| `SettingsProofs` | theorems about `Settings` | TLAPS |
| `Subscription`, `Probe`, `Geo`, `Limiter`, `Listing` | the services of these names | `MCServices` |
| `ServicesProofs` | theorems about these five, as `MCServices` puts them together | TLAPS |
| `Startup` | from process start to the first request served | `MCServices`, `MCStartup` |
| `StartupProofs` | theorems about `Startup`, and the types of all services | TLAPS |

`Sampler` and `HubReload` are two views of the hub. `Sampler` keeps one worker with
all of its data and lets the hub restart, replace or stop it at any time;
`HubReload` keeps the decision when that happens, over several nodes, and reduces a
worker to running or stopped.

`MCNodes` and `MCServices` check modules that read nothing another one writes. There is nothing to
gain from interleaving them, so `part` chooses which of them a behaviour is of.

### Sampler

The per-IP counters are sums over connections, and the code only adds to them or
moves them whole, so the model keeps the summands: `acc[c][m]` is what connection
`c` contributed to meter `m` (up, down, connection count) of
`ipAcc[SourceIP[c]]`. That makes "counted once" a statement about each connection.

| Code | Model |
|---|---|
| `Worker.Start`, `session`, `markOnline`, `markOffline` | `Connect`, `OpenStreams`, `SessionEnds`, `BackoffElapsed`, `BackoffCancelled`, `MarkOffline` over `wpc`, `backoff`, `online` |
| reader goroutines | `readers`; `ReadTraffic`, `ReadConnections`, `ReaderFails` |
| `accumulateTraffic`, `applySnapshot` | `AccumulateTraffic`, `ApplySnapshot` (`ByteDelta`, `Credited`, `Changed`) |
| `Drain` | `Drain`, into `batch` |
| `flushWorker` | `SetLastOnline`, `InsertTrafficSamples`, `UpsertRollups`, `UpsertIPStats`, one step each, each of which may fail |
| `Reload`, `Stop`, `Start` on this worker | `StopWorker`, `FlushStopped`, `GetNodeFails`, `RestartWorker`, `ClearReplaced`, `StartWanted`, `ClearOnShutdown`, `Boot` |
| the panel dies (`restart: unless-stopped` in the compose file) | `Crash` |

`shown`, `received`, `workers`, `failed`, `missed` and `ops` are history: no action
of the code reads them, except that `ops` bounds the operator. The connection
table of the node (`NodeStep`) is external. A frame shows that table at the moment it
is applied; a frame delayed in transit is a frame of a node whose later steps have not
happened yet. `SIGTERM` cancels the workers a moment before `Hub.Stop` does; here
`StopWorker("shutdown")` is that moment, and `HubReload` separates the two.

### HubReload

`rpc` is the program counter of the holder of `h.mu` (Reload or Stop); every
store call of Reload is a step of its own and may fail, and handlers commit changes
between them. A handler that has committed is counted in `pending` until its Reload
takes the lock; a handler whose configuration import fails after the commit returns
without one, and so does the ICMP monitor when it disables a node (`AutoDisable`). The nodes written in this way are
in `skipped` until a Reload has listed the table again: it is for them alone that the properties promise nothing. `serving` becomes true when `Hub.Start` returns: before that
there are neither handlers nor ticks. The flush of a worker is reduced to what it does
to `active_connections`. Nodes imported from a configuration have no Clash API (`NoAPI`); the
handlers that create and delete them together with their anchor touch nothing Reload looks at.

### Sessions

A session is a jti: `jwt[t]` are the claims the client holds for good, `rows[t]` is the
row that makes them valid. `acct`, `pwd` and `era` record which account logged
in, with which password, and after which revocation the session was registered. A login is two steps
(`LoginLookup`, `LoginIssue`) because the code makes two transactions; a browser
request is `PageRequest`, `PageRotate` and, depending on the outcome, `RememberPair`
or `RecentPair` and `VerifyCached`. The profile form (`ProfileVerify`, `ProfileUpdate`) changes its own
account through the API, which revokes every session of it, and goes on to `LoginIssue` for a new one.
`CreateUser` hands out the largest id in use plus one, as
SQLite does for an `INTEGER PRIMARY KEY` without `AUTOINCREMENT`. Clients that repeat a wrong
password, and the rate limiter in front of the handlers, change no state here.

### NodeEdit and NodeImport

`NodeEdit` keeps the columns of a row that the races are about: `enabled`, the failure count and `at`, the
`updated_at` its ETag is made of, with the resolution of the code (one clock unit is a second). A PATCH is
`GetNode` by the client, `PatchRead` and `PatchWrite` by the handler; `FormPatch` is the web UI's form, which
reads the row and sends a PATCH without `If-Match`. A round of the monitor lists the rows, pings them one by one
(`CheckNode`, writing latency and count), and reads and disables a node whose count has reached the
limit (`FetchNode`, `AutoDisable`). Every store call may fail.

`NodeImport` keeps documents as sequences of proxies: `ParseClashConfig` drops what cannot be converted, numbers
duplicate names and chooses the mode. An anchor has a row as long as it is in the domain of `anchor`. The loop of the import is one step per store call, with
`ChooseName` searching a free name and the rollback after an error. `POST` and `PATCH` lead
into the same import. The idempotency store is memory: `Expire` and `Crash` empty it.

### Services

- `Settings`: `PatchRead` compares the ETag in one transaction, `UpdateSettings` writes the merged row in another
  whose WHERE clause names the revision. Uploads count the revision up too. `Patchable` leaves out
  the `icmp_*` columns, which the handler does not take from a patch.
- `Subscription`: the two lookups and the export of `GET /sub/{token}`, and the buttons of the web UI, which
  check the cooldown, stamp it and reset the token in separate calls. The stamp may fail, and the code goes on to the reset.
  `stamped` is the history of the stamps that were written, and `seen` what a tab's check had before it; the property
  is about the POST that carries a reset out, not about its stamp.
- `Probe`: the handler up to the 202, the goroutine over each exit of `runProbe` and `Runner.Probe`, the sing-box process
  beside it, failing writes, a panic, the deletion of the node and a crash.
- `Geo`: budget check, join or call, and removal are critical sections of their own; fetch is between them.
- `Limiter`: both limiters for one key, with the collector, in ticks of which a second has several. `route` says whose key
  it is: `/session` and `/session/refresh` announce the rest of the window, `/sub/{token}` a constant, and the login form has the sliding
  limiter. Allow and RetryAfter are two critical sections, so a refused request waits in `refused` for its answer. The events a limiter
  remembers, and the log of the history, are sets: an event is a time and its number.
- `Listing`: five lists by the key their SQL sorts and compares by; rows come, go, move and are edited between two pages. The
  range of `/traffic` has ends the client gave, which the next link carries, and ends that `SlideRange` moves with the clock. A
  page is the set of rows of which no other one after the cursor comes earlier; `shown` counts how often a row appeared.
- `Startup`: choice of the database, wizard requests in flight, the migrations of each kind one by one (SQLite) or
  schema and version at once (Postgres), key and password files created and filled in two steps, first
  account. `Stop` cuts the process off anywhere and `Upgrade` installs a release with more migrations.

## Runs

| Run | Bounds | Shows |
|---|---|---|
| `SamplerAccounting` | 1 connection, 2 bytes, 1 counter reset, 1 hub operation or crash; GetNode, UpsertIPStats and ClearActiveIPs may fail | `NeverCountedTwice`, `NothingLost`, `NoStaleActive`, `OfflineIsQuiet`, `TypeOK` |
| `SamplerTraffic` | 2 bytes of traffic, clock 0..2 with minutes of 2 and hours of 4 units, 1 operation, failing rollups | `TrafficConserved`, `RollupsNest`, `SamplesMatchRollups` |
| `SamplerLive` | 1 connection, 1 operation, SetLastOnline and UpsertIPStats may fail, `FairSpec` | `StopReturns`, `ActiveDrains` |
| `HubReload` | 2 nodes, 2 configurations, 2 intervals, 2 changes, every call and the import may fail | `WorkersMatchNodes`, `NoActiveWithoutWorker`, `StoppedForGood`, `TypeOK` |
| `HubReloadLive` | 2 nodes, 1 configuration, 2 intervals, 2 changes, the flush and the import may fail, `FairSpec` | `ChangesTakeEffect` |
| `Sessions` | 2 user ids, 3 accounts, 3 tokens, 2 requests, clock 0..3, 2 edits, accounts and edits together 3 | `OneSuccessor`, `NoSurvivors`, `ServedWithSuccessor`, `EndsForCause`, `TypeOK` |
| `Nodes` | edit: 1 node, 2 editors, disabled after 2 bad pings, 2 edits, 3 pings, clock 0..1; import: 3 documents, 2 anchors, 4 children, 2 requests in flight of 3, 1 failing call, 1 crash | `EditsSeen`, `DisabledAfterStreak`, `ImportMatchesDocument`, `FailedLeavesNothingNew`, `NoOrphans`, `RetryCreatesNothing`, `TypeOK` |
| `Services` | `Settings`: 2 editors, 2 columns of which one is patchable, 3 writes. `Subscription`: 1 account, 2 tokens, 2 tabs, 1 fetch, cooldown 2 of 3 clock units. `Probe`: 2 operations, 1 slot, 1 loss. `Geo`: 3 goroutines, 1 address, 3 lookups a minute. `Limiter`: 2 events in 6 ticks, a second of 2 ticks, 1 second announced by `/sub`, 13 ticks. `Listing`: 3 rows, 2 values of the leading column, all ranges over the rows, pages of 1, 2 changes or slides. `Startup`: SQLite and Postgres, 2 wizard requests, 3 migrations, 2 stops | `RevisionNamesContent`, `ImplementsAtomic`; `DeadLinksServeNothing`, `ResetsSpaced`; `ProbesCleanUp`, `OperationsEnd`; `OneCallPerAddress`, `WaitersReturn`; `LimitsHold`; `UnmovedShownOnce`; `RecordedMeansApplied`, `SecretsKept`; `ServicesTypeOK` |

One connection is enough for the accounting: connections do not influence each other's summands,
and the theorems below hold for any number of them. One operation on the worker lets it be restarted,
replaced (and started again), shut down and booted, or crash and boot. Two changes are the
least with which a Reload can act on a list that is out of date, and two nodes the least with which
it can return in the middle of its loop. Three tokens are a login and two rotations, so a token
can be redeemed twice if anything allows it. Three requests over two anchors are a creation, an import that replaces
its children, and a retry or a deletion, any two of them at once; the documents
have a duplicate name, a name somebody else holds, and nothing that can be converted. Three events
in a window of two, a constant of `/sub` that ends before the window, ranges that slide past a row or past each other's end, a page less than the rows with equal leading columns, one probe more than
there are slots and one stop more than are needed to interrupt a first start put every limit in reach.

Deadlock is checked in the sampler and hub runs. In the others the clock, the ids and the
edits are bounded, and a panel nobody talks to takes no step, so those runs set
`CHECK_DEADLOCK FALSE`.

Four runs expect a violation; each is a disagreement between the code and
what the repository says of it (`findings` in `PROJECT.json`):

- `SamplerWireKeys`: the `/traffic` frames of the repository's own mock node have the
  keys `up` and `down`, `TrafficMessage` decodes `up_bytes_per_second` and
  `down_bytes_per_second`: nothing is ever recorded.
- `HubReloadAfterError`: a Reload that fails after it stopped a worker leaves the worker in the
  map; once the node is wanted with its old configuration again, clean Reloads pass over it.
- `SessionsLogin`: a login that straddles a password change (or the deletion and reuse of its
  user id) ends with a live session.
- `StartupLockout`: a panel that starts without the wizard on an empty database creates its only account
  under an empty name, which neither the login form nor the API accepts.

## Observations

What the models show or assume about the code besides, each as a named exception of a property or as an
action, without a run of its own.

Sampler and hub
- The reconnect delay doubles while it is below `maxBackoff` (30 s), so it settles at 32 s, and the
  reset of the delay after a session is never reached because `session` never returns nil.
- A worker that replaces another has no `lastSeen`: connections that outlive the change are counted
  again (`NeverCountedTwice` is stated for one worker object).
- The zero of a client whose UpsertIPStats failed is not written again: its row stays active until the client returns or
  the worker is replaced (`NoStaleActive` and `ActiveDrains` exempt it, by `missed`).
- A node write whose configuration import fails is committed and not reloaded (`nodes.go:352`, `589`), nor is the monitor's
  disabling of a node (`icmp.go:156`), which has a worker only if an imported child was given an `api_url`. Both take effect with the next
  Reload (`skipped`).

Nodes
- An edit committed between the read and the write of a PATCH is overwritten: `UpdateNode` has no condition
  on the row. Two edits within one second have the same ETag (`EditsSeen` allows for that).
- The web UI's edit form and its switch send no `If-Match`, and the API answers 428 (`pages.go:549`, `624`).
- The monitor lists enabled nodes only, so it never enables a node again. A PATCH that straddles a good ping
  puts the old failure count back. A ping that lacks the permission to send counts as a bad one.
- A child that got the name `x #2` because of another node of its name is created anew by every import.
- A POST that failed in its import is answered 409 when it is sent again: its node exists. The
  idempotency store does not survive a restart.
- A DELETE that overlaps with an import, or whose listing of the children fails, leaves orphans.

Sessions and subscriptions
- The loser of a rotation race is bounced to `/login` if it looks before the winner has filled the
  cache (`webui/auth.go:118`).
- A profile edit issues a session without looking at what happened to the account after the edit.
- `ensureSubscriptionToken` says "Existing tokens are left unchanged", and replaces one that another tab got
  between its look and its reset (`pages.go:503`). Two tabs that check the cooldown together both reset.
- The error of `SetResetNow` is ignored (`pages2.go:1301`): after a stamp that was not written the same tab may reset again at once. The
  stamp comes before the reset, so two resets may be closer than the cooldown by the time the first took in between. Resets
  through the API and by `ensureSubscriptionToken` are neither checked nor stamped.
- A logout in flight while its account is deleted and the id is handed out again revokes the sessions of the new holder.
- At `/session` `Retry-After` is cut to whole seconds, so a client that obeys may be refused once more. `GET /sub/{token}` announces
  60 s for a window of 300 s (`subscription.go:137`) and the login form 30 s (`webui/auth.go:304`), whatever is left of it: a client that obeys is
  refused until the window ends, but its attempts do not prolong it.

Services and start
- `GET /nodes/{id}/traffic` without `from` has a range that begins a day (a week, a month) before the moment of each page, and the next link
  does not carry it (`helpers.go:115`, `monitoring.go:108`): the oldest buckets of the first page's range may never be shown. With a given
  `to` the range may even become empty, and the next page is refused. `UnmovedShownOnce` speaks of rows that stay in the range (`steady`).
- A crash leaves sing-box processes running and operations PENDING or RUNNING for good.
- The call of a geo lookup runs under its owner's context: if that client hangs up, all who joined fail. Joining
  costs a lookup of the budget.
- The settings form never saves the `icmp_*` columns: the PATCH handler does not know them.
- `ListIPStats` filters by the alias `total_bytes`, which Postgres does not accept in a WHERE clause
  (`ips.go:129`); node names are compared by bytes in Go and by collation in Postgres (`nodes.go:100`).
- Two wizard requests at once may store a choice other than the one the panel runs on (`setup.go:97`), and the
  second one may fail on a migration that the first has applied.
- A Postgres database whose first opening was cut short between schema and version gets the version of a later
  release without its columns (`RecordedMeansApplied` names the case).
- A torn key file or an empty password file keeps the panel from starting until it is removed by hand.

## Fairness

`Sampler!FairSpec` assumes that goroutines that can run do run (the loop, a reader
whose stream was closed by the other reader's failure or by the cancelled context), that
the flush ticker fires and that store calls return. It assumes nothing of the node,
which may never answer or send a frame, and nothing of the operator. Closing both
streams on cancellation is what `Worker.session` starts a goroutine for;
the mutant without it makes `StopReturns` fail.
`HubReload!FairSpec` assumes that Start runs and that a handler which committed gets `h.mu`
and finishes its Reload.
`Probe!Fairness`: the goroutine of a probe runs on, its waits and its request to the provider have deadlines, and a
process that was killed exits. `Geo!Fairness`: goroutines in `Lookup` run on, and fetch
has a timeout of its own. Neither assumes that a call succeeds or that a sing-box ever answers.

## Refinement

`AtomicSettings` says what an editor may rely on: an edit is one step, applied to exactly the settings that were
on the editor's screen, or refused; an image replaces the image and nothing else. `Settings` takes several
transactions for it. `ImplementsAtomic` maps what a form shows, until its PATCH is answered, to the screen.
The mutant without the revision in the WHERE clause breaks it, and it is proved as well.

## Proofs

Every invariant and action property the passing runs check is also a theorem, for all values of the constants that
the named assumptions of the modules allow; only liveness is left to TLC. TLC evaluates these assumptions in every run.
They say what the code gives: sets are finite where the code counts them, `None` is no id, bounds are
natural numbers, and in `Sampler` each bucket length is a multiple of the finer one. The inductive invariants were
also model-checked, on the instances of the runs. Hardly a property is inductive by itself; what had to be
added, and why, is below.

### Sampler

`SamplerProofs` has `TypeCorrect`, `OfflineQuiet` (`OfflineIsQuiet`), `StaleActiveTracked` (`NoStaleActive`),
`CountedOnce` (`NeverCountedTwice`) and `CountedAll` (`NothingLost`). `IInv` adds:

- `Control`: a reader runs only while the loop is in its session, and a session only while the
  worker is online; a stopped worker has no active client. This is why no late frame disturbs an offline worker.
- `Fresh`: a client that is active in the batch in flight and gone since is in `ipAcc`.
  `NoStaleActive` speaks of the row once the batch is written, and needs this when the batch is written.
- `Ledger`: how `lastSeen`, the node's counters and `shown` relate for each connection. `applySnapshot` adds a
  difference of counters; the ledger turns it into a difference of bytes really carried.

`TrafficProofs` has `TrafficIsConserved` (`TrafficConserved`), `RollupsAlwaysNest` (`RollupsNest`) and `TablesAgree`
(`SamplesMatchRollups`). The tables are sums over rows, for which the provers have neither the recursive function `Total` nor
induction. `Least` (a set of naturals has a least element, from `WellFoundedInduction`) replaces it: were a fact about `Total`
wrong for some length, it would be wrong for a least one. From it come `TotalRuns` (the recursion equation holds),
`TotalAdds` (adding to one row adds to the sum) and `ColumnAdds` (to the sum of the rows in a set, if the row is in
it); `BucketsNest` is the arithmetic of bucket starts: cutting a time to minutes, then to hours, is cutting it to hours. The invariant `TrafficInv` adds to `IInv`:

- `Spent`: a worker that was stopped and flushed, or does not exist, holds no bytes, so that replacing it loses none.
- `Matched`: `SamplesMatchRollups` with the batch that is in one table and not yet in the other.

`TrafficIsConserved` assumes `KeysMatch`: the node sends each direction under the key the panel's tag names. The run
`SamplerWireKeys` shows what happens otherwise.

### HubReload

`HubTypes`, `ReloadsConverge` (`WorkersMatchNodes`), `ActiveRowsHaveWorkers` (`NoActiveWithoutWorker`) and
`StopIsFinal` (`StoppedForGood`). The invariant adds:

- `Control`: which steps fit which phase of the hub; `Stop` still has every worker of the map before it.
- `ActiveTracked`: `NoActiveWithoutWorker` in the middle of a Reload as well.
- `Fresh`: when nobody waits to reload, the two lists Reload read are what the tables hold, but for nodes in `skipped`. A handler that
  commits after the read is waiting or has put its node there, so the hypothesis is gone exactly when the conclusion is.
- `Progress`: the loop has at most the worker it visits stopped, and the ones behind it are as wanted.

### Sessions

`SessionTypes`, `RedeemedOnce` (`OneSuccessor`), `NoSessionSurvives` (`NoSurvivors`), `ServedOwnSuccessor`
(`ServedWithSuccessor`) and `SessionsEndForCause` (`EndsForCause`). `IInv` adds:

- `Undrawn`: a jti nobody has drawn is in no table, so a new row never overwrites a session.
- `Consumed`: a token with a successor has no live row. `ReplaceRefreshToken` takes live rows only,
  which is why a second redemption finds nothing.
- `Cached` and `InFlight`: the rotation cache and the requests in flight hold successors of the token
  they are filed under.
- `ErasPast`: no account carries an era later than the last edit, so that a revocation is visible as
  a change of the account.

`NoSurvivors` itself is needed for `EndsForCause`: a logout that arrives after its account was deleted
revokes nothing, because no live row names a missing account.

### Nodes

`NodesProofs` works on `MCNodes`, so its theorems are about the specification TLC runs. `NodeTypes`; for the edits `NoEditIsLost`
(`EditsSeen`) and `OnlyFailingDisabled` (`DisabledAfterStreak`), from `EditInv`:

- `EditTimes`: `updated_at` is never behind an accepted edit, and no edit after a client's GET is older than its ETag. Hence an equal ETag
  leaves only edits of that very second.
- `Counts`: unless a good ping was missed, a count is no longer than the streak, in the table, in the list of the round, and when the
  monitor has decided.

For overlapping imports `FailedImportsCleanUp` (`FailedLeavesNothingNew`), `ChildrenHaveAnchors` (`NoOrphans`) and
`RetriesAreReplayed` (`RetryCreatesNothing`), from `ImportInv`:

- `Table`: an id is drawn once, names are unique, an answer that may be repeated is stored.
- `Listed` and `Handler`: a row some request has listed is, if it is still there, the row of that name and anchor; a request has all
  it created on its list until the rollback begins. An id is never drawn again, which is what makes the list of a
  request mean the same rows after the steps of others.
- `Family`: without failures and overlapping deletions an import has its anchor, and a deletion is alone with all children before it.

`ImportsAreExact` (`ImportMatchesDocument`) is about an import that overlaps with no other request. It has two parts.

- The document: `FreeName` shows that `FirstFree` finds a name, because among one more numbers than there are names taken one is
  free; `Parsed` that the recursive function of `ParseClashConfig` gives its proxies distinct names, by least counterexample as for the sums above.
- The loop: `Undisturbed` says that a request that was not overlapped is the only one in flight, and how far it has come (`Import`). `Loop` pairs the
  proxies behind it with children of their own (`Pairs`): one that was listed under the proxy's name, or one it created. The children
  of the anchor are those listed and those created, and a listed one no proxy has named yet is as it was listed, which is why an update may be
  skipped when the listed row is equal. When nothing obsolete is left the pairing is a bijection. Distinct names are what keeps
  two proxies from the same child.

The theorem assumes `NoneIsNoRow`: the value for a missing row is not a row. It is a hypothesis and not an assumption of the module because TLC
cannot enumerate the rows it quantifies over. Documents and names entered by hand are constants, of which `DocsAssumption` says only that
a document is a list and its names are strings, with or without numbers.

### Services

`SettingsProofs`: `SettingsType`, `RevisionsName` (`RevisionNamesContent`) and `SettingsAreAtomic` (`ImplementsAtomic`).
`RevisionNamesContent` is inductive with the types: the revision only grows, so
a form whose ETag is the current one has missed no write. That is the step of the refinement that needs an
argument: a write whose WHERE clause matches was built on what the form showed.

`ServicesProofs`, on `MCServices`, has one inductive invariant for each service:

| Theorem | Property | Invariant |
|---|---|---|
| `DeadLinksStayDead`, `CooldownKept` | `DeadLinksServeNothing`, `ResetsSpaced` | `SubInv`: accounts have tokens of their own, dead ones are in no row (`OwnTokens`, `DeadGone`); a row is stamped no earlier than the last stamp that was written (`Stamped`), and who passed the check had waited since the one it saw (`Waited`); what a request for a dead link can still reach (`FetchLate`) |
| `OneCall` | `OneCallPerAddress` | `GeoInv`: the entry of a call is its own until it removes it |
| `ProbesAlwaysCleanUp` | `ProbesCleanUp` | `ProbeInv`: the slots are as many as the goroutines that hold one, over all exits, and a sing-box runs only where somebody waits for it |
| `LimitsAlwaysHold` | `LimitsHold` | `LimiterInv`: windows do not overlap and number their events, so two of them meet in a span of `Per` at most; the numbers bound the count without induction. A window that refused somebody is the one in the map or was over before that one opened (`Follows`), which is why neither the collector nor a change between Allow and RetryAfter prolongs a wait. The sliding limiter remembers exactly the recent events |
| `WalkIsComplete` | `UnmovedShownOnce` | `ShownToCursor`: of the rows that stayed in place none behind the cursor was shown, and those up to it that passed every filter were shown once |

`StartupProofs`: `VersionsAreTrue` (`RecordedMeansApplied`) from `StartInv`, in which `Schema` says what each opener, panel or wizard request, has
behind it at its step, and that an unrecorded Postgres schema has an opener that will record it; `SecretsStayKept` (`SecretsKept`) from `SecretsInv`: a key
served with is whole and in its file, and a password still to be written has no account yet. `ServicesTypes` (`ServicesTypeOK`) puts the types together.

### Only model-checked

`StopReturns`, `ActiveDrains`, `ChangesTakeEffect`, `OperationsEnd` and `WaitersReturn`: they hold under fairness, and neither fairness nor
`ENABLED` is within the prover's reach.

## Plan

1. An abstract ledger of what was shown and what is stored, which `Sampler` implements, and the refinement proved.
2. An abstract specification of a session (one live token per login, replaced or ended), which `Sessions` implements.

## Not modelled

- Rendering, charts and the sums of the web UI and the monitoring API; the Clash REST client's encoding;
  the three output formats of a subscription; encryption primitives; configuration parsing, address
  filtering and problem responses: text in, text out, without state that another part depends on. A call
  that fails is a branch of the handler that makes it.
- Retention (`PruneTraffic`): it deletes rows older than a horizon that no other operation writes to or
  compares; the properties of the traffic tables are about rows that are still there.
- Calls forwarded to a node (closing connections, choosing a mode or a proxy): the panel keeps nothing of them.
