# Verification of the uAssign server

uAssign (`ua`) gives students terminals in Docker containers over websockets.
A client sends an encrypted *spec*; the server builds an image and a container
from it (an *instance*), remembers it as a row of a PostgreSQL table, proxies a
websocket to a command in the container, expires instances that are not used
and removes what is left of them. This directory holds TLA+ models of that
server, the TLC configurations that check them, and TLAPS proofs about them.

## Inventory

| Component | Source | State | Operations | What is hard | What makes it correct |
|---|---|---|---|---|---|
| Expire manager | `pkg/expire` | `entries`, `tokens`, `blockers`, token timestamps, the `done` channel | `Acquire`, `Release`, `ExpireAndRemove(All)`, `Update`, `Run`, `Stop`, the ticker loop | takeovers queueing behind each other, stale releases, `onExpire` in goroutines of its own | one owner per name, in order of `Acquire`; no lost wakeup; a blocked `Acquire` returns; idle owners are told to end |
| Scheduled runner | `pkg/sched` | `manual` (buffer 1), ticker channel (buffer 1), `stopped`, two `sync.Once` | `Start`, `Run`, `Stop`, the select loop | `Run` and `Stop` racing, what is still queued when the runner stops | a stopped runner is quiet; accepted runs happen; `Stop` returns |
| Websocket sessions | `app/instance.go` | per connection: token, `ExpiresAt` of the row, the running container | connect, acquire, clear expiry, start, proxy, stamp expiry, stop, release | every step is a separate call that may fail; another session takes over; the process dies | an earlier session's `ExpiresAt` never replaces the NULL of the current one; a container is stopped by its own session or a cleaner only |
| Expiry and cleanup | `app/cleanup.go`, `specClean` in `app/spec.go` | row flags `active`, `cleaned`, container, image | expirer, periodic cleaner, clean requests, shutdown cleanup, prune | all work from the result of a query while rows and containers change | a cleaned row has no container; everything is cleaned in the end, but for what the code leaks |
| Spec handling | `app/spec.go`, `app/spec_create.go`, `app/spec_legacy.go` | spec rows, instance rows, images, containers | `specPost`, `getActiveInstance`, `createInstance`, `specCreate`, `specLegacyCreate` | two requests for one spec; a failure after half of Docker's work | one active instance per spec; what was built is recorded or removed |
| App life cycle | `app/app.go`, `main.go`, `app/config.go`, `app/options.go` | server, runners, manager, wait group, clients | `NewApp`, `Run`, `Shutdown`, signal handling | order of shutdown against sessions that are just starting | no session outlives the wait; shutdown returns |
| Prechecks | `app/precheck.go`, `app/health.go` | `dockerOk`, `databaseOk` | the two ping tasks, the middlewares | two flags written by two tasks | a flag follows its service |
| Routing and debugging | `app/route.go`, `app/debug.go` | none of its own | routes, manual triggers | triggers racing shutdown | no trigger meets a stopped runner while the server waits for it |
| Auto-pull | `app/autopull.go` | cache of image references with expiry | `autoPullMark`, `autoPull` | none: one goroutine, a thread-safe cache | |
| Terminal proxy | `pkg/docker/proxy` | hijacked exec connection, websocket | `Proxy`, input and output loops, `RuneCopy`, `ScanRunesGreedy` | three goroutines and a cancellation; runes split between reads | each reader's output arrives in order and whole; all goroutines end |
| Exec helper | `pkg/docker/dexec` | hijacked exec connection | `Exec`, `waitForExit` | streams that outlive the command or the context; polling for the exit | it succeeds only after an exit with code 0; a cancelled one returns |
| Image building | `pkg/docker/image` | build stream | `Build`, `BuildLegacy`, `Pull`, `PullIfNotFound` | multi-stage results | intermediate images are removed |
| Build scripts | `app/specbuild`, `pkg/js` | JavaScript runtime, actions | `Generate`, `PerformActions`, `Runtime.Run` | groups in lists in groups, a failure that cancels siblings; interrupting a script | order is kept, an error reaches the list, a list that has ended is quiet; a script cannot run for ever |
| Go builds | `app/gobuild` | build container | `Build` | early returns while a second container exists; output copied by a goroutine | the container is removed; the output is whole |
| Payload encryption | `pkg/simplecrypto` | none | encrypt-then-MAC, JSON wrapping | | decoding inverts encoding |
| Version compatibility | `pkg/docker/dcompat` | none | exec options by API version | | |
| Logging, middleware, small helpers | `pkg/ctxlog`, `uamid`, `pkg/errhack` | none | | | |
| Database schema and models | `migrations`, `models` | tables | generated stores | | |
| Tools | `misc`, `static`, `templates` | | load tests, web pages | | |

The components meet in four places. A websocket session *acquires* its
instance's name from the expire manager and is told to end through `onExpire`.
Sessions, the expirer, the cleaners and pruning all write the *row* and the
*container* of an instance, with no transaction around the two. The *runners*
drive the periodic tasks and are triggered by debug routes. *Shutdown* stops
the server, the runners, the manager, the sessions and the instances in turn.

## Modules

### HandoverLock and ExpireManager

`HandoverLock` is the abstract specification: what `pkg/expire` promises about
a name. A request always succeeds, takes its place behind all earlier requests
for the name, and becomes the owner once these are released. It has three
variables (`st`, `grp`, `before`) and knows nothing of channels or maps.

`ExpireManager` is the code. A token is one call of `Acquire`. `entries`,
`tokens` and `blockers` are the fields of those names; `closed` is the set of
waiters whose blocker channel is closed. `Acquire` is one action per branch
(`AcquireFree` returns at once, `AcquireOver` takes the name over and blocks)
followed by `Wake`, the receive outside the mutex. `Release`, `Update`,
`ExpireAndRemove`, `ExpireAndRemoveAll`, `Run`, `Stop` and `Tick` are the
methods of those names, one critical section each; `RunOnExpire` is the
goroutine that calls `onExpire`. Timestamps are kept as ages in periods of
`checkEvery`; since they are whole seconds, a token stamped within a second of
the limit may or may not count as expired (`Due`).

`ExpireAndRemove` takes a name from a session that may go on, so two owners can
then exist, by design. The history variables `era`, `grp` and `before` record
an *era*, the time between two such removals; the refinement maps the group of
the abstract lock to the era. `Lock == INSTANCE HandoverLock` states the mapping,
and `ImplementsHandoverLock` is the fair abstract specification as a property.

### Task and SchedRunner

`Task` is the abstract specification: what a runner promises about its function to the
one who stops it. The function may be called again after `Stop` has been called, but
`Stop` returns only while it is not running, and then it is never called again; it does
return if the function keeps returning.

`SchedRunner` is the code. The two channels of `pkg/sched` are counters with room for one, the goroutine
is `loop`, `stopOnce` is the identity of the call that runs `stop()`. `Run` has
two outcomes, queueing and the panic of a send on a closed channel; `Stop` is
its four steps: stop the ticker, close the queue, wait for the goroutine, or
wait for the call that does so. `after` counts the runs that begin once the
queue is closed. `AsTask == INSTANCE Task` maps the first call of `Stop` to `asked`, the
function under way to `working` and the first return of `Stop` to `stopped`;
`ImplementsTask` is the fair `Task` as a property.

### InstanceLifecycle

One action per call that `handleInstance`, `checkExpiredInstances`,
`cleanInstance` and `pruneDocker` make to the database or Docker, each with its
failure. A session goes through `pc` = idle, admitted (found active), acquired,
start, proxy, restamp, stop, release, over. `active`, `cleaned` and `ttl` are the
row; `ttl` is the time left of `ExpiresAt` in ticks of `InstanceExpire`/`TTL`,
and `NoExpiry` is NULL. `box` is the container as Docker sees it: it refuses to
remove one that is running and ignores a start or stop that has no effect. `image` says
whether other tags name the instance's image: a build knows it by the hash of its content
(`build.go:59`, `:93`), so a later instance of the same Dockerfile can come to share it
(`Share`), and Docker then refuses to remove it by that hash, which `cleanInstance` takes
as an error. A
cleaner keeps the rows of its query in `todo` while the world moves on. The
expire manager is the abstract lock, composed by `Lock == INSTANCE HandoverLock`
whose `Request`, `Grant` and `Release` are conjuncts of the session's actions:
what is checked about `ExpireManager` is what this module relies on. `Crash` ends
every session and cleaner and leaves row and container as they are.

### AppLifecycle

`SetField` is the assignment of the next field of `App` in `Run`, so a signal may
find any prefix of them set. The table may hold rows of an earlier process (`Init`); with
`ForceInactive` they are marked one by one before the first runner is made (`MarkAtStart`),
unless the query or an update fails or neither service answers, which `SetField` takes as one fault. `shut` is the line of `Shutdown`, one action per
call. A client posts, connects, hijacks, is counted by `wsWG`, acquires, leaves
and ends; `phase` is where it is. `http.Server.Shutdown` returns when no tracked
request is left or after five seconds, which the model takes as "at any time",
remembering in `timedOut` whether requests were left. A request to a trigger route is
tracked as well: `Trigger` is its beginning, `TriggerRuns` its call of `Runner.Run`, which
panics, recovered by the server, if `Stop` has closed the queue (`sentLate`); between the
close and the return of `Stop` both outcomes are possible (`MayBeClosed`). The expire
manager appears by what `ExpireManager` establishes about it, the terminal by its end; that
the ticker finds a session idle is one of the causes of `Leave`. A runner appears as a `Task`:
`AsTask(r)` maps the runner `r` of this module to it, and `RunnersAreTasks` (proved) says
that nothing else of a runner was taken for granted, so `SchedRunner` implements `Task` and
`AppLifecycle` uses no more than `Task`. The tasks that write rows are here by their effect
(`Deactivate`, `Clean`), with any subset of the rows, since their failures are those of
`InstanceLifecycle`.
In a session the start and the stop of the container may fail, which the code only logs.
The clean-ups of `Shutdown` go through a row in two steps: `Kill`, and then the removal with
what follows it, `CleanLeftover` in `cleanupLeftoverInstances` and `MarkCleaned` in
`markAllInstancesCleanedAndInactive`. Between the two a session that `wsWG` heard of too late
may start the container, and Docker refuses the removal. The image is refused if another tag
may name it (`Sharing`). Each query, kill, removal and update may fail, and removal and update
also one without the other. `RunFails` is an error of `Run`, the listener's included;
`RunReturns` is `main` returning when the listener is closed.

### SpecHandling

A request is at one of the calls it makes: `lookup`, `insert`, `find`, then
`generate`, `build`, `create`, and for a scripted assignment `start`, `actions`,
`disconnect`, `stop`, for a legacy one `inspect`, then `record`; `kill`, `remove`
and `unimage` take back what was made. The instance a request makes bears the
request's name, so a row, an image and a container are found by poster. Calls
that get the request's context fail once its client has hung up, those with a
context of their own do not. A build or a create that is cut off, or fails, may have been
carried out by the daemon all the same; the server never hears of it and the history
variable `unheard` remembers it. An image that is built has the name of the first request
that built it, so that two requests with one Dockerfile have one image (`Shared`), and
`RemoveImage` is refused as long as the other's tag names it or a container uses it.
`generate` has a third way out, `stuck`: a script interrupted by
a hang-up never comes back (see `JSRun`). The clean request's loop over rows is the same
`cleanInstance` as in `InstanceLifecycle`, at the grain of one row. When the image is refused
there, the row stays active without its container, and `getActiveInstance` may answer with it.

### CallTree, Actions and JSRun

`CallTree` is the abstract specification of what `PerformActions` promises: the calls of
`performAction` form a tree. A call begins under one that is at work, and returns when
nothing under it is; it succeeds only with everything under it, and fails only with a call
directly under it or, making none, on its own account. It has one variable and knows
neither kinds nor contexts nor Docker.

`Actions` opens up what `SpecHandling` takes as the one step `actions`. The list a script
returns is a tree, and an action is its path in it; `kind` says what is at each path.
`Perform` is `performAction`: the loop of `PerformActions` for an ordered list, all at once
for a group. A leaf walks through `Exec` (`create`, `attach`, `copy`, `wait`), a Go build first
through `gobuild.Build` (`pull` to `build`, and `kill` and `remove` on the way back), and `tar` in
the container is its `Exec`. A create of a builder that is cut off may leave one of which
`Build` has no identifier (`orphan`). `write` and `append` are an `Exec` whose command is fixed. The
contexts are not variables: `Cancelled` says which are done, those under a group with a
failed member and, after a hang-up, all. `cmd` is the command in the container and
`builder` the second container, both of which go on by themselves: `CommandEnds`,
`StreamsClose`, `BuilderEnds` are theirs. `Calls == INSTANCE CallTree` sees all the places in
which an action is at work as one (`Seen`).

`JSRun` is `Runtime.Run` and its watcher, four steps in all. It is small because one
question is asked of it, whether an interrupted `Run` returns; its answer is the `stuck`
of `SpecHandling`.

### Precheck and Proxy

`Precheck` has a variable per flag and per service; a ping takes the state of
its service at one moment and the flag is stored at a later one. `Proxy` has the
four goroutines of `proxy.go`, the context that links them, and a stream of bytes
given by their position, each with its place in a rune. `Scanned` is what
`ScanRunesGreedy` takes and keeps; `Invalid` are the bytes that `bufio.ScanRunes` below it
replaces by U+FFFD because the scanner does not meet them as part of a whole rune, which
happens when the two readers of the TTY split a rune between them. `by` remembers who read a
byte. A byte that was read is in a scanner's buffer, in a message being written or in one
sent; `Held` says which bytes each of these has. Either end may stop reading (`StopsReading`):
from then on a write to it blocks until the connection is closed. A message that is no JSON
ends the input goroutine, one of an unexpected shape panics in it and ends the process.

## What the runs show

| Run | Instance | What is established |
|---|---|---|
| `manager` | three sessions, one name, `ExpireLimit` = 1 | owners are exclusive within an era, no wakeup is lost, every queue for a name has a session that can move, an entry leaves only by a release or after `onExpire`, `Acquire` returns, an idle owner is told, the lock is implemented with its liveness |
| `sched` | three calls of `Run`, two of `Stop` | accepted runs are neither lost nor invented and do happen, stopping costs at most two more, `Stop` returns, the runner is a `Task` |
| `life` | one instance whose image may come to be shared, two sessions, a clean request, one Docker fault, one database fault, one crash | an earlier session's `ExpiresAt` does not overwrite the NULL of the current one, a cleaned row has no container for good, no container keeps running by itself, an unexpired one is not removed by pruning, a terminal is interrupted by a cleaner's kill only, everything is reclaimed unless its `ExpiresAt` was left NULL or its image stays shared |
| `app` | two clients, one with an instance from an earlier process (`Returning`) and one whose image may have a second tag (`Sharing`), a trigger route, both values of `ForceInactive`, an early signal, one failing call of a session or a clean-up | runners are quiet and sessions over before the rows are cleaned, a trigger finds a closed queue only if it outlived the five seconds, after a shutdown in good order nothing active is left but a row whose image is shared, and with `ForceInactive` no container and no unmarked row; a container without a row has cost a failing call; `Shutdown` comes to its end |
| `spec_safety` | a scripted and a legacy spec, two posts, an asynchronous clean, one hang-up and one fault of each kind | a recorded instance has its image and its stopped container; one failure is taken back completely, except what a cut-off build or create made unheard of and an image that is shared |
| `spec_order` | three posts and a synchronous clean for one spec, one database fault | answers do not go back to older instances, only overlapping posts make twins, a clean resets |
| `precheck` | services that change at will | a Docker that stays down is refused, services that stay up are served, requests meet a client without a version only between two adjacent lines of the task |
| `proxy` | four bytes, two runes of two; two messages, two resize attempts, ends that stop reading | no byte that was read is lost or doubled, each reader passes on what it read in order, a rune is torn only if the two readers split it, a returned proxy left nothing running, either side's end ends it unless the other side does not read (`Unnoticed`) |
| `actions` | two lists of seven paths, with a group in a list, a list in a group, a Go build, an unknown action; a hang-up and two faults of Docker | success means that every command has ended with 0, earlier actions are over before later ones begin, the calls are a `CallTree`: a list that has returned leaves no goroutine behind, and, after one fault, no builder that it knew of; a list ends when its commands do, and when it is cancelled and streams close |
| `shutdown_exit`, `precheck_database`, `js_hang` | the smallest instance of each | the three disagreements described under *Findings* |

Each property of a passing run is paired with a mutant: a changed copy of one
definition (`Release` by name, `Stop` without the receive, an error that is
ignored ...) under which that property fails.

### Bounds, and why they are enough

- *One name in `manager`.* Names share only the ticker, which treats each entry
  by itself. The three sessions allow a takeover of a takeover, which is the
  longest chain a session can see (its predecessor and its successor); the
  proofs cover any number of names and sessions.
- *Ages* saturate one above `ExpireLimit`: all larger ages are treated alike.
- *One instance in `life`.* Instances meet only in the lists cleaners walk
  through; the invariants are proved for any set of instances, sessions and clean
  requests. `TTL` = 1 and `PruneAge` = 2 give fresh, expired and prunable times.
- *One fault of each kind and one crash* in `life`: faults can be combined, so
  the run has up to three in one behaviour. The proofs hold for any number.
- *`Observed` = two runners in `app`*: those that write rows. The other four have no
  effect on the state of that module, and are stopped in the same loop.
- *Two or three posts* in `SpecHandling`: twins need two, and the order of answers a
  third. `HangUps`, `DockerFaults` and `DbFaults` are one since a promise is only made
  for one failure at a time.
- *Four bytes* in `Proxy`, two runes: each can be split between reads of one scanner or
  between the two readers, with the other in front of it or behind. `Retries` is 5 in the code;
  two tell a last attempt from the others.
- *Two lists in `actions`*: between them they put a group into a list and a list into a
  group, which is what contexts and errors have to cross, with each kind of leaf; the
  invariants are proved for lists of any depth and width. `DockerFaults` = 2 because
  `BuilderGoes` distinguishes one fault from two.
- *One trigger in `app`*: `checkExpired`, the second runner to be stopped, so that a request can
  meet it running, being stopped and stopped. Triggers of different runners share nothing.
- *One returning client in `app`*: its row is active or inactive at the start, next to
  a client that has to post first. The proofs hold for any set of them, of clients with a
  shared image, and of faults.

The type invariants of the eight modules with proofs are theorems, so the runs spend their
time on other properties; so are `MapsAgree`, `StoppedMeansStopped`, `NothingLeftBehind`, `QuietBelow`, `LeftRunning`,
`FailsForAReason`, and the parts of liveness listed under *What is proved*.

There are no state constraints, and symmetry is used only in runs without
temporal properties.

### Fairness

Go's scheduler runs every goroutine that can run (weak fairness of the steps that
belong to one). Where a `select` has several cases ready Go picks one at
random, so a case that is ready again and again is taken (strong fairness of
`SelectManual` and `SelectClosed`). Runners' periods come round (weak fairness of the
expirer, the janitor and both pings), calls to Docker and the database return. A
session ends because its user leaves or because the manager closes a connection that
is idle for `WebsocketTimeout` or calls `onExpire` at the shutdown; in `ExpireManager` and
`AppLifecycle` only that second cause is assumed, under `connClosed` and `told`. In `InstanceLifecycle` a session's end is
assumed outright (`EndProxy`): a user who types for ever keeps an instance for ever,
and the code means that. It also takes for granted that `Proxy` returns when its user leaves or
is told to: see `Unnoticed` for when it does not. In `Proxy` a write ends unless the end it
goes to has stopped reading. Strong fairness of `StopRunner` in `AppLifecycle` is
the fairness of `Task`, which `SchedRunner` is checked to have (`ImplementsTask`): the
function may begin again, twice at most, before the goroutine sees the closed queue. In `Actions` only
the server's own goroutines are fair: that commands end, builders end and streams close are
hypotheses of `ListEnds` and `CancelReturns`, which name what they need. The
fair specification of `JSRun` lets the virtual machine notice its interrupt, so that the
only thing left to wait for is the receiver. Nothing obliges a user to leave,
a command to end, or a service to come back.

### Assumptions of the models

- *InstanceLifecycle*: the instances exist from the start, as rows of one spec. A hash that
  was removed does not come back, and a second tag is never taken away again.
- *AppLifecycle*: `main`'s goroutine reads the fields of `App` without
  synchronisation. The model reads them in the order of the writes; the race allows
  more, and already in this reading a signal can find `srv` nil. Rows left from an earlier
  process have stopped containers; `Crash` of `InstanceLifecycle` is about those that run.
  At the start, an update that fails in `markAllInstancesCleanedAndInactive` is counted
  with the query; in `Shutdown` it is a failure of its own (`MarkCleaned`). Removal and update
  failing on one row of `markAll` together is left out.
- *SpecHandling*: a failed call to Docker has no effect, except that a build or a create
  may have been carried out. Images that scripts name are known by the tag the server gives
  them, and are never shared.
- *Actions*: a failed call has no effect, except that a container or command may have been
  created or started although the call failed. Docker removes a builder that has ended (`AutoRemove`).
- *Proxy*: a rune has one or two bytes; what a browser shows is outside. Buffers between the
  ends have no size: an end stops reading at any time, and then at once.

## What is proved

Eight modules have a companion with proofs (`ExpireManagerProofs`,
`SchedRunnerProofs`, `InstanceLifecycleProofs`, `AppLifecycleProofs`,
`SpecHandlingProofs`, `ProxyProofs`, `ActionsProofs`, `PrecheckProofs`). Their theorems hold for all values of the
constants that satisfy the `ASSUME`s: the "none" values are not names, tokens, instances, specs
or calls, kinds of requests are disjoint, options are Booleans, limits are positive
naturals, `Janitor` is not a clean request, `TTL < PruneAge`, `Observed` and `Triggered`
runners are runners, `Returning` clients are clients, paths are closed under taking prefixes and leaves of a list have nothing under them, and fault budgets are naturals. Only the set of posts is assumed
finite, since `CreatedAt` counts the rows there are.

*ExpireManager.* `MapsAgree` and `NoLostWakeup` are not inductive: whether a wakeup
is lost when a session releases depends on who waits for it. `IndInv` adds that
the owner of a name is the newest of its era and has no waiter (`EntryInv`), that
a vacant name of a running era has no live session (`VacantInv`), that a waiter's
history is its predecessor's plus that predecessor (`BlockerInv`), that whoever
is woken has only released sessions before it (`GrantedInv`), that unused tokens
appear nowhere (`FreshInv`), and that sessions of an era are ordered
(`HistoryInv`). One lemma per action shows that it is preserved; `Handover`,
`Exclusive` and the step-by-step refinement of `HandoverLock` (`ImplementsLock`)
follow: `BlockerInv` is what makes a close of a channel the abstract `Grant`'s
guard, and `VacantInv` what lets `AcquireFree` return at once. `EntryLeavesSafely` is
an action property of the same invariant: a release finds by its token the entry
that is still its own, or none. `QueueMoves` is the safety part of `AcquireReturns`, for
queues of any length. It needs that whoever is waited for was told and that an era is one line
(`QueueInv`), and that finitely many tokens have been acquired (`FiniteInv`). Then one
blocked waiter has the fewest before it, by the well-foundedness of strict inclusion
between finite sets; the session that blocks it has fewer, so it is not a blocked waiter,
and it was told.

*SchedRunner.* `StopInv` follows the one call that runs `stop()`; `RunInv` has the
arithmetic: runs since the close, a pending tick and a queued run are at most
two together, which no action after the close can raise. With `QueuedForOwed` they
give the safety properties, `NothingLeftBehind` among them, and that each step of a runner is
one of `Task` or invisible to it (`RunnerIsATask`).

*InstanceLifecycle.* `SessionInv` ties the position in `handleInstance` to the lock,
`LockInv` carries the handover, `CleanerInv` says that a cleaner past the removal
has removed. From them follow that sessions of an instance do not overlap
(`OneSession`), hence that no late `ExpiresAt` arrives (`NullWhileUsed`; the row may still be
marked inactive by an expirer that found it earlier) and no
late stop hits a successor (`OnlyKillInterrupts`, an action property), and that a
cleaned row's container is gone (`CleanedIsGone`). `KeepsContainer` needs one
more part (`RemovedInv`): without failures, the cleaner that removed a container is
still about to mark the row, so an active row without a container has a cleaner on it, or an image
that is shared.
`NullOnlyWhileInUse` bounds the exception of `ReclaimedUnlessNull`: as long as no write
failed and the process did not die, an `ExpiresAt` that is NULL has a session that cleared it
and is yet to write a new one.

*AppLifecycle.* `WgInv` says that the wait group's counter is the number of
sessions between `Add` and `Done`; hence a `Wait` that returns proves all of them
over, and any that is counted afterwards came late (`WaitInv`). `RunnerInv` counts
the stopped runners, `HttpInv` says what `http.Server.Shutdown` has waited for, `LateInv` that no runner is stopped
before, `BoxInv`
that containers run for sessions only while nothing has failed, and `LeftoverInv` that the final
cleanup has listed each active row, or left it alone for its image. `ForceInv` follows the rows
that `ForceInactive` takes in at the end. A container that no row stands for is counted:
`StrandInv` bounds these, together with those whose kill has failed and whose removal will
therefore be refused (`Spared`), by the calls that have failed; it needs `WaitInv`, since only a
late session can start a container that was killed, and `KilledInv`. `TasksQuiet`,
`NoSendAfterStop`, `LeavesNothing` and the
action property `WaitsForSessions` follow. `ShutdownPanics` says when `Shutdown` panics: on a
field that `Run` has not set or, without auto-pull, never sets (`PanicInv`).

*Proxy.* `GroupInv` says when goroutines exist, `CloserInv` that nobody opens a
connection after the closer; the proxy waits for the closer as for the others,
which gives `NothingRunsAfter`. For `OutputKept` the bytes of the scanners, of the messages
being written and of the messages sent are shown to be a partition of what was read
(`EachOnce`), each increasing (`Ordered`); a scan divides what it has without overlap
(`ScannedDivides`), and a write moves a whole message. `ByInv` ties a buffer to its reader, and
`Succession` says that what a reader sent, is sending and still has follow each other. A scanner
that keeps a byte keeps the first of a rune that it read last of all its bytes (`BufInv`,
`TailInv`), so that it meets the second directly behind it if it reads that too: `RunesWhole`.

*SpecHandling.* The proofs come in three parts. `OwnerInv` and `FoundInv` give
`RecordedIsWhole`: before its row is recorded only the request touches what it made,
afterwards only a cleaner that found the row. `OrderInv` is about the requests that
had been answered when another one began (`seen`). Their answers do not change, and a
row that is not active never becomes active again; so whoever goes on to create has
seen that no earlier row is active (`TwinInv`), and whoever reuses takes the newest
(`ForwardInv`). What a clean found is settled before its answer (`ResetInv`).
`AnswersMoveForward`, `TwinsOverlap` and `SyncResets` are its consequences.
`BackInv` lists for each place what is left to take back; it is inductive because a
request goes back only at the price of a failure, and `TakenBack` grants one. Requests whose
build or create was cut off are set aside (`unheard`), and an image that was shared when it was to
be removed stays shared (`SharedStays`).

*Actions.* What is promised speaks of everything under an action, at any depth, and a
step looks at its children only. The invariants are therefore local, a relation
between an action and what it is under (`TreeInv`): nothing under an idle action has begun
(`IdleInv`), nothing under one that is over is at work (`QuietBelow`), everything under one
that is `ok` is `ok` (`OkInv`), and a later action of an ordered list has begun only when the
earlier are `ok` (`TurnInv`). `DataInv` adds how the command and the builder of a leaf stand
at each of its places. Lemmas on paths (whatever is under `n`
is a child of `n` or under one) carry a child's part to its parent, so no induction
over the tree is needed. The step-by-step refinement of `CallTree` (`ActionsAreCalls`) is
another: `OkInv` is the guard of its `Succeed`, `QuietBelow` that of its `Fail`. `ListsMove`, the
safety part of `ListEnds`, says that a list that has not returned is never stuck: of the
finitely many actions that have begun (`BegunInv`) one is innermost, and it is a leaf at work, or
has a first idle action to begin, or can return. `QuietBelow`, `SuccessIsWhole`, `InOrder`, `LeftRunning`,
`FailsForAReason` and `BuilderGoes` are their consequences; for the builders that nobody knows of
`OrphanInv` adds that their create was cancelled or had failed, which stays so (`CancelStays`).

*Precheck.* The task of the database writes the flag of Docker too, so that the flag alone does
not say whether a version is agreed on. The task's own copy does (`PrevInv`), which
gives `NegotiatedOnceOk`.

Every safety property that a passing run checks, and the safety part of the three
refinements, is stated by a theorem. Left to TLC are the properties under fairness, since
ENABLED and liveness are out of the prover's reach: `AcquireReturns`, `IdleExpires`,
`AcceptedRunHappens`, `StopReturns`, `ReclaimedUnlessNull`, `ShutdownReturns`,
`DockerDownRefuses`, `UpServes`, `EitherEndReturns`, `ListEnds`, `CancelReturns`, and the
fairness in `ImplementsHandoverLock` and `ImplementsTask`; and `JSRun`, which has a single
question. For `AcquireReturns`, `ReclaimedUnlessNull` and `ListEnds` the part that is safety,
that the one who waits is never stuck, is proved.

## Findings

Three statements of the repository that the code does not meet, each with a run
that ends in a counterexample.

1. `Run` is said to block until the app closes (`app/app.go:110`). It returns as
   soon as `Shutdown` has closed the listeners, and `main` with it; the process can
   end while sessions are still open (`shutdown_exit`).
2. A failed ping of the database is said to set `databaseOk` to false
   (`app/precheck.go:89`) and sets `dockerOk` (`precheck_database`).
3. A script whose context ends is said to make `Run` return the context's error
   (`pkg/js/js.go:125`). `Run` stays in its deferred send on `stop` (`js.go:108`), and the request
   with it, because the goroutine that would receive has left to interrupt (`js_hang`).

Other behaviour met while modelling, visible as an exception in a property
or an action rather than as a run:

- A signal before `ListenAndServe` makes `Shutdown` use a nil server, and with
  auto-pull disabled it stops a nil runner (`app/app.go:280`, `:289`): `Panic`.
- A handler between the hijack and `wsWG.Add` (`app/instance.go:77`-`96`) is waited for neither
  by `http.Server.Shutdown` nor by the wait group, although `app/app.go:298` logs the wait;
  `WaitsForSessions` and `LeavesNothing` except these (`late`).
- A trigger that outlives the five seconds panics in `Runner.Run`; its request fails.
- With a TTY the proxy reads its one stream in two goroutines (`proxy.go:80`, `:81`), so output
  can reach the client out of order, and the bytes of a rune they split are replaced
  (`rune_copy.go:37`); `OutputKept` promises order and whole runes per reader only.
- The goroutines of the proxy are said to "exit when the context is cancelled, or ..."
  (`proxy.go:77`). One that is blocked in a write to a command that does not read, while its
  client leaves, sees nothing, and then nobody cancels the context; the same holds for a
  client that does not read. `Unnoticed` names both cases. A message of an unexpected shape
  panics (`proxy.go:112`-`127`).
- A create that is cancelled while Docker carries it out leaves a container of which the
  server has no identifier: of a post (`spec_create.go:98`, `spec_legacy.go:84`), whose image
  then cannot be removed either, or of a Go build (`gobuild.go:68`). Only pruning finds it.
- Instances of one Dockerfile share their image under several tags, and Docker refuses to
  remove it by its hash (`cleanup.go:62`, `spec_create.go:64`): a row is then not marked as
  cleaned although nothing has failed, and stays so as long as another tag is there. The row
  of a clean request can still be active, without a container, and be answered.
- A cancelled `Exec` goes on while the streams are open (`dexec.go:100`; the comment at `:37`
  says so), which `CancelReturns` states as its hypothesis.
- Errors of the copying goroutines of `Exec` are logged only: a `write` whose base64 does not
  decode leaves a cut file and succeeds.
- `gobuild.Build` returns its buffer without waiting for the goroutine that fills it
  (`gobuild.go:179`), so `tar` may be given a cut archive.
- A Go build that is cancelled while it runs is left to end by itself; a builder that was created and could not be started is removed, unless that call fails too or the create
  itself was cut off (`BuilderGoes`).
- Two posts that overlap leave two active instances of one spec (`app/spec.go:172`);
  `TwinsOverlap` says that nothing else does.
- A transaction that fails leaves image and container without a row (`app/spec.go:269`);
  `TakenBack` excludes a failing database.
- An asynchronous clean may take away what a later post was given (`app/spec.go:304`).
- A crash during a session, or a failing update after it, leaves `ExpiresAt` NULL and the
  instance is never expired (`app/instance.go:124`); `ReclaimedUnlessNull` shows that
  only this and a shared image keep an instance from being cleaned.
- The expirer marks rows by an earlier query (`app/cleanup.go:113`): an instance used
  again in between is deactivated although it is not expired, even under a session.
- A stop that fails at the end of a session is only logged (`app/instance.go:159`): the container
  runs on until a cleaner kills it. A kill that fails in `markAll`, or a late session's start
  behind it, leaves a container with a marked row (`Stranded`).
- Pruning goes by the container's age (`app/cleanup.go:285`): an active instance kept
  alive by its sessions loses its container after a day.
- The clean-up of `Shutdown` looks at active rows only (`app/cleanup.go:161`): rows that
  were just deactivated stay uncleaned.

## Not modelled, and the plan

The order so far was: the expire manager and its abstract lock, because sessions
rely on it; the runner; the instance life cycle on top of the lock; the server's
life cycle on top of all three; specs, prechecks and the proxy, which are
independent of each other; then the inside of the steps that `SpecHandling` takes
as one, the script and its actions. What could follow:

1. `BuildStream`: how `image.Build` picks the image of the last stage.
2. `RuneScan`: `ScanRunesGreedy` over longer runes against a reference definition.

`AutoPull` copies the keys of a thread-safe cache and pulls each image, with an error
logged; the images are not state of any module here, so a model would be the loop itself.
Of `pkg/js` the module loaders are left out, and of `app/specbuild` the contents of commands and
files: nothing that is checked depends on them.

Outside the project stay parts without state the rest depends on: configuration,
logging and middleware, templates and static pages, version tables, generated
stores and migrations, load-test tools, vendored JavaScript (the terminal emulator, lodash), and the ciphers of `pkg/simplecrypto`, whose
model would be the assumption that they work.
