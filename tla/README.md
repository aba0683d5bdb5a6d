# Verification of the e-commerce gateway

TLA+ models of the gateway in `src/`, checked with TLC on small instances and,
for the safety properties, proved with TLAPS for every value of the constants.
`PROJECT.json` lists components, runs, mutants, the map from definitions to
source lines, findings, hazards and theorems; this file explains them.

## The system

The gateway accepts HTTP requests, matches a route, runs the route's middleware
chain and forwards to an instance that service discovery announced. Its
configuration comes from a config centre or a file and is reloaded while
requests are served.

| Component | State | Operations | What makes it correct |
|---|---|---|---|
| Health checker (`client/health_checker.go`) | maps of nodes, health flags and failure counts under `mu`; ticker; context | `updateNodes`, `MarkUnhealthy`, `IsHealthy`, `Start`, `Stop`, the check loop with one goroutine per node and round | flags follow counts; a push is no amnesty; rounds do not overlap; dead nodes leave, live nodes return; `Stop` is safe |
| Service watcher (`client/servicewatch.go`) and node appliers (`client/factory.go`) | per service name a `watcherStatus` with the cached list, and the appliers; per applier its picker, health checker and `canceled` flag | `Add`, `watchLoop`, `doCallback`, `proccleanup`, `stopWatcherIfUnused`, `Callback`, `Cancel` | a subscriber always has a live watcher; no push is lost; the newest list wins; unused watchers and cancelled appliers go away |
| Request handler (`proxy/proxy.go`, `client/client.go`, `middleware/request.go`) | locals of the handler and of `RoundTrip`, and the `RequestOptions` they share | body buffering, the retry loop, the chain, node selection, the upstream call, delivery | a response or an error, never neither; bounded upstream calls with the whole body; retries move on to other nodes; the last attempt counts; the delivered call is released once |
| Middlewares (`middleware/*`) | jwt: public key under `mu`; rbac: enforcer under `enforcerMutex`, role cache; circuit breaker: breaker and backup client | one `RoundTrip` each; reload of key and policy files | refusals end the request; reloads neither block traffic nor leave a rejected file in force |
| Proxy update and router (`proxy/proxy.go`, `router/mux/mux.go`) | the current router (atomic), per router a wait group and its clients | `Update`, `ServeHTTP`, `Handle`, `SyncClose` | a request is served by one whole configuration; clients are closed when their router's requests are done, and all of them are |
| Configuration loader (`config/config.go`) | last good configuration, its hashes, handlers, `applyLock` | `watchSource`, `watchLocal`, `watchPriority`, `executeLoader`, priority merge | the newest valid main configuration with the newest priority files is what is applied in the end; a failed update changes nothing |
| Control-plane loader (`config/config-loader`) | last version, priority versions, the service asked | `Load`, `LoadFeatures`, `Run` | no version is reported that is not on disk; failing services are left for the next one |
| Config source (`pkg/loader/source.go`) | target files | `Watch` with backoff, `replaceFile`, `WatchFile` | a file is replaced whole or not at all and restored when its user rejects it |
| Registry, router filter, CORS, rewrite, limiter, transcoder, errors (`middleware/*`, `errors/*`) | none between requests but the limiter's count | pure functions, applied to a request in place | no guard is passed by; a retry is the same request; browsers can read every answer |

How they interact: main loads a configuration and calls `Proxy.Update`, which
builds per endpoint a client (picker, health checker, applier) and a handler. The
applier subscribes to the gateway-wide service watcher, whose goroutines call it
back with instance lists; the callback writes the picker and the health checker.
Requests read both, and report transport errors back to the health checker. An
update swaps the router and closes the old one's clients in the background, which
cancels their appliers and stops their checkers.

Hard behaviours: results of checks and pushes of lists that cross each other; a
subscription during a push; the cleanup racing a new subscription; contexts that
expire between two steps of a retry loop; health that changes between attempts;
a stop racing the loop it stops; a reload while requests run.

## Modules

| Module | Models | Run by |
|---|---|---|
| `HealthChecker` | the health checker of one client | `MCHealthChecker` |
| `ServiceWatcher` | the service watcher for one service name, with its appliers | `MCServiceWatcher` |
| `RequestHandler` | one request in an endpoint's handler: retries, nodes, delivery | `MCRequestHandler` |
| `AtomicReload` | abstract: what the configuration loader promises | as a property of `ConfigLoader` |
| `ConfigLoader` | start, watchers and `executeLoader` of the configuration loader, with the proxy as its handler | `MCConfigLoader` |
| `RouterSwap` | `Proxy.Update`, the routers it replaces, and requests in them | `MCRouterSwap` |
| `FileReload` | the files of the rbac and jwt middlewares, their reloads, and the enforcer's lock | `MCFileReload` |
| `ControlPlane` | the control-plane loader | `MCControlPlane` |
| `PathMatcher`, `Cors`, `Rewrite`, `RetryPolicy`, `PriorityMerge`, `ErrorResponse` | path rules; headers and origins; path rewriting; retry strategy and conditions; priority merge; errors | through `MiddlewareChain` |
| `MiddlewareChain` | composes those six: one request from the merged configuration through its chain to its answer | `MCMiddlewareChain` |
| `HealthCheckerProofs`, `ServiceWatcherProofs`, `RequestHandlerProofs`, `ConfigLoaderProofs`, `RouterSwapProofs`, `FileReloadProofs`, `ControlPlaneProofs`, `MiddlewareChainProofs` | theorems about the eight state machines | `tlapm` |

Definitions named `...` after "Bug:" comments are mutations of the definition
that follows them. They are used by no specification; replacing the original by
one of them must make TLC report the property it is listed with.

### HealthChecker

`nodes`, `healthyNodes` and `failureCount` are the three maps (the values of
`nodes`, weights and metadata, play no part). Every critical section of `hc.mu`
is one action. The check loop is `top` (about to evaluate the select's channels),
`select` (blocked) or `checking`; a node's check is `sent`, then `ok` or `fail`
until the result is recorded, so pushes, failing requests and `Stop` come in
between. `Stop` is two steps, as the code drops the ticker before it cancels the
context and takes no lock. `registerNode` and `unregisterNode` are not called
outside construction, which passes no nodes. Counts saturate at `CountCap`: the
code only compares them with `maxFailures`.

### ServiceWatcher

An instance list is the registry version it was read at. `Add` is the critical
section and, when a cached list exists, two further steps without the lock:
picker, then health checker. `watchLoop` is a goroutine per status; `doCallback`
holds the read lock while it walks the appliers, so it is several steps that
exclude every writer (`NoReaders`) but not each other and not the unlocked part of
`Add`. `proccleanup` is find, delete, stop and cancel, each its own critical
section. An empty list is ignored by `applyServices` and takes no step.
`watcher.Next` fails with a cancelled context only once the status was cancelled;
any other failure is the registry's and is retried. `told` is a history variable:
the newest list ever given to an applier's picker.

### RequestHandler

The handler is sequential, so its actions are the stretches between points where
the environment matters: the context may expire and the set of healthy nodes may
change at any point. `i` and `inner` are the two retry counters; `err` and `resp`
the handler's variables with Go's assignments in the code's order (in particular
`err = ctx.Err()` at the head of a pass, and the shadowed `err` of
`retryBreaker.Allow`, which leaves the outer one alone). Errors are pairs of code
and reason, compared as kratos compares them. A response remembers its attempt
and its upstream call; `doneCalls` counts how often the selector's `done` of each
call ran. The global middlewares wrap those of the endpoint, hence jwt and rbac
before the circuit breaker; each attempt may be judged differently since tokens
expire and policies are reloaded. Both sre breakers are external and may say
either. Retry conditions are sets of statuses chosen at the start, as is the
breaker's action. `ran` and `steady` are history variables.

### ConfigLoader and AtomicReload

Contents of the main configuration and of the priority directory are numbered in
the order they were written, and a hash is that number. `boot` is the start of
`main.go`: `initialize`, the hash, the first `Update`, `Watch`. Two threads follow:
`main` (`watchLocal` in file mode, `watchSource` in centre mode) and, in centre
mode, `prio` (`watchPriority`). What a thread has read is in `data`, `hash` and
`overlay`; `holder` is the owner of `applyLock`. Reading a file, hashing the
directory, taking the lock, decoding with the merge, setting the variables, the
handler, taking them back and committing are separate steps, so that edits, the
other thread and `Close` come in between. The contents decide which step refuses
them. In centre mode the stream delivers the current value once (`delivered`) and
again after it was broken.

`AtomicReload` has only the configuration that is served and the environment, which
change together, to a usable configuration. The refinement maps its `env` to the
saved `previous` while the handler has not decided (`Undecided`) and to the real
variables afterwards. Right because the loader is the only writer and the variables
set too early are taken back before `applyLock` is released.

### RouterSwap

Routers are numbered by the `Update` that builds them. An `Update` handles one
endpoint per step, with each way the code can fail: the factory (with or without a
subscription left behind), a middleware or the retry strategy, the route. `Swap` is
the atomic store; `SyncClose` of the old router is the `waitTimeout` goroutine
(`waiter`: entering `wg.Wait`, blocked, released, returned) and the closing one
(`closing`). A request loads the router, then enters it (`wg.Add`), then leaves it.
A request that enters between the release of the waiter and its return makes
`sync.WaitGroup` panic in a goroutine without recover; `crashed` records it, and
the system stops there.

### FileReload

`user` is the middleware: rbac with model and policy, read in that order, or jwt with
its certificate. Each file has a `WatchFile` goroutine: it takes the snapshot,
validates, replaces, rebuilds from all the user's files one read at a time, restores
and rebuilds once more when that fails, and swaps under the write lock. Requests of
rbac hold the read lock across the upstream call; a waiting writer keeps new readers
out, as Go's `RWMutex` does. A crash may come at any step and keeps the files only.
A start syncs them from the centre and gives up at the first bad one. Two history
variables tell when files and memory have to agree: `overlapped`, from the first
reload that starts during another one to the swap of the next that runs alone
(`solo`), which has read every file that was there.

### ControlPlane

The loop of `Run` with a step for each answer, write and failure. Releases are
numbered; services go up and down, writes and removals fail, the process restarts
with its files. `Reported` is what a request may carry of the priority versions:
`encodeLastPriorityVersion` sets one parameter again and again, so the last entry of
a map iteration in random order wins.

### MiddlewareChain and its operators

The state machine loads a scenario (main endpoints, priority files, global
middlewares, a client's request), merges, builds the chain as the registry does,
routes, and for each attempt walks in and out of the chain middleware by middleware,
the request being one shared value that they change in place. The handler clones it
per attempt. The answer is a response, or an error through `Classify` and `Write`.
Paths are sequences of segments, origins sequences of labels, headers functions from
names to value sequences. `Match` follows the regular expressions the code builds;
`Covers` is the reference it is compared with, for rules whose wildcard is at the end
(`Plain`): `/*` covers the children and `/**` all paths strictly below, as
`README.md:342-350` says. The code differs in one place, `OnBarePath`: a wildcard rule
takes in the path before the wildcard too. `Effective` is the reference for the
priority merge. The loops of the code that
build something step by step (the chain from its last middleware, the merge item by
item, `path.Clean` segment by segment) are recursive functions over the number of
steps. A route is an endpoint's place in the merged list: the first that can be built
and has the path and the method serves; OPTIONS is registered with every route, and
an endpoint without a method, or with `*`, takes all. Configurations name neither
`tracing` nor `circuitbreaker` (`Unmodelled`): they are registered, but the chain has
no action for them. The circuit breaker of the retry loop is in `RequestHandler`.

The constants are the scenarios and the outcomes an upstream may have. Two named
assumptions give their shapes and nothing else: endpoints and middlewares are lists of
parsed messages, a request has the fields of one, an upstream returns a response or an
error, and the code of a kratos error is not set or that of an HTTP error. No
middleware is one of `Unmodelled`.

## Runs

| Run | Bounds | Shows |
|---|---|---|
| `health_checker` | 2 addresses, 3 failures (the code's threshold) | six properties, 8,308 states |
| `health_checker_panic` | same | `LoopNeverPanics` is violated (finding 1) |
| `service_watcher` | 2 appliers, 2 statuses, 2 registry changes | five properties, 73,785 states |
| `service_watcher_stale` | same | `NodesAreTheLatest` is violated (finding 2) |
| `request_handler` | 2 nodes, 1 backup node, 3 attempts, 2 upstream statuses | seven properties, 403,146 states up to symmetry |
| `request_handler_auth_retry` | same | `AuthErrorsEndTheRequest` is violated (finding 3) |
| `config_loader` | 5 main contents (refused, bad variable and undecodable among them), 2 priority contents, 2 variables, both modes | six properties, 25,079 states |
| `config_loader_undone` | same | `UpdatesAreNotUndone` is violated (finding 4) |
| `router_swap` | 2 Updates of 2 and of 0 or 1 endpoints, 2 requests | three properties, 158,526 states |
| `file_reload` | 3 contents per file, 2 requests, any number of crashes | five properties, 79,782 states |
| `control_plane` | 3 releases, 2 services, 2 keys, any number of restarts | three properties, 13,680 states |
| `middleware_chain` | four groups of scenarios, at most 2 attempts, paths of at most 3 segments, at most 3 priority items | five properties, 55,000 states |

Why the bounds are enough: two addresses let one node fail while the other is
checked, and every count up to the threshold occurs. Two appliers and statuses
are the least with a subscriber that joins during a push and a status that is
replaced while the loop of the old one still runs; two versions are the least
with an old list that overwrites a newer one. Three attempts on two nodes pass
through a first call, a retry with a choice and a retry without one. Five main
contents are two that are usable with every kind of refused one between them, so a
reload follows each kind of failure; two priority contents are the least with an edit
between hashing and merging. Two Updates replace a router with clients by one
without or with one, while two requests overlap in it. Three contents per file are
the least with a refused one that is followed by a good one, and with a pair that
does not go together. Three releases add a key and take one away. The scenarios of
the chain hold every kind of path rule against every short path, the chain of the
README with every kind of token and origin, middlewares that answer for one
another, and directories that replace, add and repeat endpoints. Deadlock is checked
unless the system may stop (a crashed or closed process, all clients closed and
all bounds reached).

Properties, each with the hazard it answers in `PROJECT.json`. Where the code does
what a property would otherwise forbid, the property excepts the case under a name of
its own, and the hazard's note says that nothing catches it:

* `HealthMatchesCount`, `NoCheckOutlivesRound`, `OnlyAPassedCheckForgives`;
  liveness: `DeadNodeFilteredOut`, `LiveNodeComesBack`.
* `AppliersAreWatched`, `EveryoneWasTold`; liveness: `UnusedWatchersEnd`,
  `CanceledAreDropped`.
* `HashNeverAhead`, `SnapshotIsServed`, the refinement `ReloadsAreAtomic`; liveness:
  `LocalCatchesUp`, `CloseEndsWatchers`.
* `RequestsKeepTheirClients`, `NothingElseLeaks`; liveness: `OldClientsClose`.
* `SequentialReloadsAgree`, `JudgedByTheEnforcerInForce`; liveness:
  `ReloadIsNotStarved`, `UsableKeyComesIntoForce`.
* `NeverOverstates`; liveness: `ReleaseArrives`.
* `AttemptsSendTheSameRequest`, `EveryGuardWasPassed`, `AnswersAreReadable`,
  `PermitsAreReturned`, `PriorityEndpointsWin`.
* `AnswerHasResponse`, `UpstreamCallsBounded`, `EveryCallCarriesTheBody`,
  `AnswerIsTheLastAttempts`, `RepeatsOnlyWithoutChoice`,
  `DeliveredCallReleasedOnce`.

Fairness. The check loop and its goroutines are weakly fair: the ticker ticks, and
the HTTP client's timeout ends every check. Discovery, traffic, `Stop` and the
backends owe nothing, so the two liveness properties assume in their premises that
the checker runs and the backend stays as it is. In `ServiceWatcher` the cleanup and
the watch loops are strongly fair, because their steps wait for a write lock that
readers take again and again, and Go's `RWMutex` admits no new reader while a
writer waits; the rest of an `Add` that has begun is weakly fair. New
subscriptions, cancellations and registry changes are not fair. In `ConfigLoader`
polling is weakly fair; hashing, a thread's way through the lock and the reload, and
the end of a watcher are strongly fair, because reads fail now and then but not for
ever, Go's mutexes do not starve a waiter, and a select with two ready cases picks
at random. Edits, the stream and `Close` owe nothing. In `RouterSwap` only
`SyncClose` is fair: its timer fires, requests may hang. In `FileReload` the watchers
are weakly fair, and an upstream call ends since every route has a timeout. In
`ControlPlane` the loop is weakly fair and a disk does not refuse the main file for
ever; the premise of `ReleaseArrives` is that one service stays up and nobody
restarts or cancels any more. `RequestHandler` and `MiddlewareChain` have safety
properties only.

## Findings

1. `Stop` sets the ticker to nil before it cancels; a loop on its way to its select
   dereferences it and the process dies. `NewFactory` calls `Start` and then `Stop`
   for an endpoint with a bad backend, the case the proxy promises to skip.
2. `Add` applies the cached list after releasing the lock and can overwrite a newer
   one pushed meanwhile, in the picker, the health checker or one of them. The old
   list stays until the service changes again. `EveryoneWasTold` holds
   nevertheless: the newer list was delivered, only then overwritten.
3. The retry loop compares with `jwt.NotAuthN`, which nothing returns, and with
   `ErrPermissionDenied`, which rbac returns for a missing user only; all other
   refusals are retried, against `docs/REQUEST_FLOW.md`.
4. `watchPriority` copies the main configuration before it waits for `applyLock`. A
   newer one applied meanwhile is replaced by the copy, and the stream does not send
   it again, against `README.md:251`.

Behaviour met while modelling that no line of the repository contradicts, or that a
property excepts by name:

* The merge keeps one index while it prepends endpoints, so in a directory where a
  new endpoint comes before a replacement the replacement hits a neighbour
  (`config.go:257`); `PriorityEndpointsWin` excepts these directories (`Shifts`).
* Two reloads at the same time rebuild from each other's files, each swapping when it
  gets the lock (`rbac.go:171`). The reload of the model fails, puts the old model back
  and rebuilds from it and the old policy; before it swaps, a new policy is written,
  built and swapped in; then the first swaps the old policy back. The disk has the new
  one, against `docs/REQUEST_FLOW.md:48`, until a reload runs alone.
  `SequentialReloadsAgree` excepts this span only (`overlapped`).
* A main configuration that names a key twice has the later endpoint in the merge's
  index while the router serves the earlier, so a priority file that names the key
  replaces the endpoint nobody reaches (`config.go:250`); `PriorityEndpointsWin`
  excepts these keys (`Repeats`).
* The factory leaves the subscription of an earlier backend when a later one fails
  (`factory.go:97`), and a client whose route was refused is closed only if the whole
  `Update` fails (`proxy.go:415`); `NothingElseLeaks` names both.
* A request that enters an old router while its waiter is being released makes the
  wait group panic (`mux.go:144`): `crashed` in `RouterSwap`.
* bbr calls its done function without defer, so a panic further in keeps the permit;
  rewrite and transcoder panic on the header-less 429 of a bbr inside of them.
* The README (lines 343-350) translates `/*` and `/**` to patterns that need at least
  one character; the code makes them optional (`routerfilter.go:107`), so a rule for
  `/a/*` lets `/a` by jwt and the router filter as well. `Covers` follows the README;
  `EveryGuardWasPassed` excepts the bare path by name (`OnBarePath`, in `CoveredBy`).
* An event whose directory hash fails is dropped, in centre mode until the next change
  (`config.go:374`).
* Priority files that could not be written are not tried again until the next release,
  and `Run` does not end while `Load` keeps failing after its context was cancelled
  (`ctrl-loader.go:361`).
* The transcoder cuts the content type with `TrimLeft`, which takes a set of
  characters and not a prefix.

## Proofs

The theorems are `Spec => []...`, one action property and one refinement, from the
named assumptions of the component modules only: a positive threshold not above the
counter's cap; `NoApplier` not an applier; at least one attempt (`calcAttempts`
returns no less); endpoint and backup nodes disjoint; modes among the two the code
has; bounds that are natural numbers; keys of a release among the keys; the shapes of
configurations, requests and outcomes. Which contents are refused, by whom, and how
many requests there are is left open. Each proof is a lemma per action (or per group
of actions that touch the same state) for one inductive invariant `IInv`.

* `HealthCheckerProofs`: `IInv` is the type invariant, `HealthMatchesCount` and
  `NoCheckOutlivesRound`; together they are inductive.
  `OnlyAPassedCheckForgives` follows from the step relation under it.
* `ServiceWatcherProofs`: `AppliersAreWatched` is not inductive, as it does not say
  why the current status is alive. `WatchInv` adds that statuses above `created` are
  untouched, and that the status the cleanup is about to cancel is not the current
  one. `EveryoneWasTold` speaks of quiet states only; `DueInv` says for all states
  that an applier has the list or somebody is still going to hand it over (the
  callback to come, the callback under way, or its own `Add`), and `PushInv` that
  what is being pushed is what is cached.
* `RequestHandlerProofs`: `CountInv` ties the upstream calls to the passes of the
  loop, `ResultInv` says that each exit leaves an error or the last attempt's
  response (a failed `RoundTrip` always has a `lastErr`), `BodyInv` that the reader
  is fresh until the one call of the attempt, `DoneInv` that the response's call has
  not been released before `CopyBody`, and `FilterInv` that steady nodes are healthy.
* `ConfigLoaderProofs`: `LockInv` says that only the holder of `applyLock` is inside
  `executeLoader`, `DataInv` what the threads may have read, `ServedInv` that the
  snapshot and the served configuration differ only between the handler and the
  commit, `HashInv` that a hash taken before a merge is not newer than it, through
  every place where it is carried along, and `EnvInv` that the variables are the saved
  ones with those of the configuration at hand until the handler has decided. From
  `EnvInv`, `LoaderIsAtomic` shows that each step is a step of `AtomicReload` or a
  stutter.
* `RouterSwapProofs`: `OrderInv` says that routers are built, swapped and closed in
  order and untouched before; `OpenInv` that exactly the clients with a route are
  open until `SyncClose` gets to them; `WaitInv` that it does not before its limit or
  the return of `wg.Wait`, and that whoever is inside after the release came late;
  `RetiredInv` that a router in use has a route or no endpoints. The first two with
  `WaitInv` give `ClientsStayOpen`, `OpenInv` and `RetiredInv` give `NoOtherLeak`.
* `FileReloadProofs`: `GoodInv` says that what may be restored passed validation,
  `OwnInv` that the other middleware's files play no part, `PlaceInv` what a watcher
  has read where, and `AgreeInv`, for one reload at a time, that idle files are in
  force, that the snapshot is what is in force, and that what was read is still on
  disk. `SoloInv` says the same of the one reload that runs alone after an overlap,
  so that its swap makes memory and disk agree again.
* `ControlPlaneProofs`: `AgeInv` says that files are never newer than the release
  about to be written over them, `WrittenInv` which of its items are written.

* `MiddlewareChainProofs`: for any configuration, request and upstream, so for chains
  of any length and order, any number of attempts, any rules and any priority files.

  The operators come first. `Induction` and `Recursion` are stated for sets and
  functions instead of predicates and follow from the least element of a set of
  naturals; with them a recursive function is known by its equation. `ChainInOrder`
  says that wrapping from the end puts each middleware the registry knows at the place
  of its rank. `PriorityWins` follows the merge item by item: until an item is
  prepended, the index still points at the endpoints it was built from, and afterwards
  `Shifts` excludes a replacement. `MatchIsCovers` shows for every plain rule, method
  and path that the regular expression matches what the reference covers and the bare
  path, and nothing else: with the wildcard last, the way an expression can be laid over
  a path is fixed. `RequiredIsCreated` says that a chain that was built has its required
  middlewares in it, not an empty one in their places.
  `ErrorsAreReadable` goes through the tables of `Classify` and `Write` for any error.

  The five properties are not inductive: they speak of what was sent or answered, and
  are silent about the way there. `EnterShape` and `LeaveShape` reduce the fourteen
  middleware actions to three shapes: the request goes in (`Hop`), is answered
  (`Turned`), or an outcome is handed back (`Handed`); only a panic is left over. Then
  `Trail` says that a list of requests starts with the client's and goes on by hops
  along the chain. The invariant has that what is on the stack is such a trail
  (`Walk`), that so is the history of everything that was sent, with the length of the
  whole chain (`Sent`), that the chain is the configured one (`Placed`, from `Loaded`
  and `Configured`), that the outcome is a response or an error (`Outcomes`), that the
  permits are the limiters the request is inside of (`Counted`), and that an outcome
  that has come out of a cors allowing the origin names it (`Echoed`, `Answered`). A hop
  is determined by the middleware, the request and the endpoint, so two trails over one
  chain end alike: `AttemptsSendTheSameRequest`. A trail of the length of the chain has
  a hop for every guard: `EveryGuardWasPassed`. For the origin, what stands outside of
  the cors is calm (`CalmOrigin`): it changes neither the header nor a response.

Model-checked only: the ten liveness properties, as fairness is out of the prover's
reach. The four runs that expect a violation have nothing to prove. Every invariant and
action property of the passing runs is a theorem, and so is the refinement. The
inductive invariants of `HealthChecker`, `ServiceWatcher`, `RequestHandler` and
`MiddlewareChain` were checked by TLC before they were proved.

## Not modelled

Left out for good: generated API code, tracing, metrics, debug pages, sockets and
TLS, Consul's client, the statistics of the sre breaker and of bbr (both may say
either), the picker's load estimate, the parsing of node addresses and the table of
retry delays, the clients of circuit breakers' backup services, rbac's role cache
(filled and swept but never read). Edits that bring back earlier bytes, and patterns
whose literals hold regular-expression characters, are outside the models' data.

## Plan

1. `NodeApplier`: health checker and service watcher composed over one client, with
   direct backends; the abstract promise "traffic goes to announced, healthy nodes".
2. `RouterSwap` composed with `ConfigLoader` as its caller, instead of the handler
   that accepts or refuses by contents.
3. `MiddlewareChain` and `RequestHandler` composed: the chain's way with the client's
   own retries and the circuit breaker inside of it.
