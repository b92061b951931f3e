# scrapemate in TLA+

[scrapemate](../src/README.md) is a Go framework for web scrapers: an engine
runs jobs that a job provider hands to its workers, each job fetches a page
(over HTTP or with a browser), parses it, returns a result and possibly further
jobs. This directory holds TLA+ models of the parts of it where goroutines,
channels, contexts, files and limits meet, TLC configurations that check them on
small instances, and proofs of their safety properties for every number of jobs,
workers, browsers, pages, proxies and connections.

All paths below are relative to `src/`.

## 1. The system

| Component | Code | State | Operations | What makes it correct |
|---|---|---|---|---|
| Memory provider | `adapters/providers/memory/memory.go` | three unbuffered channels by priority; a goroutine per pushed job; a pump goroutine per call of `Jobs` | `Push`, `Jobs` | every pushed job is handed out, once; high priority first |
| Engine | `scrapemate.go` | context and its cause, workers, results and failedJobs channels, statistics, watchdog | `Start`, `startWorker`, `finishJob`, `pushJobs`, `pushToFailedJobs`, `processInitJob`, `waitForSignal` | no job lost or run twice, no result lost, no send on a closed channel, `Start` returns |
| One job | `scrapemate.go` (`DoJob`, `doFetch`, `getMaxRetries`), `job.go` | response, retry counter and delay; the cache | fetch, check, retry policies, cache, parse, process | bounded retries; nothing bad is cached or processed |
| Page-slot pool | `adapters/fetchers/jshttp/page_slot_pool.go`, `jshttp.go` | browsers, a channel of tokens, leases | `newPageSlotPool`, `acquire`, `release`, `close`, `fetchWithPageSlot`, `closeWithTimeout` | at most `maxPagesPerBrowser` pages per browser; capacity is kept; a fetch that has its answer from the browser returns |
| Session slots | `adapters/fetchers/jshttp/session_slot.go`, `jshttp.go` | channel of slots, one browser, context and page each | `getSlot`, `putSlot`, `acquirePage` with its recovery ladder, `release`, `Close` | no slot lost or shared; recovery ends and keeps the session; nothing runs after `Close` |
| Application | `scrapemateapp/scrapemateapp.go` | engine, provider, cache, writers in an errgroup | `Start`, `Close`, `getMate` | a nil error means that no result is lost; everything is closed after its last use; `Start` returns |
| Configuration | `scrapemateapp/config.go` | the `Config` that the options fill | `NewConfig`, the options, `derivedBrowserPoolSize` | the order of the options does not matter; there are pages for all workers |
| Proxy rotator | `adapters/proxy/proxy.go`, `proxy.go` | atomic 32-bit counter, transport cache | `Next`, `RoundTrip` | round robin; a request goes through the proxy chosen for it |
| Local proxy | `adapters/fetchers/jshttp/pool.go`, `local_proxy.go` | servers, connections, tunnels of two goroutines each | `NewProxyPool`, `StartAuthProxy`, the handlers, `tunnelConnection`, `Close` | no connection outlives its handler; handlers return when a peer goes; browsers are spread evenly |
| Caches | `adapters/cache/*` | one file, or LevelDB entry, per key | `Get`, `Set` | what is found was stored, whole; an undisturbed `Set` repairs any damage |
| Page adapter | `adapters/browsers/playwright/page.go` | handlers registered by a job | wrappers of the driver; `OnRequest`, `OnResponse`, `ClearNetworkHooks` | no hook of a job survives it on a reused page (not modelled) |
| HTTP fetchers, parser, writers | `adapters/fetchers/nethttp`, `stealth`, `adapters/parsers`, `adapters/writers` | none | translate requests, responses and results | they are pure I/O to this project |

How they interact. `ScrapemateApp.Start` makes a cancellable context, starts one
goroutine per writer, which receives from the engine's results channel, pushes
the seed jobs and calls `ScrapeMate.Start`. The engine starts its workers; each
asks the provider for a pair of channels and selects on them and on the context.
A worker runs `DoJob`, which calls the fetcher (and through it the page-slot pool
or the session slots), the parser and the job's own code; then it pushes the
job's children back to the provider and sends the result. A signal, the caller, a
failing writer, a `StopScraping` job and the inactivity watchdog all stop the run
in the same way, by cancelling the context with a cause.

What is hard about it: goroutines that select on a context and on a channel at
once, where either may win; unbuffered sends that do not look at the context;
work handed from goroutine to goroutine while the run stops; counters kept apart
from the channels they describe; drivers that never answer. `PROJECT.json` lists
each such place under `hazards`, at its line, with the property that watches it.

## 2. The modules

### JobProvider — what the engine needs of a provider

`pushed`, `delivered` (a count per job) and `stopped`. A pushed job is delivered
once, and eventually unless the context is done. It has no order and no
goroutines. This is the `JobProvider` interface of `services.go`.

### MemoryProvider — `memory.go`

| Variable | Code |
|---|---|
| `ctx` | the context given to `Push` and `Jobs` |
| `pusher[j]` | the goroutine of `Push(j)`: started, parked on its channel, sent, quit |
| `pump[w]`, `holding[w]` | the goroutine of worker `w`'s `Jobs`, by the select it is at, and its variable `job` |
| `errc[w]` | the buffered error channel |
| `delivered`, `overtaken` | history: receptions of each job; how often a waiting job was overtaken |

A `select` with a `default` clause only sees a sender that is parked on the
channel; the blocking inner select also meets one that arrives. That is why a
pusher is `started` before it is `parked`. Each case of the three nested selects
is an action. `Push`'s context may close later than that of `Jobs` (a seed is
pushed under the application's context), so a parked job may still be received
when `ctx` is done.

### ScrapeMate — `Start` and its goroutines

The provider's variables and steps are part of this specification
(`Mem == INSTANCE MemoryProvider`): `CallJobs`, `WorkerErr`, `TakeJob`,
`PushChild` and `PushSeed` are joint steps of the engine and the provider.

| Variable | Code |
|---|---|
| `cause` | `context.Cause(s.ctx)`: the first cancellation wins |
| `main`, `initq` | where `Start` is, and the stack of `processInitJob` |
| `worker[w]`, `job[w]`, `todo[w]` | where the worker is in `startWorker`, its job, the children `pushJobs` has still to push |
| `watchdog`, `stale` | the statistics goroutine; whether the last activity is longer ago than the limit |
| `completed`, `failed` | the counters of `stats` |
| `exitOnInactivity` | the option, chosen in the initial state |
| `writer` | the consumer of the results channel; it may fail, which cancels the context |
| `received`, `succeeded`, `ended` | history |
| `crashed` | a panic outside any recover: `DoJob(nil)` |

What `DoJob` does is the subject of `JobRun`; here it lasts as long as it likes
and ends in success or in an error, and under `StopScraping` it may cancel the
context while it runs. The job tree (`Children`) is a constant: each job object
is pushed at most once. The failed-jobs channel is left out except for its
effect on the worker, which is released by a receiver or after five seconds.

### Scraper — what the engine promises about the jobs

`pushed`, `running` (the job of each worker), `finished`, `succeeded`, `results` and
`over`. A job is pushed once, from outside or by its parent while that runs; it is run
once, by one worker; it succeeds only when its children have been pushed, and its result
comes in that moment; when `Start` has returned nothing runs. How jobs wait, in which
order they run, which of them fail and why the engine stops is left open. `ScrapeMate`
implements it (`Promise`, with `running <- job`, `over <- main = "returned"` and sets
that are read off `pusher`, `ended` and `received`), with the provider's goroutines, the
watchdog, signals and the failed-jobs channel as steps that change nothing.

### JobRun — `DoJob`, `doFetch`, `getMaxRetries`

Calls of `DoJob` that share the cache and the engine's context. A response is
reduced to what the control flow reads of it: whether `DoCheckResponse` accepts
it, and whether `Error` is set; both can hold at once, because `nethttp` sets the
status before it reads the body. Each attempt may bring any response. The delay
is in milliseconds and doubles as in the code. A cache lookup either finds the
entry or fails for whatever reason, and a store may fail. A panic in the fetcher,
the parser or the job's code (`DoCheckResponse` and `Process`) ends the call with an
error.

### PageSlotPool — several pages per browser

The buffered channel of slots is modelled by the number of tokens of each slot in
it: no property depends on their order. `acquire` is two actions (`Acquire`
receives the token, `CountActive` counts it under the slot's mutex) and so is
`release` (`ReleaseActive`, then `ReturnToken` or `DropToken`), because other
goroutines, `close` above all, run in between. A page whose `Close` is abandoned
after five seconds becomes an `orphan`. Browsers crash at any time and their
tokens keep circulating, as in the code. `newBrowser` may leave a launched
browser behind when `NewContext` fails (`"leaked"`).

### SessionSlots — one page per browser

| Variable | Code |
|---|---|
| `pool`, `phase` | the channel `jsFetch.slots`; whether `Close` has closed it, or is through |
| `browser[s]`, `context[s]`, `pages[s]` | the slot's runtime: no runtime yet (`"none"`), running, died, closed by the slot; the context in it; the length of `ctx.Pages()` |
| `options[s]` | whether the context was made with the options of `newBrowser` (proxy, user agent, viewport) |
| `pc[w]`, `held[w]`, `page[w]` | where worker `w` is in `Fetch` and `acquirePage`, its slot, the page it has found |
| `dropped` | history: slots closed by `putSlot` or `Close` |
| `faults`, `noPage`, `contexts` | history, per slot: faults of the driver, fetches that got no page, contexts made |

`acquirePage` is one action per call to the driver (`EnsureReady`, `FirstPage`,
`CheckPage`, `RecreatePage`, `RecreateContext`, `RecreateBrowser`, `SecondPage`),
because a browser can die and a page can close between any two of them: the worker's page or another one (`PageCloses`). A call
fails by a fault or because what it needs is gone. `CheckPage` follows the code's
inverted `isClosed`, so every fetch of a healthy slot goes through `RecreatePage`.
A recreated browser gives its caller no page and no error, and `Fetch` fails once
more (`WithoutPage`). `Close` waits until no fetch runs: in `scrapemateapp` and the
examples it is deferred until `Start` has returned.

### LeasePool — what both pools promise

`lease[w]`, the slot in which worker `w`'s job runs. A slot has at most `Capacity`
users. `SessionSlots` implements it with capacity one, `PageSlotPool` with capacity
`maxPagesPerBrowser`.

### AppConfig — `NewConfig` and its options

`config` (building, accepted, rejected), `cfg` (the `Config`), `given` (the options
applied so far, history). An option is a function from the fields it sets to their
values; `Apply` overlays it. Most options validate the whole `Config` as it is by
then (`Validates`), and `NewConfigReturns` does so once more. The fields on which
no rule and no decision depends are left out.

### ScrapemateApp — `ScrapemateApp.Start`

Extends `ScrapeMate` (and through it the provider) and `AppConfig`: an application
behaviour begins with the first option and ends with the last deferred `Close`.

| Variable | Code |
|---|---|
| `app` | where `Start` is: `getMate` (`"fetcher"`, `"cacher"`), the errgroup, the deferred calls, returned |
| `fetcher`, `cacher` | what `getMate` has opened |
| `writers[x]`, `got[x]` | each writer's `Run`; the results it has received (history) |
| `seeds`, `seeding` | the goroutine that pushes the seeds |
| `engine` | the goroutine that runs `mate.Start` |
| `group` | the first error that a goroutine returned to the errgroup |

Every writer receives from the one results channel, so `Receive` is the engine's
`SendResult` together with one writer's reception: each result reaches only one
writer. The engine's consumer (`writer` of `ScrapeMate`) is the group of writers; it
has stopped when the last of them has failed. `app.cancel` is never set, so the engine
derives a context of its own from the application's; it is done a moment earlier when
the run ends by inactivity, and one variable stands for both. `MCScrapemateApp` starts
only configurations whose concurrency is the number of workers of the instance
(`Startable`, a bound); the others end with `NewConfig`. `Forget` drops the `Config`
once it has been read, so that runs which differ only in it meet.

### ProxyRotator — the plain fetchers' proxies

`current` is the atomic counter, `Modulus` wide (2^32 in the code); each call of
`RoundTrip` goes through `Next`, `Load` (of the `sync.Map`), `Store` and `Sent`. A
transport is modelled by the proxy it was made for. `uses` and `wraps` are history.

### AuthProxy — the browsers' proxies

`NewProxyPool` and its `Next`, and for each connection the handler (`handler`), the
connection to the browser (`client`), the one to the upstream (`upstream`), and the
two goroutines of a tunnel (`up`, `down`). A connection that the server keeps may
carry any sequence of plain requests and one tunnel. The peers close or fail at any
time (`gone`, `ended`). Bytes and headers are left out, so are the rules for refused
hosts (`Refuse` may always happen).

### ProxiedFetch — both of them on one list

The configured list reaches the rotator in one mode and, through `FullURL` and
`parseProxy`, the local proxies in the other: `Usable` and `SOCKS` of `AuthProxy`
are computed from the configuration as those functions do.

### CacheRegister and FileCache

`CacheRegister` is what the engine may expect of a cache, for one key: a `Get` finds
a response that was stored, or misses; it may miss or find either response while a
`Set` runs; after a `Set` that no other disturbed it finds that response. `Failed`, an
error of the storage itself, may end any `Get`; it is told apart from `Miss`, there
being no entry or no whole one, which an undisturbed `Set` rules out. Its history
(`clash`, `stable`, `may`) is used by `FileCache`, which has the file as a sequence of
blocks, and calls that create, write and read it block by block. Opening an existing
file (`OpenFails`), reading it (`ReadFails`, after any number of blocks), creating it (a
step that changes nothing) and writing it (`WriteFails`) may fail; an error of
`f.Close`, which the code ignores, is not modelled. The process may end at any point. gzip's checksum is what `Decode` stands for: anything but a complete
entry is an error.

### The proofs

`MemoryProvider_proofs`, `ScrapeMate_proofs`, `JobRun_proofs`, `ScrapemateApp_proofs`
(with the proofs about `AppConfig`), `PageSlotPool_proofs`, `SessionSlots_proofs`,
`ProxiedFetch_proofs` and `FileCache_proofs`; see section 5. Each extends the module it
is about. `ScrapeMate_proofs` uses the lemmas of `MemoryProvider_proofs`, and
`ScrapemateApp_proofs` those of the engine.

### MC modules

Each `MC` module extends a specification with the values that its `.cfg` files give
to the constants, and with the symmetry sets of the safety runs.

Some definitions have a sibling with a suffix, `Deliver_ToInner` next to `Deliver`.
It is the same step with a plausible mistake in it, named in the comment above
it, and no specification uses it. With the sibling in the place of the original
the property that `PROJECT.json` pairs with it is violated: this shows that the
property can fail at all.

## 3. The runs

Deadlock checking is off everywhere, because every one of these systems really
stops: `Start` has returned, all calls have ended, the constructor has failed or
all jobs were delivered and nobody pushes any more. That nothing stops too early
is what the liveness properties are for.

| Run | Shows | Bounds |
|---|---|---|
| `MCMemoryProvider_provides` | `JobInOnePlace`, `OvertakingBounded`, and the refinement of `JobProvider` (`ProvidesEveryJobOnce`), liveness included | 2 pumps, 4 jobs of priorities 0, 1, 2, 2 |
| `MCMemoryProvider_nil` | violation of `DeliversOnlyJobs`: a pump sends a nil job | 2 pumps, 3 jobs |
| `MCScrapeMate_safety` | `ClosedAfterLastSend`, `JobAccounted`, `StatsCountEachJobOnce`, `NoResultLost`, `ResultAfterChildren`, and the refinement of `Scraper` (`KeepsPromise`) | 2 workers, a seed with two children, failed-jobs channel, a StopScraping job, signals, a failing writer |
| `MCScrapemateApp_runs` | `AppTypeOK`, `ClosedAfterLastUse`, `NilMeansNothingLost`, `OrderDoesNotMatter`, `PageForEveryWorker`; `ReturnsWhenCancelled`, `ReturnsByItself`, `PushedJobsAreRun` | 8 options in any selection and order, 1 worker, 2 writers, an init job with StopScraping, a seed with a child, failing `Push`, failing writers, a deadline |
| `MCJobRun_shared` | `AttemptsBounded`, `CacheHoldsGoodResponses`, `ProcessSeesGoodResponses`, `DoJobEnds` | 2 calls, 1 key, 12 kinds of jobs: every policy, retries -1, 1, 5 and 10, maximum delays 50, 500, 2000 ms |
| `MCPageSlotPool_safety` | `TypeOK`, `TokensConserved`, `ActiveCountsLeases`, `FailedPoolHasNoBrowser`, `TokensKept`, and the refinement of `LeasePool` (`LeasesUpToCapacity`) | 2 browsers of 2 pages, 3 workers, one with a deadline, 1 orphan per browser, `close` at any time |
| `MCPageSlotPool_live` | `FetchReturns` | 1 browser of 2 pages, 3 workers, one with a deadline |
| `MCSessionSlots_safety` | `SlotsConserved`, `NothingLeftRunning`, `RecoveryCostBounded`, `SessionPreserved`, `OptionsUntilFault`, and the refinement of `LeasePool` (`LeasesSlotsToOne`) | 2 slots, 3 workers, 2 pages and 2 faults per slot, cancellation, `Close` |
| `MCSessionSlots_options` | violation of `JobsRunWithOptions` | 1 slot, 1 worker, 1 fault |
| `MCProxiedFetch_routes` | `TypeOK`, `RoundRobin`, `SentThroughChosenProxy`, `NoConnectionLeaked`, `HandlersReturn` | 3 proxies (one SOCKS5), 2 requests on a counter of 3 bits that wraps twice (`Modulus` 8, `MaxUses` 20); 4 browsers, 1 connection |
| `MCProxiedFetch_credentials` | violation of `SentThroughChosenProxy` | 2 proxies at one address with different users |
| `MCFileCache_register` | the refinement of `CacheRegister` (`CacheIsRegister`) | 3 calls, responses of 1 and of 2 blocks; open, read and write may fail, the process may end |

`TypeOK` of `MemoryProvider` and of `ScrapeMate` is checked as part of `AppTypeOK`.
Those of `JobRun`, `SessionSlots` and `FileCache` are proved (`TypeCorrect`), and no run
spends time on them.

Why the bounds are enough. Two pumps and four jobs give every pair of selects a
contended sender, and three jobs of lower priority behind a waiting one, more
than `OvertakingBounded` allows. Two workers let one run a parent while the other
runs its child, stops the scraper, or holds its result. The application run needs
only one worker, because what it adds is between the worker and the writers: of two
writers one can fail while the other receives, and both can. Its options contain a
bad value of a single field and a bad pair (`WithCache`), and three for the same field,
so that a later one overrides a bad one. In `JobRun` the calls
only meet at one cache key and the context, so two calls and one key show every
conflict, and the retry numbers lie below, at and above the limit of five. Three
workers are more than the pages of one browser, so that someone waits; two slots
let `close` be half-way. Two faults per slot let the recovery itself be struck:
the second may come at any step that the first one led to. Three proxies do not
divide the range of the counter, so that the wrap shows. Connections share nothing
but the server, so one shows every behaviour of a handler. A response of two blocks
can be found half written, and one of one block can be written over its beginning;
the third call can read while two write.

The bounds in guards: `MaxPages` of `SessionSlots` is the primary page and one extra
page, which are all that `closeExtraPages` tells apart; `MaxFaults` bounds what the
environment does; above `MaxOrphans` another abandoned page is not counted, and
nothing reads that counter; `MaxUses` bounds the requests of a rotator; `Startable`
is described with `ScrapemateApp`. The other bounds are the sizes of the constants.

### Fairness

* `MemoryProvider`: goroutines run; while the context lives each worker calls
  `Jobs` and keeps receiving.
* `ScrapemateApp` (`AppFairness`): goroutines run, timers fire, time passes, `DoJob`
  ends (`DoJobEnds` of `JobRun`, which in turn needs fetchers that return, see below). A worker's
  `<-ctx.Done()` case is strongly fair: Go's select chooses at random among ready
  cases, so a case that is ready again and again is not passed over for ever.
  There is no fairness of cancellations or of a writer's failure. A writer that has
  not failed receives (`RunWorker`), and its loop ends when the channel is closed.
* `JobRun`: every call takes its next step (`GoesOn`); the fetcher, the parser and the
  job's code return, the sleep ends, and no panic has to happen.
* `PageSlotPool` (`FairSpec`): the steps that this code takes by itself, and its timers:
  a job's deadline and the five seconds of `closeWithTimeout`. Waiting for a token is
  strongly fair, because the runtime queues blocked receivers in order. Nothing makes
  the browser or the job answer: `NewPage` (`jshttp.go:252`) is called with neither a
  context nor a limit, `BrowserActions` is the job's code, and `page.Close` of a wedged
  driver never completes. `FetchReturns` therefore excepts a worker that stays in
  `NewPage` or `BrowserActions` (`AwaitsBrowser`), and a job without a timeout that waits
  for tokens which are dropped or with such workers (`NoTokenComes`). What it shows is
  that a fetch hangs nowhere else.
* What `JobRun` and `ScrapemateApp` assume of fetchers, that they return, is thus more than
  the browser fetchers guarantee: with a driver that does not answer `NewPage`, `Start`
  waits for its worker for ever.
* `AuthProxy` (`ProxyFairness`): handlers and goroutines take the steps that depend on
  nobody else, timers included. Nothing makes a peer answer, send or close.
  `HandlersReturn` therefore excludes a handler that waits for the upstream's answer to
  CONNECT after its browser has gone: the code sets no deadline there.
* `FileCache` and `SessionSlots` have no liveness property and no fairness.

## 4. Findings

Three have a run whose counterexample shows them; the text in `PROJECT.json` quotes
what the repository says.

1. `memory.go:46` (`MCMemoryProvider_nil`): when the context is done at the second
   poll, the pump sends a nil job, and a worker that receives it crashes the process
   (`scrapemate.go:312`).
2. `session_slot.go:183` (`MCSessionSlots_options`): after one failed `NewPage` the
   slot's new context has no proxy, user agent or viewport, and its jobs are fetched
   directly, while `docs/proxies.md:4` says that each request is fetched via the proxy.
   `OptionsUntilFault` shows that only a fault of the driver leads there: no page that a
   job opens, closes or loses does.
3. `proxy.go:65` (`MCProxiedFetch_credentials`): the transport cache is keyed by an
   address without credentials, so of two proxies at one address only the first one's
   credentials are ever used. `SentThroughChosenProxyAlways` (section 5) shows that
   this is the only way in which a request misses its proxy.

The others are built into the models; the properties state what holds in spite of them.

* `scrapemate.go:586`: a worker blocks for ever on the results channel when its
  consumer has stopped, so `Start` does not always exit when the context is cancelled,
  as the test at `scrapemate_test.go:259` expects of it. `ReturnsWhenCancelled` and
  `ReturnsByItself` of `ScrapemateApp` hold up to the failure of the last writer.
* `scrapemate.go:269`: the inactivity watchdog ends the run while a job is being
  worked on, because only the end of a job counts as activity; the error it gives is
  documented as "returned when the system exits because of inactivity" (`errors.go:24`).
* `scrapemateapp.go:57`: several writers share one channel, so each result reaches
  only one of them, while `README.md:17` promises to "write results in multiple sinks".
  `NilMeansNothingLost` takes no side: it says that a result reaches some writer.
* `page_slot_pool.go:89`: a lease that is released after the job's deadline may lose
  its token for good, and the pool shrinks; `page_slot_pool_internal_test.go:60` expects
  a release to free a page. `FetchReturns` excepts jobs without a timeout once no
  token comes back; `TokensKept` is what holds in use: nothing but a deadline of the job
  that holds the token loses it.
* `local_proxy.go:116`: a proxy without credentials is an error in the Playwright mode,
  although the list in `docs/proxies.md:14` contains one. `Usable` models it.
* `session_slot.go:216` negates `IsClosed`. The design document (line 122 of
  `docs/superpowers/specs/2026-04-12-browser-session-pool-design.md`) wants a healthy
  page to be reused across jobs; the code throws it away and keeps a closed one. The
  test (`session_slot_internal_test.go:168`) uses a fake page and does not see it.
  `CheckPage` models the code; what holds in spite of it are `SessionPreserved` and
  `RecoveryCostBounded`.
* `session_slot.go:83` returns neither a page nor an error after it has recreated the
  browser, so that the fetch fails although the slot is well again (`RecreateBrowser`).
* `scrapemate.go:445` compares the delay with the maximum before doubling it, and the
  first 100 ms with nothing, so a pause may exceed `MaxRetryDelay`, while `job.go:97` says
  of the "sleep time between the retries" that if it "is more than MaxRetryDelay then
  it's capped to that". With `RetryJob`, five retries and a maximum of 500 ms the pauses
  are 100, 200, 400, 800 and 500 ms; with a maximum of 50 ms the first is 100 ms. `Retry`
  and `Wake` of `JobRun` make these steps; `slept[c] <= job[c].maxDelay`, the documented
  cap, is violated by every instance that has such a job. No run repeats this: the trace
  is that of a single job, and what holds, a pause of at most the first delay or twice
  the maximum, is proved (`PauseWithinTwiceAlways`).

Limits of the code that no document contradicts, and that the models contain: the
handler of a tunnel waits for the upstream's answer to CONNECT without a deadline
(`local_proxy.go:307`); a half-closed tunnel is closed as a whole (`local_proxy.go:388`);
`AuthProxy.Close` leaves tunnels alone, and nothing calls it; `NewProxyPool` leaves the
proxies it has started running when a later one fails; `getMate` leaves the fetcher open
when the cache cannot be opened (`scrapemateapp.go:108`).

## 5. The proofs

Each proof module states an inductive invariant, proves that the initial states satisfy
it and every step keeps it, with one step per action, and derives the properties. The
constants are arbitrary; what is assumed of them is in the named `ASSUME`s of the
modules, and TLC evaluates those in the runs.

### The memory provider

`MemoryProvider_proofs`, for any finite set of jobs and of pumps and any priorities:
`TypeCorrect`, `JobInOnePlaceAlways`, `OvertakingBoundedAlways`,
`LosesNothingWhileLiveAlways`, and `ProvidesOnlyPushedJobs`, the safety half of the
refinement of `JobProvider`. `LosesNothingWhileLive` says that no pusher gives up, no pump
ends and no nil job is sent before the context is done: finding 1 is a fault of shutdown.

`OvertakingBounded` is not inductive: a pump that has already looked at a job's channel
in its present round can still deliver a job of lower priority. `Past(j)` is the set of
these pumps, and `OvertakersCounted` bounds the overtakings that have happened plus those
that are still possible by the number of pumps. A pump leaves `Past(j)` with the job that
it takes, and cannot enter it while `j` is parked. `JobInOnePlace` needs `HandsEmpty`, by
which a pump holds a job only on its way from one channel to the other.

### The engine

`ScrapeMate_proofs`, for any tree of jobs, any number of workers and every combination of
options: `TypeCorrect`, `ClosedAfterLastSendAlways`, `JobAccountedAlways`,
`NoResultLostAlways`, `ResultAfterChildrenAlways`, `StaysWhileLiveAlways` (no goroutine
of the engine gives up before the context is done, and then there is a cause),
`QuietAfterReturnAlways` (what the caller reads after `Start` is final), and, for a
provider whose `Push` does not fail, `StatsCountEachJobOnceAlways`. `RunsOnProvider` shows
that a behaviour of the engine is a behaviour of the provider, which brings the provider's
invariant along. `KeepsPromiseAlways` is the refinement of `Scraper`.

What the invariant adds to it:

* `Accounted`: what the provider has delivered of a job is with a worker or finished
  with. `JobAccounted` follows from it and the provider's `JobInOnePlace`.
* `HasJob`: a worker has a job exactly where the code has one in a local variable.
* `ResultsCounted`: a result is received with the step that makes its job succeed, so
  `NoResultLost` holds in every state and not only when `Start` returns.
* `ChildrenFirst`, with `PushedUpTo`: the children before the worker's `todo` have been
  pushed. This is what `ResultAfterChildren` lacks.
* `Phases`: the workers and the watchdog start after the init jobs and have ended when
  `Start` returns, but for those that were never started. `QuietAfterReturn` is this and
  a look at each action.

`KeepsPromise` has one lemma per kind of abstract step. That a job which `TakeJob` hands
out is run by nobody and was not run before (`HeldIsNew`) is `Accounted` together with
the provider's `JobInOnePlace`: the pump that holds it is the one place where it is. That
its children have been pushed when it succeeds is `ChildrenFirst`; that a child is pushed
while its parent runs is `HasJob`.

The step lemma is proved for `Step`, which is the engine's `Next` with a wider
environment (`Outside`): the context may be cancelled for any cause and the consumer may
stop at any time. To the application that is all it does to the engine.

### One job

`JobRun_proofs`, for any number of concurrent calls, any keys and any jobs: `TypeCorrect`,
`AttemptsBoundedAlways`, `PauseWithinTwiceAlways`, `CacheHoldsGoodResponsesAlways`,
`ProcessSeesGoodResponsesAlways`. The invariant ties the number of fetches to the retry
counter at each control point (`AttemptsCounted`), bounds the delay before it becomes a
pause (`DelayBounded`), and says what a response has passed where it is about to be stored
(`FetchChecked`) and where it goes to the parser (`PassedOn`: it was found in the cache,
which holds good responses, or has come through `FetchFailed`).

`StepsBoundedAlways` is what can be proved of `DoJobEnds`. `StepsLeft(c)` is a variant: a
number from 0 to 27 (`StepsLeftBounded`) that each step of the call reduces, `Retry` by
the retry it uses up, and no step of another call changes. So `DoJob` cannot go on for
ever, whatever the responses are; that it does not stop in between is the fairness.

### The configuration

The first part of `ScrapemateApp_proofs`, for any set of options: `OrderDoesNotMatterAlways` and
`PageForEveryWorkerAlways`. That the order does not matter rests on `StaysValid`: the
`Config` is valid after each accepted option. Then an option is rejected only for what
it sets itself (`ApplyValid`), because each rule reads one field, or the two that
`WithCache` sets together (`OptionsAssumption`).

### The application

`ScrapemateApp_proofs`, for any writers, workers, jobs and options: `AppTypeCorrect`,
`ClosedAfterLastUseAlways`, `NilMeansNothingLostAlways`; `EngineInApp`, `AppKeepsPromise`,
`AppQuietAfterReturn` and `ConfigInApp` carry over the theorems about the parts. Every step of the application is a `Step` of the
engine (`AppIsStep`), so that `IInv` of the engine holds. `Stages` relates where `Start` is
to what is open and which goroutines have returned; `ErrorsKept` says that whoever returned
an error has left it in the group; `GotCounted` that each received result is with one
writer. `NilMeansNothingLost` takes all three and the engine's `ResultsCounted`.

### The proxies

`ProxiedFetch_proofs`, for any list of proxies, any width of the counter and any requests,
browsers and connections: `TypeCorrect`, `RoundRobinAlways`, `NoConnectionLeakedAlways`,
and, if no two proxies share an address, `SentThroughChosenProxyAlways`.

* Round robin. After `t` turns on `n` places each place had `k` turns and the first `q`
  one more, where `t = k * n + q` (`Turns`); `NextTurn` is the step. The counter keeps
  this within one run through its range. `UsesOK` splits the uses into those of the
  present run, for which `Turns` holds, and those of the earlier ones, in each of which
  one proxy may have had one turn more than another. The browsers need `Turns` only.
* `TransportsOK`: a cached transport is for the address it is found under.
* `HandlerOwns`: which connections are open and which goroutines run, by the point the
  handler has reached; a goroutine that has ended has closed the connection that it
  writes to. That the handler waits for both is what closes both.

### The page-slot pool

`PageSlotPool_proofs` shows for every set of slots and workers, every `MaxPages`
and every mix of jobs with and without a timeout:

| Theorem | Property |
|---|---|
| `TypeCorrect` | `TypeOK` |
| `TokensConservedAlways` | `TokensConserved` |
| `TokensKeptAlways` | `TokensKept`: in use only a job's own deadline loses a token |
| `ActiveCountsLeasesAlways` | `ActiveCountsLeases` |
| `PagesBoundedAlways` | `PagesBounded` |
| `FailedPoolHasNoBrowserAlways` | `FailedPoolHasNoBrowser` |
| `ImplementsLeasePool` | `LeasesUpToCapacity`: every step is a step of `LeasePool` or a stutter |

Assumptions: the sets of slots and workers are finite, `MaxPages` is at least one,
`NoSlot` is not a slot. These are the `ASSUME`s of the module; TLC evaluates them in
each run.

The argument. `PagesBounded` says nothing about tokens and is not inductive: that a
page may be opened is justified only by the token that was taken for it. The
inductive invariant `IInv` (`Invariance`) therefore adds

* `TokensConserved`: tokens in the channel, in hands and dropped add up to
  `MaxPages`. A step that receives or returns a token moves it from one term to
  another; `PagesBounded` follows, since the pages of a slot are among its holders
  and the other terms are natural numbers;
* `HeldOK`: a worker holds a slot exactly at the control points between `Acquire`
  and the end of `release`. Without it a step of one worker could change the
  holders of another's slot;
* `PhaseOK`: what a phase of the pool says about its browsers (a pool in
  construction has no leases, a ready one has built every slot, a failed one has
  closed every slot it made). It keeps the right-hand side of `TokensConserved`
  from changing under a lease;
* `EndsOK`: only jobs with a timeout expire, there are no leases before the pool is
  ready, and a slot is closed only by `close` or by a constructor that fails. The lease
  whose end is `DropToken` is then one of the cases of `TokensKept`;
* `ActiveCountsLeases`, with the set of leases being the holders between the
  increment and the decrement of `active`.

Each step lemma has one step per action. The counting steps rest on four lemmas
about how `Acquire`, `CountActive` and the return of a worker change the
cardinalities of `Holders` and `Leases`, proved from the library's facts on finite
sets.

### The session slots

`SessionSlots_proofs` shows for every set of slots and workers (finite or not) and every
`MaxPages` and `MaxFaults`:

| Theorem | Property |
|---|---|
| `TypeCorrect` | `TypeOK` |
| `SlotsConservedAlways` | `SlotsConserved` |
| `NothingLeftRunningAlways` | `NothingLeftRunning` |
| `RecoveryCostBoundedAlways` | `RecoveryCostBounded` |
| `SessionPreservedAlways` | `SessionPreserved` |
| `OptionsUntilFaultAlways` | `OptionsUntilFault` |
| `ImplementsLeasePool` | `LeasesSlotsToOne`, the refinement of `LeasePool` |

Assumptions: `NoSlot` is not a slot, `MaxPages` is at least one, `MaxFaults` is a
natural number.

The argument. `noPage <= 2 * faults` is not inductive: a slot whose browser has just
died has not lost the fetches yet that this fault will cost. `Debt(s)` is the number
of fetches it is bound to lose without another fault, from the state of its browser
and the point its holder has reached: two when the browser died between
`recreatePage` and the second `primaryPage` (this fetch, and the next one, which
recreates the browser), one when it is dead otherwise or about to be recreated, none
when it runs. `SlotOK` bounds `noPage + Debt`; a fault pays for at most two, and every
fetch without a page reduces the debt or follows a fault. `Owed(s)` does the same for
the contexts. The debts depend on where *the* holder of the slot is, which needs
`SlotsConserved` (one holder at most) and `RuntimeOK` (a running browser has an open
context, except after a failed `recreateContext`). `HolderStep` proves it for the steps
of the holder, one case per action; `Untouched` and `OtherSlots` are the frame.
`NothingLeftRunning` follows from the conservation of slots: when the pool is empty
and nobody holds a slot, all of them have been closed. `OptionsUntilFault` combines
`SessionPreserved` with `FirstContext`: without a fault there is at most one context, and
the first one is made by `newBrowser`, with its options.

### The file cache

`FileCache_proofs`, for any number of calls and any responses of any sizes: `TypeCorrect`
and `ImplementsRegister`, the refinement `CacheIsRegister`. Assumptions: a response has at
least one block, and `Miss`, `Failed`, `Hole` and `NoFile` are none of the values beside which
they stand.

There is nothing to say about the order in which overlapping calls write, and the
invariant does not: `Contents` says that a block of the file is at the offset it has in
its response, and that this response may be found now. What decodes has the first block
of its response (`DecodeIs`), so a `Get` can only return a response that may be found,
and no mixture is one that was not stored. That a `Get` after an undisturbed `Set` does not
miss needs the other parts: a `Set` that no other has met is alone in the file and has
written a prefix of its response (`Alone`), so that the file is whole when it ends
(`Settled`) and stays so until the next `Set`; a `Get` that begins then reads a prefix of
this file (`Reading`). A `Get` that the operating system refuses returns `Failed` and not
`Miss`; the abstract cache allows it at any time. `Resting`, `Fresh` and `Writing` say what the code's local
variables hold.

### Only model-checked

Liveness, because fairness and `ENABLED` are beyond the prover: `ReturnsWhenCancelled`,
`ReturnsByItself`, `PushedJobsAreRun`, `DoJobEnds`, `FetchReturns`, `HandlersReturn`, and
the liveness half of `ProvidesEveryJobOnce`. Every safety property of a passing run is
proved; `StatsCountEachJobOnce` and `SentThroughChosenProxy` under the hypotheses named
above, which the instances of their runs satisfy.

`PagesBounded` of `PageSlotPool`, `StepsBounded` and `PauseWithinTwice` of `JobRun`,
`StaysWhileLive` and `QuietAfterReturn` of `ScrapeMate` and `LosesNothingWhileLive` of
`MemoryProvider` are only proved: no run repeats them.

## 6. Not modelled

* `adapters/browsers/playwright/page.go`: wrappers of the driver. The list of network
  hooks is kept under a mutex; whether an event that is under way still reaches a hook
  that was removed is decided in the driver's dispatch, which is not in the repository.
* `adapters/cache/leveldbcache`: each operation is one call to a library that makes it
  atomic and durable. `CacheRegister` is what the engine expects of it too.
* `adapters/fetchers/nethttp`, `stealth`, `adapters/parsers`: translation of requests and
  responses without state; what the engine sees of them is the response of `JobRun`.
* The encoding of the writers (`adapters/writers`); their loops and errors are those of the
  writers in `ScrapemateApp`. The CSV writer's panic on a nil result is not modelled.
* What JSON does to a response that goes through a cache, the page's default timeout,
  which outlives the job that set it, headers, hosts and bytes that the local proxy copies.
* Logging, the formatting of statistics, generated mocks, examples and commands.

What would come next: a liveness property for `getSlot` of the session slots, which needs
bounds on `NewPage` and `closeExtraPages` that the code does not set.
