# Formal verification of api-fucker

This directory models the concurrent core of the api-fucker gateway in TLA+,
checks it with TLC on small instances and proves its most important invariants
with TLAPS for all instances. Paths and line numbers refer to the repository
this directory belongs to.

- `tlc -config <run>.cfg <MC module>` checks a run (`PROJECT.json` lists them).
- `tlapm <X>Proofs.tla` checks the proofs about module `X`.

## 1. The system

One server process forwards OpenAI-style requests to upstreams through a pool
of API keys and proxies, keeps its state in memory, and has a single goroutine
write it to a bbolt database. A second program, the VPS proxy client, reports
to it every ten seconds.

| Component | State | Operations | Shared with | What makes it correct |
| --- | --- | --- | --- | --- |
| Global admission queue (`gateway.go:156-389`) | `globalRunning`, `globalQueued`, `queueNotify` under `queueMu`; atomic `queuePeak` | `acquireGlobalSlot`, `releaseGlobalSlot`, `consumeQueuePeak` | the configuration (snapshot per request), metrics | counters exact, limits kept while edited, no missed wake-up, no idle slot |
| Key selection (`gateway.go:427-608`, `runtime.go:151-164`) | `lastKeyID`, `inflight`, `activeRequests`, `keyMinute`, `lastMinuteSweep` under `Gateway.mu` | `acquireKey`, `releaseSelected`, `KeyMinuteUsage` | keys and configuration of the store, proxies | strict rotation, per-key concurrency and requests per minute kept, counters exact |
| Manual proxy rotation (`manual_proxy.go`, `proxy_config.go`) | `manualProxyState` under `Gateway.mu` | `manualProxyForKeyLocked` | configuration snapshots, out of order | follows the newest configuration, rotation even |
| VPS proxy pool (`gateway.go:610-635`, `store.go:825-955`) | `proxyRoundRobin`, `proxyInflight`; nodes in the store | `selectProxyNodeLocked`, heartbeats, admin edits | store, proxy clients | counts exact, capacity kept, settings of the administrator stay, nodes come back, dead ones are left alone |
| Launch pacer (`gateway.go:391-425`) | `nextLaunch` under `launchMu` | `waitForLaunchSlot` | configuration | launches spaced, nobody waits without need or for ever |
| Forwarding (`gateway.go:637-880`, `1055-1171`) | per request | `forward`, `doBuffered`, `streamResponse` | upstream, client | at most the allowed attempts, one outcome reported |
| Key health (`store.go:437-675`, `gateway.go:265-293`) | fields of `Key` | `RecordSuccess/Failure/RateLimit/Non429`, pause, restore, edit | selection | cooldown not extended or shortened, pauses independent |
| HTTP client cache (`gateway.go:1055-1093`) | `clients` under `Gateway.mu` | `clientForProxy` | all requests | one client for each proxy |
| Runtime state and persistence (`runtime.go`, `store.go`) | maps of records with dirty revisions under `mu`; database | all changes, `Flush`, `CloseContext`, `persistenceLoop`, `loadRuntime` | everything | what was reported saved is durable, no change forgotten, nobody waits for ever |
| Diagnostic captures (`captures.go`, `store.go:792-823`) | pending and in-flight queue, budget, sequences, generations; database | `PrepareCapture`, `enqueueCapture`, `persistCaptures`, `GetCapture` | persistence loop, key life cycle | budget exact, losses counted, order kept, lives of a key kept apart |
| Metrics (`store.go:679-790`, chart in `admin.go`) | minute buckets | `RecordMetric`, `ListMetrics`, pruning | persistence | a chart shows every request of its range once, whatever was pruned, saved or reloaded |
| Key import (`store.go:508-556`) | none of its own | `ImportKeys` | `CreateKey` | no duplicate and no loss, although saving may fail |
| Admin API and sessions (`admin.go`) | none | one handler per route | store, gateway | answers tell what was saved |
| Key test stream (`admin.go:873-924`) | a channel per test | `testKeyProgress`, `TestKeyWithProgress` | gateway, dialers, the client | the whole stream in order, an answer counts, an end when the client leaves |
| Server main (`cmd/server/main.go`) | none | start, IP rules, shutdown | all | state saved within five seconds |
| VPS proxy client (`cmd/proxy-client/main.go`) | counters | relay, report | heartbeats | reports itself truthfully |

A generation request runs through `ServeHTTP`: it copies the configuration,
takes a slot of the global queue, waits for its launch time, copies the
configuration again, takes a key and a proxy under `Gateway.mu`, forwards,
reports the outcome to the store (memory only), gives key and slot back, and
then encodes and queues its capture and its metric sample. Manual changes go
the other way: the admin handler changes memory under the store's mutex and
calls `Flush`, which waits for the persistence loop to confirm.

Hard are: requests that work on different configuration snapshots; waiters
that race newcomers and their own timeouts; keys deleted and created again with
the same id under running requests; records that change while a transaction
with their former content runs; a disk that fails; crashes at any point;
captures that are encoded, queued and written after newer ones; heartbeats that are
late or lost; timers that are late; one deadline for the whole shutdown. `PROJECT.json`
lists each hazard at its line with the properties that cover it.

## 2. Modules

| Module | What it is |
| --- | --- |
| `GlobalQueue` | the global admission queue |
| `AdmissionRoom` | its abstract specification, without counters and channels |
| `KeyRotation`, `KeyRotationProofs` | selection and release of keys, and theorems |
| `KeyHealth`, `KeyHealthProofs` | 429 cooldown, pauses and restore of keys, and theorems |
| `Generation`, `GenerationProofs` | forwarding of requests with a key and the outcome that is recorded, over an instance of `KeyHealth`; theorems |
| `ManualProxy` | rotation of the manual proxy list |
| `ProxyLists` | lists of manual proxies and their parsing, without state |
| `ProxyPool` | choice of a VPS proxy node, for any lists of nodes |
| `ProxyNodes` | extends it with the registry, the nodes and the administrator |
| `ProxyProofs` | theorems about both |
| `LaunchPacer` | spacing of launches |
| `ClientCache` | the cache of HTTP clients |
| `Shutdown` | the end of the process |
| `TestProgress` | the stream of a key test |
| `Parts` | the admission queue and the five modules `ManualProxy`, `LaunchPacer`, `ClientCache`, `Shutdown` and `TestProgress`, each for itself, in one specification |
| `PartsProofs` | theorems about these six modules, and that `Parts` consists of them |
| `Persistence` | runtime state and persistence loop |
| `DurableStore` | its abstract specification: what the store promises of metadata |
| `PersistenceProofs` | theorems about `Persistence` |
| `CaptureStore`, `CaptureStoreProofs` | captures, with the key life cycle and the writer's metadata transaction, and theorems |
| `ImportKeys` | import of keys |
| `Metrics` | minute metrics and their chart |
| `StoreParts` | `CaptureStore`, `ImportKeys` and `Metrics`, each for itself, in one specification |
| `StorePartsProofs` | theorems about `ImportKeys` and `Metrics`, and that `StoreParts` consists of these parts |
| `Places` | the places of numbers in order of size, which the choice of a node, the lines of an import and the points of a chart have in common; without state |
| other `MC_*` | instances for TLC: small sets, configurations, symmetry |

Operators named `X_Y` beside an operator `X` (`Release_Silent`, `Release`) are
mutants: plausible bugs of the code that the properties were tried against.
The specification does not use them.

### GlobalQueue

`stage[r]` is where the goroutine of request `r` is in `ServeHTTP`, `limits[r]`
the configuration it copied. Each action is one critical section of `queueMu`:
`PassUnlimited`, `TakeSlot`, `JoinQueue`, `RefuseFull` are the ways through the
head of `acquireGlobalSlot` (295-317), `WakeAdmitted`, `WakeAgain`, `GiveUp` the
cases of its loop (320-345), `Release` is `releaseGlobalSlot` and
`consumeQueuePeak` the metric sample ServeHTTP takes before it. The notify
channel is the set `notified` of waiters whose channel has been closed: a waiter
reads the channel under the mutex, so a close at any time after reaches it. A
cancelled client and a fired timer are the same action; the launch wait, the
key and the upstream call are no more than time between admission and release.
`SaveConfig` lets the administrator change `GlobalMaxConcurrency` (0 switches
the control off) and `MaxQueueSize` at any time.

`AdmissionRoom` is a room with seats: its visitors have a place, its guards
count visitors. `RoomSpec` says that `GlobalQueue` implements it under the
mapping from stages to places, which is to say that the two integers and the
channel never disagree with the set of requests they stand for.

### KeyRotation

A key id is its rank. `ReadConfig` is the copy of the configuration before
`Gateway.mu` (530); then one section of the mutex is `NoKey`, `NoRoute` (key
chosen, but no upstream, no node or a malformed list) or `Admit`; the three
share sweep and pruning. `Chosen` is `SelectKeyAfter`. Time stamps are ages up
to `Window`, so time needs no bound. The health of a key is one bit that
`SwitchKey` flips at any time; `KeyHealth` says when the code flips it. `passed` and
`admitted` are histories for the properties. Keys are deleted and
created with the same id at any time, also while requests hold them.

### KeyHealth

`health[k]` has the fields of `Key` that decide about its use. `RateLimitedUntil`
is the time that is left: `Never` is the zero time, 0 a deadline that has passed
(the code tells the two apart, `store.go:667`), and `Tick` is the clock. `RecordSuccess`,
`RecordFailure`, `RecordRateLimit` and `RecordNon429` are the critical sections of
those functions (`store.go:598-675`), all through `mutateKey`, which drops the outcome
for a key that is gone. The functions read the configuration before they take the
mutex, so `RecordFailure` and `RecordRateLimit` take any configuration as a parameter.
`UpdateKey` writes the three flags an edit form sends, whatever they are by then;
`PauseKeys`, `Restore`, `DeleteKeys` and `CreateKey` are the other manual changes.
`row` is a history: the outcomes 429 in a row as the repository's README describes
them, counted without the code's `Consecutive429`.

### Generation

`stage[r]` says where the request is from the moment it has a key: `send`, `delay`
and `body` are the request to the upstream, the wait before a retry and the relay of
the response in `forward` and `doBuffered`; `done` has a result, `judged` has read the
configuration for it, `published` has recorded it (`recordUpstreamResult`), and
`Release` is `releaseSelected`. `gone` is the set of cancelled contexts. `Canceled`
is every place that watches the context; `WriteFails` is the write of a chunk that
fails first. The `kind` of a request says who made it: generations of clients
(`stream`, `buffered`) and their lists of models are routed and counted against the key;
the administrator's tests and `fetch` are not. `Health` is `KeyHealth` with the same
variables, so that outcomes are recorded by the definitions checked there.

### ManualProxy

`configs` is the sequence of configurations saved; a configuration's revision is
its index. `GlobalConfig` copies the newest, `manualProxyForKeyLocked` selects
with the copy, however old it is by then, and `SelectOther` stands for requests
that use a node or the key's own proxy. `Activated(n)` is the block that follows
a newer revision (32-47), field by field; `SelectFixed` and `SelectNext` are the
returns. `Parse`, in `ProxyLists`, is `ParseDefaultProxyURLs` on sequences of lines,
with blank and malformed ones. `turns` is a history of the uses of each proxy.

### ProxyPool and ProxyNodes

`ListProxyNodes` is what `acquireKey` does before the mutex: it copies configuration and
nodes; `SelectNext`, `SelectBound` and `NoAvailableProxy` are `selectProxyNodeLocked`
with that copy, however old, and `SelectOther` is a request that finds no key or does not
use the pool. Of a listed node the choice reads its *room*, the capacity less the
connections reported, so in `ProxyPool` a list is any function to rooms. The hash of
`key_binding` may point to any candidate. `turns` is a history of the choices since the
candidates last changed.

`ProxyNodes` says which lists there are. A record has the settings, whether there is an
address, the connections reported and the age of the report. `sendReport` is the loop of
the proxy client; a report waits in `sent` until it is processed
(`UpsertProxyNodeReport`), out of order and however late, or lost (`LoseReport`), which stands
for its being refused as well. A report brings the node's name and address, or leaves it
without one, and replaces what the administrator has set; only `Enabled` and
`MaxConcurrency` are his (`SettingsKept`). `UpdateProxyNode` and
`DeleteProxyNode` are followed by the result of their `Flush`; `persistMetadata` is any
other transaction; `Restart` loads the records and forgets what reports have said of the
present. `promised` is a history of the settings reported saved. A node's own count and the
gateway's overlap, as in the code: a request that is counted by the gateway is counted
again once the node has reported its connection. So the code may leave room unused, and
`NodeRoomRespected` is about the list's room, not about the node's total.

### LaunchPacer

Time is relative: `ahead` is `nextLaunch - now`, `slot[r]` the booked instant less now, and
`Tick` moves both, so that time needs no bound. `LaunchNow` and `Book` are the two ways
through the critical section, `Launch` the timer (any time after its instant) and `Cancel`
the client that leaves. `Arrive` copies the interval, which `SaveGlobalConfig` changes.

### ClientCache, Shutdown, TestProgress

`ClientCache`: `Find` and `Miss` are the first critical section of `clientForProxy`,
`newClient` is the work without the mutex, `Store` the second section with its second
look. `given` is a history of who got what.

`Shutdown`: `main` is where `main()` is, `server` each `http.Server`, `handler` each
request with what it does to the store. `Signal` and `ServerFails` begin; `BeginShutdown`,
`Drained` and `CutOff` are `Shutdown` and `Close` of each server, `CloseContext` and `Exit`
the store. `left` is what remains of the one context. Handlers of a server that was cut
off run on, as those of `net/http` do.

`TestProgress`: the goroutine of the test (`emitProgress`, `Callback`, `Reject` to `Close`).
Its call to the upstream runs under the request's context: it ends with `Answer` (a response,
or an error of its own), which may never come, or, once the context is cancelled, with
`GiveUp`. `recordUpstreamResult` counts the one and not the other (`gateway.go:277`). Then
there are dialers that report through the same callback at any time later (`Dialer`), the handler
(`Encode`, `Return`), and the client. Two things the code may do are in the model and have
no property, as nothing promises that they do not happen: the last event does not watch
the client, so the goroutine may wait for ever in `finishing` when he has left
(`admin.go:905`); and a dialer that reports after `close(events)` may pick the send in its
`select`, which panics (`crashed`, `admin.go:895`).

### Persistence

A record is `[rev, live]`: the revision of its last change and whether it
exists. `Change` is the critical section shared by all operations: it gives out
a revision, stores the record and marks it in `dirty`. Manual operations
(`SaveGlobalConfig`, `CreateKey`, `DeleteKeys`, `changeKeys` for edits, pauses and
restores, `UpdateProxyNode`, `DeleteProxyNode`) go on to `Flush`, automatic ones
(`mutateKey` for the outcomes of requests, `UpsertProxyNodeReport`, `RecordMetric`)
do not. `writer` is the position of `persistenceLoop`: the non-blocking look for a
flush (`loop`), the `select`, the three parts of `persistMetadata` (`Snapshot`
under the mutex, `Commit` or `UpdateFails` without it, `Settle` under it), the
flush served within a tick (`serve`), the captures, the drain of the shutdown. A
client's call is `flush` (offering its request), `sent`, answered (`nil`, `error`)
or returned. `Close` and `FlushClosed` are the stop and done channels; `Restart` is
a crash at any point, or an exit, followed by `loadRuntime`.

`DurableStore` states the promise without a writer: stored contents follow the
current ones and never go back, "saved" is answered only when all that was
current at the call is stored, a crash returns to what is stored.

### CaptureStore

A capture is its sequence, the generation of its key and its size. `PrepareCapture`
and `enqueueCapture` are the two halves of a report, with anything between them.
`MakesRoom`, `Insert` and `DropAll` are the overflow loop; `TakeBatch`,
`WriteBatch`/`WriteFails` and `FinishBatch` the three parts of `persistCaptures`;
`GetCapture` and `ReadDisk` its reader, before and after the mutex. The metadata
half of the writer is there with the marks of keys and capture deletions, because
its transaction deletes captures.

### ImportKeys

Keys are their API keys; `records[k]` is the number of records with API key `k`. An import is
a sequence of lines: `Skip`, `CreateKey` (memory) followed by `FlushSucceeds` or
`FlushFails`, or `CreateRefused`. Several imports, deletions and `Close` interleave. A
record that was made but not saved stays, while its line counts as skipped; `unsaved`
counts them.

### Metrics

Time is in half minutes. `RecordMetric` counts a sample in the minute its request began,
`Pruned` is `pruneMetricsLocked` with its own clock, `BeginSave` and `EndSave` or
`SaveFails` are the writer, `Restart` loads. `ListMetrics` and `appendLivePoint` are the
chart. `taken` is a history: what has been counted, without any pruning, in memory, in the
writer's copy and on disk.

### Parts and StoreParts

These put parts that share nothing next to each other: the initial state chooses the
`subject`, and only its variables ever change. The properties are those of the modules,
guarded by the subject where the state of a part that stands still would not do. The run
explores the sum of the state spaces, not the product. Both are written for any sets and
bounds, which `MC_Parts` and `MC_StoreParts` give values; `PartsAreParts` and
`StorePartsAreParts` prove that a behaviour of them is one of every part, so that the results
about each hold of them together.

## 3. What is checked

| Run | Instance | Shows |
| --- | --- | --- |
| `Parts_each` | *queue:* 3 requests, 4 configurations (1 and 2 slots, off, no waiting room) | exact counters, limits, no lost wake-up (`AdmissionSafe`), refinement (`RoomSpec`), no idle slot |
| | *manual:* 4 lists (three proxies; a duplicate and a blank line; empty; malformed), 2 modes, 2 requests, 3 configurations | one configuration in force and even rotation (`RotationSafe`), never back (`NoRollback`) |
| | *pacer:* 3 requests, intervals of up to 2 ticks | spacing (`PaceKept`), waits end |
| | *shutdown:* 2 requests to each server, 1 tick | nothing unsaved behind a clean exit, requests drained (`ShutdownSafe`), an end |
| | *clients:* 3 requests, 2 proxies | one client for each proxy |
| | *test:* 3 events and a last one, a channel for 2, 2 reports of dialers | the whole stream in order (`StreamWhole`); an answer in hand counts, only a leaver's test is given up, the stream ends after the answer or when the client leaves (`TestEnds`) |
| `ProxyNodes_routing` | *pool:* 2 nodes, 3 requests, rooms of up to 2, any lists | counts, room, rotation (`PoolSafe`) |
| | *routing:* 1 node, 1 request that chooses by its key, 1 connection | settings kept, nodes come back, those that are gone are left alone |
| `GlobalQueue_peak` | 3 requests | finding 1 |
| `KeyRotation_selection` | 2 keys, 2 requests, capacities 1 and 2, window of 2 ticks, limits 1 and 2 | strict rotation, exact counters (`CountersTrue`), capacity, sliding window |
| `KeyHealth_outcomes` | 2 keys, 2 configurations | cooldown neither extended nor cut short, begins exactly on time; pauses independent |
| `Generation_outcomes` | 1 key, 2 requests, 2 attempts, three kinds | outcomes recorded before the key is free, abandoned requests end |
| `Generation_cancel` | the same | finding 3 |
| `Persistence_safety` | configuration, key, metric bucket, 2 clients, 3 changes | durability, marks, shutdown (`NothingLost`), refinement |
| `Persistence_liveness` | configuration, node, 2 clients, 2 changes | calls return, changes are saved |
| `StoreParts_each` | *captures:* 2 keys, 1 request, sizes 1 to 3, queue of 2 records / 3 bytes, batches of 2 | budget and deletions (`QueueSafe`), losses counted |
| | *import:* 2 imports of texts with repeated, blank and empty lines | no key too many, none too few |
| | *metrics:* window of 2 minutes, 4 minutes in all, 2 samples | any chart is complete |
| `CaptureStore_lives` | 1 key, 2 requests, 6 revisions | lives apart (`CapturesSafe`), order, shutdown |
| `CaptureStore_loss` | 1 key, 1 request | finding 2 |

Related invariants of a module are checked and, where there are proofs, proved as one
conjunction (named in brackets) of named parts, each with its own comment.

### Bounds, and why they are enough

- *GlobalQueue* has no bound but the number of requests. Three are a holder, a
  waiter and a third that is a newcomer, a second waiter or a second holder; the
  proofs cover any number.
- *KeyRotation*: `MaxHits`, the bound on the hits remembered per key, equals the largest
  limit, so a request under a limit is refused by the limit and never by the bound. Two
  requests are needed to hold snapshots of different limits; a window of two ticks
  lets some hits of a key expire and others not. Two keys show that the turn passes
  on; for any number of keys all four properties are proved.
- *KeyHealth*: consecutive errors are counted up to `MaxErrors` 2, the larger threshold of
  the instance; beyond it every comparison has the same result. The two configurations
  differ in all their fields. The proofs cover any.
- *Generation*: the code makes three attempts; two have a first, a retry and a last one. One
  key with room for one request, and two requests: a client's beside the administrator's
  test of the same key, or a client's after a client's while the first is still recording.
  The kinds `buffered` (`stream` without a failing write) and `fetch` (`models` without
  a place) are left out of the run, and the environment is without manual pauses and
  edits, which `KeyHealth_outcomes` has.
- *ManualProxy*: `MaxRevision` 3 lets a request hold a configuration from which
  list and mode have changed and changed back (ABA). The proofs cover any number.
- *ProxyPool*: three requests are two with lists of different age and one that chooses by
  key between them; two nodes make a rotation. `Cycle` stands for the range of the counter,
  of which only remainders matter. The proofs cover any number of nodes and any counter.
- *ProxyNodes*: what the registry does to a node does not depend on other nodes, so one
  suffices, with the heartbeat once in a unit of time or missing. Several requests and the
  rotation are in the pool of the same run, for arbitrary lists; `RoutingUsesPool` proves that
  this covers them.
- *LaunchPacer*: three requests are one with a former interval, a waiter and one that
  leaves; intervals 0, 1 and 2 are off, and two that differ. The proofs cover any.
- *Shutdown*: two requests to each server, one that is answered and one that is not; one tick
  tells before the deadline from after. *ClientCache*: three requests miss at once.
  `MaxClients` 4 lets every request build one and one of them a second after a failure.
  The proofs cover any.
- *TestProgress*: the channel (32 in the code) is smaller than the number of events, so
  that a slow client fills it. The proof covers any channel and number of events.
- *ImportKeys*: two texts over two keys in different order, so that each import meets keys
  that the other has made, is making or has lost. *Metrics*: the time spans the window
  twice, in steps of half a minute; two samples meet in one bucket or lie on both sides
  of its end. The proofs cover any texts, any window and any number of samples.
- *Persistence*: `MaxRevision` counts changes in the life of the database, over all
  restarts. Two suffice for a change behind a snapshot, three for two clients and
  an automatic change. The transaction may fail and the process crash any number
  of times. The proofs cover any records, clients and revisions.
- *CaptureStore*: five revisions are create, delete, create and two captures; six
  allow a third capture. The budget is small enough that two captures overflow it
  by number and by bytes, and that a capture in flight alone can. The proofs cover any.

Symmetry is used for requests and clients (and for keys where no order
matters), in runs without liveness properties.

### Fairness

Only where a run needs it, and only of the program's own goroutines:

- `GlobalQueue`: a woken waiter gets `queueMu` and looks at the counter
  (`WakeFairness`). Goroutines are scheduled, and Go's mutex does not starve.
  Nothing is assumed of timers, clients or the upstream.
- `ProxyNodes`: time passes, a goroutine that holds a list gets the mutex, a running node
  goes on reporting, and, if it reports for ever, some reports get through (strong
  fairness: the network may lose any number, but not all) and are accepted (a node with a
  malformed `PUBLIC_PROXY_URL` is refused each time, `store.go:892`, and never comes back).
  Nothing is assumed of how long requests, nodes or the administrator take.
- `LaunchPacer`: time passes, and a goroutine whose timer has gone off goes on.
- `Shutdown`: time passes and `main` goes on when it can; nothing of handlers or the disk.
- `TestProgress`: goroutines run, the call sees that its context is cancelled, and the server
  finds out that a client has left. A client who neither reads nor leaves may hold up his own
  test. Nothing is assumed of the upstream: `httpClientForProxy` sets no timeout for an answer
  (`gateway.go:1205`), so a client who stays may wait for one for ever, and `StreamEnds` promises
  an end only to one who leaves, or after the call is over.
- `Persistence`: the loop keeps working (transactions end, the ticker ticks); an
  offered flush request is accepted if the loop comes to a receive again and again
  (senders on a Go channel are served in order, hence strong fairness); an answered
  client returns. That a transaction succeeds is assumed only as the hypothesis
  `DiskRecovers` of `SavedEventually`.
- `Generation`: a cancelled context is seen by whoever waits for it, the timer of a retry
  fires, and a request that has its result records it and gives its key back. Nothing is
  assumed of the upstream, which may never answer, or of the client.
- `CaptureStore`: the loop keeps working, and `select` does not pass over the closed
  stop channel for ever (it chooses at random).

### Findings

1. `consumeQueuePeak` promises "the highest queue depth seen since the previous call"
   (`gateway.go:385`), but starts over from 0 while requests still wait; only a new
   waiter raises it again. A metric sample can therefore report an empty queue that
   was never empty.
2. The last capture of a new key may be deleted again. `CreateKey` marks captures of
   its id for deletion. If the key is created, used and its capture queued after the
   snapshot of a tick's metadata transaction and before the tick's capture batch, the
   batch stores the capture first, and the next metadata transaction carries out the
   deletion. `GetCapture` finds nothing and `droppedCaptures` does not count it.
3. Cancellation "does not change" the 429 sequence (the repository's README, "HTTP 429
   Cooldown") and must not change the error state (`gateway_test.go:1387`). But if the
   write of a streamed chunk to a client that has left fails before the read is
   cancelled, `streamResponse` returns the write's error (`gateway.go:1158`), which is not
   recognised as a cancellation: the key is charged with a failure, its 429 sequence
   starts over, and with auto-pause on enough such clients pause it.

## 4. What is proved

Each proof module first shows an inductive invariant, then the properties from it.

| Theorem | States | Depends on |
| --- | --- | --- |
| `PartsProofs!SlotsAccounted` | `SlotAccounting` | finitely many requests |
| `PartsProofs!LimitsRespected`, `QueueLimitsRespected` | `LimitRespected`, `QueueLimitRespected` | the same |
| `PartsProofs!NoWakeupLost` | `NoLostWakeup` | the same |
| `PartsProofs!AdmissionIsSafe` | `AdmissionSafe`, the four above together | the same |
| `PartsProofs!ImplementsRoom` | `RoomSpec` | the same |
| `KeyRotationProofs!RotationIsStrict` | `StrictRotation` | finitely many requests, at least one key id |
| `KeyRotationProofs!CountersExact`, `CapacityIsRespected` | `InflightExact`, `CapacityRespected` | the same |
| `KeyRotationProofs!CountersAreTrue`, `RateIsRespected` | `CountersTrue`, `RateRespected` | the same; the window is a positive number |
| `KeyHealthProofs!CooldownIsKept`, `CooldownIsExact`, `OutcomesOnlyEverPause` | `CooldownKept`, `CooldownExact`, `OutcomesOnlyPause` | saved configurations have positive thresholds and durations |
| `GenerationProofs!OutcomesPublishedInTime` | `OutcomesWithinCapacity` | finitely many requests, a positive capacity |
| `GenerationProofs!HealthIsKept` | `Spec => Health!Spec`: what requests do to the health of keys is a behaviour of `KeyHealth` | the same, with the settings of `KeyHealth` (`HealthAssumption`) and at least one key |
| `PersistenceProofs!AcknowledgedIsDurable` | `Acknowledged` | metric buckets are no other records, `Nobody` is no client |
| `PersistenceProofs!NoMarkLost` | `CleanIsSaved` | the same |
| `PersistenceProofs!CloseIsComplete` | `CloseSaves` | the same |
| `PersistenceProofs!NothingIsLost` | `NothingLost`, the three with the types | the same |
| `PersistenceProofs!ImplementsPromise` | `PromiseSpec` | the same |
| `CaptureStoreProofs!CapturesAreSafe` | `CapturesSafe` | finitely many keys; sizes and limits are numbers, and a batch has room for any capture |
| `CaptureStoreProofs!NewestCaptureStays` | `NewestStays` | the same |
| `CaptureStoreProofs!QueueIsSafe` | `QueueSafe` | the same |
| `CaptureStoreProofs!LossesAreCounted` | `LossesCounted` | the same |
| `StorePartsProofs!ImportsAreFaithful` | `ImportFaithful` of `ImportKeys` | texts are sequences of API keys, blank and empty lines |
| `StorePartsProofs!ChartsAreComplete` | `ChartComplete` of `Metrics` | window, end of time and bounds are numbers |
| `StorePartsProofs!PartsKeepCaptures` | `QueueSafe`, `CapturesSafe` and `LossesCounted` of `StoreParts` | those of the captures |
| `StorePartsProofs!StorePartsAreParts` | a behaviour of `StoreParts` is one of each of its parts | the same as the parts |
| `PartsProofs!RotationIsSafe`, `NewestConfigWins` | `RotationSafe`, `NoRollback` of `ManualProxy` | lists are sequences of proxies, blank and malformed lines |
| `PartsProofs!PaceIsKept` | `PaceKept` of `LaunchPacer` | intervals are natural numbers |
| `PartsProofs!EndIsSafe` | `ShutdownSafe` of `Shutdown` | the deadline is a number |
| `PartsProofs!OneClientEach` | `OneClient` of `ClientCache` | `MaxClients` is a number |
| `PartsProofs!StreamIsWhole`, `LeaversGiveUp` | `StreamWhole` of `TestProgress`, and the invariant in `TestEnds` | the bounds are numbers |
| `PartsProofs!PartsAreParts` | a behaviour of `Parts` is one of each of its parts | the same as the parts |
| `ProxyProofs!CountExact`, `RoomKept`, `RotationIsEven` | `NodeInflightExact`, `NodeRoomRespected`, `PoolRotates` of `PoolSpec` | finitely many requests, numbered nodes |
| `ProxyProofs!PoolIsSafe` | `PoolSafe`, the three together | the same |
| `ProxyProofs!SettingsStayInForce`, `RegistryIsSafe` | `SettingsKept`, `RegistrySafe` | the same; capacities within the bound |
| `ProxyProofs!RoutingUsesPool` | `Spec => PoolSpec`: the routing is a behaviour of the pool | the same |
| `TypeCorrect` of `PartsProofs` (the admission queue), `KeyHealthProofs`, `GenerationProofs`, `PersistenceProofs`; `CaptureStoreProofs!CaptureTypes`; `ProxyProofs!PoolTyped`, `NodesTyped`; `PartsProofs!PartsTyped`; `StorePartsProofs!StorePartsTyped` | the type invariants | |

- *GlobalQueue.* The invariant is the type invariant with the exact counters, the
  limits and the wake-up property. `NoLostWakeup` alone is not inductive: a release
  frees a slot for everyone, and that all waiters are notified at that moment is what
  re-establishes it; a slot given back is the releasing request's own only because
  the counter is exact. The limits follow from the exact counter: whoever enters
  under a limit saw fewer than that many holders, and there are no fewer holders
  than holders under smaller limits.
- *KeyRotation.* For the rotation: who has been passed over by `i` since it was chosen lies,
  going round, before `i`, and `i` not behind the key chosen last (`RotationInv`). So `i`
  comes up again only after the rotation has come past the other. `StrictRotation` alone
  says nothing of where the rotation stands. For the counters: a request holds a key
  exactly while it is forwarded, and each key counts its holders (`AccountingInv`). For the
  window: seen from the newest one backwards, the hits a key remembers are its admissions, and
  what pruning and sweeping have cut off is older than the window (`HistoryInv`). `RateRespected`
  alone says nothing of what has been forgotten. The history survives neither the
  deletion of a key nor the hits it leaves behind; those make the count larger, never smaller.
- *KeyHealth.* `Consecutive429` equals the row of 429 as long as no cooldown was entered, and
  the row is 0 once a deadline has passed (`Counted`). The difference between the two,
  the count left over from an expired cooldown, is what `NextIn429Sequence` forgets.
- *Generation.* Each key counts the requests that hold it, from `Begin` to `Release`, and a
  request without a recorded outcome is a holder (`HoldingInv`). The types rest on the
  attempts that a waiting request has left, and on those of `KeyHealth`; with them, each
  step is one of `KeyHealth` or leaves the keys alone (`HealthIsKept`). So what is proved of
  cooldowns and pauses in `KeyHealthProofs` holds of them under real requests.
- *Persistence.* The invariant relates the writer's snapshot to memory and disk: a
  mark in the snapshot is no newer than the one in memory; if a record's mark is
  still the one in the snapshot, so is its content; after the commit the disk has the
  snapshot's content; and a client that was told "nil" finds on disk at least what was
  promised. That marks are cleared by comparing revisions is used at one place, the
  step `Settle`; everything else is bookkeeping. For the refinement the marks are newer than
  what is on disk until the transaction that wrote it is settled (`MarksNewer`): a commit then
  replaces every record by a newer content, and a call that returns "saved" found its promise.
- *CaptureStore.* For each key the invariant follows the mark of a deletion from memory through
  the snapshot to the disk (`Carried`), the life that a capture pending, in flight or stored
  belongs to (`Lives`), and the order of their sequences (`Ordered`). That a reader gets no
  capture of a former key needs all three: between the creation of a key and the commit that
  deletes its predecessor's capture only `ignoreStoredCapture` hides it. The byte count is a sum over
  a set in no particular order; as there is no induction, what is said of sums is shown
  of a smallest set for which it would be wrong. Losses are counted action by action:
  only the overflow loop takes a capture away that could be read and has no newer one.
- *ImportKeys.* What an import takes for existing, and every line it has passed, is there or
  was removed since (`Passed`): what it looked at once, at its beginning, is soon out of date, but
  only by deletions and by what others create beside it, and neither breaks the promise. The
  line it waits for is none of those it takes for existing (`Begun`), so that reporting it
  imported never hides an earlier record of the same key.
- *Metrics.* Memory, disk and the writer's copy are pruned at their own times, and none of them
  equals another. But of a minute in the window each has what had been counted when it was made
  (`Whole`), and what memory has and the disk lacks is marked; pruning touches only what is older,
  because the clock does not go back. From there the chart is a matter of sums, which are those of
  sizes, and of order: a finite set of times has places, each taken by one time, and the live
  point comes last or onto the last.
- *ManualProxy.* The invariant says that the active fields are those of the configuration
  with the active revision and that `turns` has ones up to the cursor.
- *ProxyPool.* A node's count is the number of requests that run through it, so the guard
  of the choice compares the room of the list with all of them. A request enters a node
  under a list that leaves room for `m` only when fewer than `m` are there, hence fewer
  with as little room. That `SelectNext` finds a node in a non-empty list of candidates is a lemma
  about counting. For the rotation, the candidates by their ids have places from 0 on, and as
  long as they stay the same the places chosen are an interval that ends at the counter modulo
  their number (`RotationInv`); the counter's own end is no break, since it is a multiple of
  every number of candidates.
- *ProxyNodes.* What is promised is in memory and on disk; what is being saved is in memory
  until the answer (`Promises`). Reports keep the settings of a record, transactions write
  memory, a restart reads the disk: with only the disk's half the promise would not
  survive the next transaction, with only memory's not the crash.
- *LaunchPacer.* `LaunchesPaced` is not inductive: whoever books now has to keep its distance
  to all bookings, not only to the last. `AllBehind` says that `nextLaunch` lies behind every
  booking by that one's interval, which holds because nobody ever books before the last;
  `SomebodyAhead` says that it lies there because of one of them.
- *ClientCache.* The cache forgets no client, and whoever got one got the one in the cache.
- *Shutdown.* The store is closed behind both servers (`ClosedLast`), and a server that has
  stopped by itself runs no request (`StoppedIsIdle`): only those of a server that was cut off
  can find the store closed.
- *TestProgress.* What the client has and what is in the channel, one behind the other, are the
  first events of the test by their numbers, with reports of dialers between them (`InOrder`),
  and the handler leaves a client that stays only when all is sent. So the context of a call
  that still runs is cancelled only if the client has left (`LeaversGiveUp`).
- *Parts.* A step of one part leaves the variables of all others alone, and is a step of its
  module or a stutter.

Only model-checked: all liveness properties, which are beyond the prover. Every safety and
action property of a passing run is a theorem.

## 5. What is not modelled, and why

- Contents of records that no decision reads, JSON, HTTP, TLS and tracing, logging: data or
  I/O without shared state.
- The handlers of the admin API, but for import, chart and test: they decode a request, make
  one call of the store or the gateway, which is an action of a module above, and encode
  the answer. The session cookie is base64 of the admin token (`admin.go:593`); the server stores
  no session, and the cookie is not modelled.
- The IP rules and the start of the server: sequential, before or beside all else.
- The relay of the VPS proxy client: it copies bytes. Its reports are in `ProxyNodes`.
- The admin page.
- The stages of `ServeHTTP` are modelled one by one; that a request goes through all of them,
  releasing in the end what it took in each, is in the modules' own stages, but no run composes
  them. The stages share no variables but the request's position, and the product of
  their state spaces is out of TLC's reach.

## 6. Plan

1. *Done:* all components with state of their own; abstract specifications for the admission
   queue (`AdmissionRoom`) and the store (`DurableStore`), both proved to be implemented;
   proofs of all safety and action properties that the runs check.
2. *Next proofs:* the stages of one request in one specification, as `ServeHTTP` runs through
   them (admission, launch, key), with the proof that it is a behaviour of each of the modules,
   so that what is proved of the stages one by one holds of a request on its way.
