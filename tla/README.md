# kubertsec in TLA+

kubertsec watches the processes of a Kubernetes cluster. An **agent** on every node attaches
eBPF probes, matches what they report against rules, raises alerts and may kill processes. A
**controller** stores the alerts and shows them, live, to **dashboards** in browsers.

This directory is a model of that program, its properties, the TLC runs that check them and
the TLAPS proofs of those that matter most. Paths are relative to the repository's root, with
`B` for `src/backend`.

1. [The system](#1-the-system)
2. [Modules](#2-modules)
3. [Runs](#3-runs)
4. [Fairness](#4-fairness)
5. [Proofs](#5-proofs)
6. [Where the code and its comments part](#6-where-the-code-and-its-comments-part)
7. [What is not modelled, and the plan](#7-what-is-not-modelled-and-the-plan)

## 1. The system

### The path of an event

```
 probes ──ring──▶ ReadEvents ──chan──▶ 8 workers: processEvent ──▶ rules, allowlist, kill
 (kernel)          decode, filter       handleExec/File/Connect │
                                                                ├──▶ DetectBehavior (per pod)
                                                                └──▶ POST /event (lossy)
                                                                          │
 dashboards ◀──WebSocket── write pump ◀──chan── hub ◀──chan── handleEvent ◀┘
            ◀──list of newest────────────────────────────── store (BoltDB)
```

Everything on the node is one Go process, everything below the POST is another.

### Components

| Component | State | Operations | Talks to |
|---|---|---|---|
| kernel probes, `B/bpf/execve.bpf.c` | ring buffer, used again and again | reserve, clear, fill, submit or discard, wake the reader; lose when full | ReadEvents, through the ring |
| event path, `B/pkg/ebpf/events.go`, `queue.go`, `loader.go` | Go channel, three counters, context | `ReadEvents`, `Enqueue`, `Start`, `workerLoop`, `statsLoop`, `cleanup` | workers, through the channel; `main`, through the context |
| event handlers, `B/pkg/ebpf/events.go` | alert cache and connection cache, each under a lock | `handleExec`, `handleFile`, `handleConnect`, `matchAndRespond`, `fireAlert`, `cacheCleanupLoop` | rule engine, allowlist, response engine, correlation |
| response engine, `B/pkg/response/engine.go` | mode | `SendEventFull`, `sendToController`, `KillProcess` | controller over HTTP; processes by signal |
| allowlist, `B/pkg/response/allowlist.go` | loaded once | `IsAllowed` | asked by `matchAndRespond` only |
| rule watcher, `B/pkg/rules/loader.go` | engine, recorded modification time | `NewWatcher`, `watch`, `reload`, `ForceReload`, `Stop` | the rule file; API handlers |
| rule engine, `B/pkg/rules/engine.go` | compiled rules | `Match` | pure |
| behaviour detector, `B/pkg/correlation/behavior.go` | flags and first time per pod; a report channel | `DetectBehavior`, `emit` | called by the workers, under one lock |
| process lineage, `B/pkg/runtime/lineage.go` | cache of a TTL and a size, under a lock | `GetTree`, `resolve`, `evictOldest` | `/proc`; called by the workers |
| pods, `B/pkg/runtime/container.go`, `kubernetes.go` | container to pod, refreshed at most every five seconds | `GetPodByContainer` | the API server; called by the reader |
| alert store, `B/pkg/store/store.go` | BoltDB | save, get, acknowledge, delete, purge, list, stats | controller, agent |
| live feed, `B/cmd/controller/main.go` | broadcast channel, client map, a channel per client | `handleEvent`, `wsHub.run`, `handleWS` | store, dashboards |
| REST API, `B/cmd/controller/main.go` | none of its own | alerts, rules, posture, status | store, rule watcher |
| posture, monitoring, `B/pkg/posture`, `B/pkg/monitoring` | last report, status cache | assess, query | API server, Prometheus, Grafana |
| dashboard, `src/frontend/src` | reducer state, a reconnecting socket | INIT_DATA, WS_INIT, NEW_ALERT, polls | controller |

### What is hard here

* **Programs on every CPU.** Eight eBPF programs write records into one ring at the same time. They
  reserve in one order and commit in another, in memory that older records have used, and each
  decides whether the reader has to be woken.
* **Many goroutines, few locks.** Eight workers, a reader and a context that is cancelled at
  any moment share one channel; the hub, a handler and a pump per client, and a ping goroutine
  share a connection, a channel and a map. Only some of it is under a lock, and closing a
  channel is not.
* **Loss is part of the design.** The ring, the queue, the hub's channel, each client's
  channel and the report channel all drop when they are full, and the POST is tried once.
* **Time.** Suppression windows, a cleaner with its own reading of the clock, a file's
  modification time as a version number, evidence that expires.
* **The world moves on.** Pids are given to other processes between an event and its kill, and while
  their ancestors are looked up; the rule file is written while it is loaded.
* **Order of steps in a handler.** The window is taken before the allowlist is asked; the alert
  leaves before the kill; an alert is stored before it is broadcast, and a client is registered
  before its list is read. Some of these orders are what makes the program right.

`PROJECT.json` lists each as a hazard, at its line, with the properties that cover it.

What makes each modelled component right:

* probes: a record says what its own program saw, and nothing of what the memory held before; its
  arguments are a beginning of the command line; the reader comes to every record, once, and
  sleeps through none; what is committed is not written again; and to the reader the ring is a queue;
* queue: no event twice; every event accounted for; everybody leaves on cancellation;
* feed: nothing falls between list and feed; nothing twice; one order for all; the hub never waits;
  for all its goroutines it is a broadcast;
* dispatch: one pass per window; no silence without a reason; who is killed was reported, or has
  taken over a pid; the caches forget nothing too soon;
* lineage: a tree ends and has nobody twice, whatever the cache holds; what it shows is recent; the
  cache keeps to its size;
* watcher: good rules are never given up for bad ones; a stale engine is noticed;
* dashboard: each alert once; nothing that was sent is missing; what the user decided stays
  decided; the connection comes back, by one timer;
* behaviour: reports rest on fresh evidence of the pod itself; a burst that shows a chain is reported.

## 2. Modules

Each component has a module (the dashboard has several) with its state and one action per step between two points at which
another goroutine can be noticed, a module `MC...` with the instance TLC checks, and a
module `...Proofs`.

### EventDelivery: what the event path promises

Three variables (events seen, delivered, lost) and five actions. An event is delivered once or
lost, never both. Two modules implement it, each for its part of the way. For `EventQueue`, from the
ring to the handler, `DeliverySpec` is `EventDelivery!Spec` under

    delivered <- {e \in Events : runs[e] > 0}
    lost      <- filtered \cup lostKernel \cup lostFull

and `seen` for itself. A step of `Capture` is `See` or `SeeAndLose`, `SafeHandle` is
`Deliver`, `ReaderSkip` and a failed `Enqueue` are `Lose`, and the rest stutter. For `Probes`, from
the kernel to the reader, it is `EventDelivery!Spec` under

    delivered <- Read, the events of the records that Read has returned
    lost      <- lostFull \cup Discarded

`Reserve` is `See` or `SeeAndLose`, `Discard` is `Lose`, `Take` of a ready record is `Deliver`.

### EventRing: the ring between the two

A bounded queue with two actions, `Capture` and `Release`, where an event enters or finds no room. It is
what joins the two modules of the event path. `Probes` implements it (`RingSpec`) under

    ring <- Unread, the events of the records after head
    lost <- lostFull

so that `Reserve` is `Capture` and `Take` is `Release`, whether the record is ready or discarded; the
clearing, filling and committing, in whatever order, stutter. `EventQueue` does nothing to its `ring`
but what `EventRing` allows (theorem `UsesRing`, with `lost <- lostKernel`). Hence the one step in which
`EventQueue` captures an event stands for the many of a program in `Probes`.

### AlertFeed: what the live feed promises

A broadcast: a queue of alerts, each of which is given in one step to all clients that have joined; a
client receives what it was given, in that order, except for what finds its channel full and what
is sent after its connection went down. `AlertHub` implements it (`FeedSpec`) under

    published <- Published, the alerts whose handler has come past the hub's channel
    backlog   <- broadcast_
    joined    <- clients
    up        <- UpClients
    pending   <- AllPending: for each client what its pump holds and what its channel holds, and
                 the alert of the round if its turn is still to come
    got       <- live

| AlertHub | AlertFeed |
|---|---|
| `Broadcast` | `Publish` |
| `HubTake` | `Give`, to all clients at once, although the hub has yet to go round |
| `HubSend` to a client with a full channel | `Miss`; with room, a stutter |
| `Register`, `PumpDeletes` | `Join`, `Leave` |
| `Upgrade`, the steps in which the peer goes | `Connect`, `Disconnect` |
| `PumpWritten` | `Receive`, or `Waste` when the peer is gone |
| `PumpCloses` with something left | `Waste` |

### Suppression: what a dedup cache promises

A limiter with a memory of all it let through: an event passes when nothing of its key passed within
the window, is silenced otherwise, and is judged once. `AlertDispatch` implements it twice
(`SuppressionSpec`), with the alerts' cache (a key is a rule and a pod) and the connections':

    passes   <- claims                      passes   <- connClaims
    silenced <- AlertSilenced               silenced <- ConnSilenced

The silenced are the events that came to the cache, did not pass, and whose worker is past it.
The code's caches keep one time per key, and a cleaner with its own reading of the clock deletes from them;
neither can be told from a limiter that forgets nothing.

### Probes: the eBPF programs and the ring

A task (`Pids`; a pid stands for pid, tgid and uid, which are read alike) makes a system call, which
puts the programs on its way into `todo`, as far as `LoadProgram` could attach them
(`attached`, a choice among `AttachSets`, as `LoadProgram` goes on without those that the kernel
refuses). A program's run is the steps between which another CPU can do
something to the ring.

| TLA+ | Code |
|---|---|
| `Exec`, `ExecFails`, `Fork`, `TcpConnect`, `OpenAt` | the kernel's calls into the programs; an exec passes three of them, the last one if it has not failed |
| `Reserve` | `bpf_ringbuf_reserve` and the return when it fails; `Leftover` is what the memory holds |
| `Cleared`, `Header` | `memset` and the fields every program writes |
| `FillExec`, `FillTask`, `FillConnect`, `FillConnect6`, `FillOpenAt`, `OpenAtNothing` | the bodies of the eight programs |
| `ReadArgs`, `AppendArg`, `ReadStr` | `read_args`, one argument per step, `append_arg`, and `bpf_probe_read_user_str` |
| `Submit`, `Discard`, then `Notify` | `bpf_ringbuf_submit` and `_discard` with no flags: release the record, then wake the reader if it is the next to be read |
| `Poll`, `Take`, `Caught` | the library's `Read`: `epoll`, the next record, and back to `epoll` when it has them all |

Texts are sequences of letters, since `ArgsArePrefix` is about where they are cut; a text that cannot
be read is an empty one. `recs` has all records ever reserved, and the ring is the part after
`head`. `whole` (the command line without the limit), `seen` and `lostFull` are histories.
`MaxEvents` bounds how often a program looks for room.

### EventQueue: probes to handler

| TLA+ | Code |
|---|---|
| `ring`, `Capture` | the ring buffer; a probe's reserve and submit |
| `rpc`, `rec`, `Reader...` | `ReadEvents`: look at the context, block in `Read`, decode and filter, `Enqueue` |
| `ch`, `TryEnqueue` | `q.ch` and the select with a default branch |
| `wpc`, `hand`, `Take`, `SafeHandle`, `CountProcessed`, `BeginDrain`, `EndDrain` | `workerLoop`: the outer select, `safeHandle`, the atomic add, the drain loop |
| `spc`, `Spawn`, `StartReturns` | `Start` and its wait group |
| `tpc`, `snap`, `Stats...` | `statsLoop`, one read at a time |
| `cancelled`, `rdClosed`, `alive`, `Cancel`, `Cleanup`, `Exit` | signal, `cleanup`, the two seconds of `main` |

Whether an event passes the decoder and the filters is a choice. A panic of the
handler and its return are the same step, because `safeHandle` makes them so.

### AlertHub: the live feed

An alert is its number, and the larger is the newer; agents post in any order. `hpc` is
where its POST handler is, `hubMsg` and `todo` are the hub's round under the read lock, `cpc`
is a connection's handler and `ppc` its pump. `conn` is the connection: up, stalled (nothing
comes or goes and nobody has noticed) or gone. Steps that take the write lock
wait for the hub's round to end (`WriteLockFree`). `crash` is what a panic leaves: a send on a
closed channel, or the library's panic on concurrent writes (`PingDuringWrite`; two writers
need not be noticed, so the step may also not be taken). After a crash nothing moves.
A save that fails (`SaveAlert` leaves the store alone) and a list that cannot be read (`unlisted`) are
choices, as in the code, which goes on in both cases.

### AlertDispatch: detection and response

Workers take events and run the three handlers step by step; the caches are checked and set in
one step, as under their locks; the cleaner reads the clock once and prunes one cache after the
other. What pure functions say of an event (its rule, whether it runs from a temporary
directory, its chain, its connection) is part of the event, and which rules are critical and
which connections suspicious or private are constants, so that any rule file and any matcher is
covered. Processes of the node exit and start and reuse pids (`holder`), at any time.
`KillProcess` hits what has the pid then; the rest of the process group it aims at is not followed.
`job[w]` is the number of the worker's event in `taken`; `claims`, `fired`, `sent`, `kills` are
histories, and so is `astray`: the events in hand that may still end in a kill and whose process has
lost its pid. Only for these may a kill hit somebody else, says `NoSilentKill`; that somebody else may
then be a protected process is section 6's.

### Lineage: the ancestors of a process

Workers call `GetTree`: look a pid up (`Hit`, `Miss`, under the read lock), read `/proc`
(`ReadProc`, no lock), put the answer in (`Insert`, under the write lock, with `evictOldest`), and
climb to the parent until there is none, the limit is reached or the pid has been visited. Meanwhile
`Fork`, `Exit` and the reuse of pids change `/proc`, an exited process's children becoming init's.
`Tick` lets no worker take more than `MaxLag` from `/proc` to the cache: the entry is dated when it
is put in, and how old its content is by then is in nobody's hands. `asOf` (when a node was read),
`started` and `stale` are histories. Names are left out, a process always having one, and so
is `GetParentComm`, which goes the same way for two pids.

### RuleWatcher: hot reload

`reload` is three steps, `Read` (read, parse, compile), `Stat` and `Install` (under the lock), by
the watch goroutine and by API callers; the watch goroutine's tick is `WatchStat` and
`WatchCompare`. `NewWatcher` is the watch goroutine's first reload: no caller comes before
it, and if it fails, so does the program. The file's contents are numbered, may be bad, and the
file may be missing; its clock is as fine as its time stamps, so two writes
may bear the same. `overlapped` remembers whether an edit ever came between a `Read` and its
`Stat`, or second in one tick.

### Behavior: chains of a pod

A call is the set of features `DetectBehavior` finds in the process name and the arguments; a
pod's state is the set of its flags and the time of its first. `Completed` are the chains a
call completes; the one of lowest rank is reported and the state deleted (`Report`), or else
the call is remembered (`Remember`). The chain table is the order of the `if`s in the
code. The report channel is a count: nothing receives from it.

### Dashboard: the page, its connection and the store

`Dashboard` composes three modules by extending them, and adds the controller's handlers and the
user.

| TLA+ | Code |
|---|---|
| `AlertStore`: `stored`, `acked`; `SaveAlert`, `AcknowledgeAlert`, `DeleteAlert`, `PurgeOlderThan`, `ListAlerts` | the BoltDB bucket; one transaction is one step. Alerts are numbered by their timestamps; `posted` remembers them all |
| `WSClient`: `ws`, `timers`, `status`, `destroyed`; `Connect`, `Opens`, `Closes`, `TimerFires`, `Disconnect`, `ForceReconnect` | `websocket.js`, one callback per step. `timers` counts timers, so that a second one would show |
| `AlertList`: `alerts`, `acks`; `WSInit`, `NewAlert`, `InitData`, `AckAlert`, `RemoveAlert`, `ClearList` | the cases of the reducer in `AppStore.js`, as far as `state.alerts` goes |
| `hub`, `peer`, `feed`; `Post`, `HubSends`, `Register`, `SendList` | `handleEvent`, `wsHub.run`, `handleWS` for this client; either channel may drop |
| `boot`, `loaded`; `Mount`, `AnswerLoad`, `Load` | the effect of `AppProvider`; `fetchDashboardInit`, between the controller's reading of the store and the dispatch of INIT_DATA |
| `answered`; `Serve`, `Answer`, `ClearAlerts`, `ReconnectWS` | the user's actions: what the controller has done, and later its answer; `Serve` is also every other user |
| `Unmount` | the effect's clean-up |

`AlertHub` has the feed in detail, with its rounds, locks and stalled clients, and shows that no
alert falls between the list and the feed. Here it is one queue for all and one for this
client, which is sent the list first; in exchange the store, the reducer and the connection
are there. Histories are `due` (what this page was sent or will be), `excused` (what went off the
page for a reason), `done` and `late` (requests whose answer has come, and those of them that
older contents were under way for).

### Mutants

Definitions marked "Mutant of" are variants of the definition they stand beside, with
a bug that somebody could have written. They are not part of the model. Each property is
violated when one of them takes the place of its original (`PROJECT.json`, "mutants").

## 3. Runs

All runs are of modules `MC...`; the cfg files have the names of the runs. `CHECK_DEADLOCK
FALSE` stands where the model comes to an end: all events are seen (Probes), the process exits
(EventQueue), all alerts and clients are through or the controller has crashed (AlertHub), the
clock stops (Lineage), the watcher is stopped or died with the file untouched (RuleWatcher), all calls
are made (Behavior). AlertDispatch never ends, since processes come and go, nor does Dashboard,
since pages do; both are checked for deadlock.

| Run | Bounds | States | Shows |
|---|---|---|---|
| `Probes` | 2 tasks, ring 2, 3 events, field of 4 bytes, 2 arguments, two kernels | 204 k | types and capacity; `RecordsAreClean`, `ArgsArePrefix`, `NoLostWakeup`, `RecordsAreFinal`; implements `EventDelivery` and `EventRing`; `EveryRecordRead` |
| `EventQueue` | 2 workers, channel 2, ring 1, 3 events | 377 k | types and capacities; `AtMostOnce`, `Accounting`, `StrandedBound`; implements `EventDelivery`; `EventuallyHandled`, `WorkersStop` |
| `AlertHubSafety` | 2 clients (symmetric), 2 alerts, channels 1, list of 1 | 1.4 M | `NoGap`, `NoRepeat`, `SameOrder`; implements `AlertFeed` |
| `AlertHubLive` | 1 client, 2 alerts, channels 1 | 14 k | `HubDrains`, `Delivered`, `ClientRemoved` |
| `AlertHubClose` | 2 clients, 2 alerts, channels 1 | | violates `CloseIsHandled` |
| `AlertDispatchCaches` | 2 workers (symmetric), 3 events of one rule, opened files and one connection, window 2, time 0..3 | 1.4 M | `OncePerWindow`, `SilenceIsShort`; implements `Suppression`, twice |
| `AlertDispatchKills` | 2 workers, 2 events of 8 sorts, 3 modes, 3 processes, 1 pid | 213 k | `NoSilentKill`, `Responded` |
| `AlertDispatchAllowlist` | as `AlertDispatchKills` | | violates `AllowlistIsKept` |
| `Lineage` | 2 workers (symmetric), 3 pids, trees of 3, TTL 2, cache of 2, lag 1, time 0..3 | 3.2 M | types and the cache's size; `NoCircles`, `TreesAreRecent` |
| `RuleWatcher` | 1 caller, 4 contents | 343 k | `KeepsGoodRules`, `StaleIsNoticed`, `Converges` |
| `Behavior` | 2 pods, 4 calls of 8 sorts, time 1..4, window 1, report channel 1 | 1.1 M | `EvidenceIsFresh`, `FirstBurstIsReported` |
| `Dashboard` | 2 alerts, list of 1 on connect and of 2 on load, page of 2, 1 request of this user | 1.3 M | `NoDuplicates`, `CaughtUp`, `ChoicesStick`, `ConnectionIsKept` |

The types of AlertHub, AlertDispatch, RuleWatcher, Behavior and Dashboard, and that the hub's round has
only clients of the map (`RoundIsStable`), are theorems (section 5) and not checked by a run.

Why the bounds are enough:

* **Probes.** A third event reuses the memory of the first, finds the ring full, or is reserved behind
  one that is still being written. In a field of four bytes, one argument leaves no room for the
  next, one is cut and one is one too many. The two kernels attach every kind of program
  between them; `TypeOK` and the rest are proved for all sets of programs.
* **EventQueue.** Three events fill a channel of two while a third is in a worker's hands, in the
  ring (of one, so that it overflows too) or turned away, and with a channel of two a reader that
  never looked at the context would leave two events behind, which `StrandedBound` forbids. Two
  workers is where sharing begins: one can drain while the other handles.
* **AlertHub.** A gap needs one alert and one client between its steps; an order needs two alerts
  and two clients, and there is room for both with one in the pump's hand and one in the channel; a
  channel of one is also full when the pump is slow, so that a client misses an alert; the write lock matters as soon as there is a client in the
  round and one that leaves. Alert 2 is newer than alert 1, so a list of one is one that leaves
  an older alert out.
* **AlertDispatch.** Three events are a claim, one that is silenced and one after the window; file
  and connection events share the alerts' cache, each on its own way to it, and an exec event would
  come to it as a file event does, after its own alerts, which touch no cache;
  the cleaner keeps entries just for the window, the shortest time the assumption allows. The kill
  run has every path through the three handlers and every reason not to kill in its eight events.
  Its clock stands still, which makes suppression permanent; the other run is about time.
* **Lineage.** A circle needs two cached pids besides init's and a pid that changes hands; being out of
  date needs an entry's life, a lag and one tick more, which is the time there is. A cache
  of two is full with three pids, and two workers can both find the same one missing.
* **RuleWatcher.** A watch and a caller overtake each other with three contents; the fourth
  lets one of them be bad or the file be missing in between.
* **Behavior.** Two calls make the longest chain (one command can be several steps), a third
  begins it again and a fourth makes it expire or fills the report channel.

* **Dashboard.** Two alerts are one in the list of a connection and one that is not, or one from
  the load and one from the feed, and connections, mounts and loads are without
  bound. A page of two never cuts anything off in this run (three alerts are too many for
  a run of minutes); the theorems hold for any number of alerts and any page.
  `ChoicesStick` speaks of one alert at a time, so one request is enough, and other users' are
  without bound.

## 4. Fairness

* **Probes.** Weak fairness of the reader (the Go scheduler) and of every program that has begun its
  run: the verifier admits only programs that end, and nothing holds one up for good. None for
  system calls.
* **EventQueue.** Weak fairness of the reader, of each worker, of `Start` and of `cleanup`: the
  Go scheduler runs what can run. None for probes, tickers, signals, nor for `Exit`. A worker's
  steps are taken together, so a worker in its outer select with a cancelled context may take
  events for ever as long as there are any; there are finitely many. Every liveness property of the
  queue has the way out that the process exits, because `main` waits two seconds and no more.
* **AlertHub.** Weak fairness of the POST handlers, the hub, and the handlers' and pumps' steps that cannot
  block. A write to a peer that is up completes, and one to a peer that is gone fails; nothing is
  assumed of a write to a stalled peer, since the code sets no write deadline. Dashboards need
  neither come nor go. `ClientRemoved` asks that the write lock is got in the end; alerts are
  finitely many here, and Go's `RWMutex` prefers writers.
* **AlertDispatch.** Weak fairness of each handler that has begun. None for taking events, for the
  clock, the cleaner or the processes.
* **RuleWatcher.** Weak fairness of the reloads under way and of the watch goroutine's ticks (it
  has a ticker). None for edits, callers or `Stop`.
* **Lineage, Behavior, Dashboard.** None: their properties are about safety. That a lost connection comes back
  in the end would need a network and a controller that do, of which the code knows nothing;
  `ConnectionIsKept` says what the client does for it.

## 5. Proofs

`PROJECT.json` lists the theorems; all hold for any value of the constants that the `ASSUME`s
admit. The assumptions are

* capacities, windows and limits are positive, bounds natural numbers, and names that mean "none" no
  names;
* the set of workers of the queue is finite and not empty (for `Accounting`, which counts them);
* pids are positive and 1 is one of them (`Lineage`), for the way up to end at init; trees may
  have two pids at least;
* the args field has room for three bytes, a letter, a space and the final NUL (`Probes`), and the
  argument register points to texts, which may be empty;
* the cleaner keeps entries at least for the window (5 minutes and 30 seconds in the code: were
  it otherwise, `OncePerWindow` would be wrong);
* the lists of the store are at most 500 long, as the store limits them (`Dashboard`).

| Module | Theorems | The argument |
|---|---|---|
| `ProbesProofs` | `TypeCorrect`, `RecordsAreCleanCorrect`, `ArgsArePrefixCorrect`, `NoLostWakeupCorrect`, `RecordsAreFinalCorrect`, `ImplementsDelivery`, `ImplementsRing` | A record and the run of a program belong together: the record of a run is busy up to `Submit`, and no two runs have the same; a busy record has its run. While a program is in `read_args`, what the field holds and what the command line is so far are as `Begins` says, either equal or the field too full to grow. For the wake-up, a reader that sleeps without one either stands at the end of the ring or before a record whose program has not looked yet: that program looks after the release, finds the reader there, and the reader cannot have moved. For the refinements, the events of records are distinct, and every step leaves the records alone, appends a busy one, or rewrites a busy one and keeps its event: so that no step but `Reserve` and `Take` changes the queue, and none a committed record. |
| `EventQueueProofs` | `TypeCorrect`, `HandledAtMostOnce`, `AccountingCorrect`, `SnapshotCorrect`, `StrandedAtMostOne`, `ImplementsDelivery`, `UsesRing` | Where an event is: in the ring, in the reader's hands, in the channel, in one worker's hands, handled or lost, and in one of these places only. From it at most one handling, and the refinement: `SafeHandle` finds an event that is neither delivered nor lost. `Accounting` is a counting argument about the set of busy workers. For the log line, what it has read so far never exceeds what was offered when the remaining counters are added. For the stranded event: once all workers have left, only a reader that was past its look at the context can add one. `UsesRing` is a case analysis of the steps that touch the ring. |
| `AlertHubProofs` | `TypeCorrect`, `RoundsAreStable`, `NoGapCorrect`, `NoRepeatCorrect`, `SameOrderCorrect`, `ImplementsFeed` | `NoGap` is not inductive: it says nothing of a client before its list, and its hypothesis comes true in the very step that reads the list. The invariant adds what holds of a registered client that has no list yet: whatever is stored after its registration is on its way to it. For the order, an alert is in one place only: with its handler, in the hub's channel, on its round or past it. While it is on its round it is the last in every feed that has it, and a client that is still to get it has not got it; and no alert that is ahead of another in one feed is behind it in another. For the refinement, what a client is still to receive is one row: the pump's hand, the channel, and the alert of the round at its end. `HubTake` makes all rows one longer at once, `HubSend` moves the alert within the row or drops it from its end, and the pump takes from its front. The invariant adds that a client has nothing in its row and its feed before it is registered, that one whose connection is up is in the map from then on, and that a channel is closed only when the connection is not up: otherwise a client could leave, or lose what it was given, while the abstract one is still up. |
| `AlertDispatchProofs` | `TypeCorrect`, `OncePerWindowCorrect`, `NoSilentKillCorrect`, `ExecAllowlistCorrect`, `SilenceIsShortCorrect`, `ImplementsSuppression` | A claim younger than the window is in the cache, with its time or a later one, and what the cleaner is about to prune is older than the window even by the clock it has read. For kills, what is known at each label of a handler: at `kill` the claim has been made and the alert sent unless in detect mode. And an event in hand that may end in a kill is in `astray` or its process still has its pid: `Take` sees to that, and what takes the pid away puts the event in `astray`. `ExecAllowlistCorrect` says how far the allowlist's word goes, and no run is needed for it: an allowed exec event never gets past the question, and no alert of its rule has been raised before. For silence, every entry of the cache is a claim's, and a matched event is answered, or its worker has still to ask the cache. For the limiter, the cache answers as the whole memory would: the last claim of a key, if younger than the window, is what the entry says, and an entry is always some claim's; the step in which a worker asks the cache moves its event from undecided to passed or silenced, no other step moves any, and a number is one worker's. |
| `LineageProofs` | `TypeCorrect`, `NoCirclesCorrect`, `TreesAreRecentCorrect` | What `GetTree` has visited is what it has in the chain, and the pid it goes to next is not among it: no statement about the cache is needed, which may hold any circle. For the age, an entry is at most the lag older than its date, and a node on its way to the cache at most the lag old. |
| `RuleWatcherProofs` | `TypeCorrect`, `KeepsGoodRulesCorrect`, `NeverAheadCorrect`, `StaleIsNoticedCorrect` | All times anybody holds are at most the file's. Without overlaps, what a reload has read is the file's content when it asks for the time, and if the time it holds is still the file's, so is the content. |
| `BehaviorProofs` | `TypeCorrect`, `EvidenceIsFreshCorrect`, `FirstBurstIsReportedCorrect` | The flags of a pod and its calls since the last report are tied together: each flag has a call, and a call that the window still covers has its flags. |
| `DashboardProofs` | `TypeCorrect`, `NoDuplicatesCorrect`, `CaughtUpCorrect`, `ChoicesStickCorrect`, `ConnectionIsKeptCorrect` | Lemmas say what each case of the reducer does to what is shown and what is excused, `Cut` and `Without` included. `ChoicesStick` is not inductive: the invariant adds that the store no longer has what was deleted and has what was acknowledged as such, so that no list read later can be older, and that nothing under way is older either, but for the choices in `late`. |

TLC has checked every one of the properties that a passing run lists on the instances above, and each of their
invariants has its theorem. Only model-checked, as a matter of the prover's reach, is all
liveness (`EveryRecordRead`, `EventuallyHandled`, `WorkersStop`, `HubDrains`, `Delivered`,
`ClientRemoved`, `Responded`, `Converges`), since fairness speaks of ENABLED. Inductions over
data and RECURSIVE definitions are also beyond it; no module uses them.

## 6. Where the code and its comments part

Two runs show it, each with a counterexample from TLC:

* **A client that closes its connection can bring the controller down** (`AlertHubClose`,
  `B/cmd/controller/main.go:721`). When the read loop ends, `handleWS` closes the client's send
  channel, while the client stays in the map until its pump has noticed. A broadcast in between
  sends on a closed channel and panics; the `default` branch does not help.
* **What is on the allowlist is sent as an alert, and killed** (`AlertDispatchAllowlist`,
  `B/pkg/ebpf/events.go:297`), although the head of `allowlist.go` (`:3`) says never, as do that of
  `engine.go` (`:10`) and the comment over `KillProcess` (`:160`) of kills. Only `matchAndRespond` asks the
  allowlist. `handleExec`'s own two alerts (in TLC's trace, the one for a temporary directory), those of
  `handleFile` and both of `handleConnect` do not; the file handler (`events.go:300`) and the connection handler
  (`:398`) also go on to `KillProcess`, which asks for protected names only. What does hold, for exec
  events, is the theorem `ExecAllowlistCorrect`.

The model also makes visible, without a run of its own:

* A protected process can be killed, although the comment over the list (`B/pkg/response/engine.go:36`) says
  that these "are never killed under any circumstances". The name that is compared with the list (`:170`)
  is the event's, and the signal goes to the pid (`:191`), which may have changed hands since the event was
  captured (`Kill`, with `ProcessExits` and `ProcessStarts`). For the process that has the pid it is
  the only way, says `NoSilentKill`, whose one excuse it is.
* An edit of the rule file can go unnoticed for ever (`B/pkg/rules/loader.go:127`), although the comment over
  the watcher (`:36`) says that changes are reloaded automatically. There are two ways: the file is read,
  then asked for its time, and an edit between the two is recorded as loaded; or a second edit falls in
  the same tick of the file's clock as the first. In either case no later tick sees a difference.
  `Converges`, which excepts just these (`overlapped`), shows that there is no other.
* An exec event on the allowlist spends the suppression window before the allowlist is asked
  (`B/pkg/ebpf/events.go:444`, `:449`), raises nothing, and so silences the same rule for every other
  process of its pod. `Responded` excuses it.
* The header of `behavior.go` lists a download and an execution as a chain (`:7`). It goes unreported
  when any shell has run in the pod within the window before: the execution flag is then set already,
  and only the call that sets it completes a chain (`:164`). `FirstBurstIsReported` says what holds
  instead.
* The connect programs read the socket at the entry of `tcp_v4_connect` and `tcp_v6_connect`
  (`B/bpf/execve.bpf.c:246`), which write the destination only later. A new socket has none, and
  `handleConnect` drops an event without a port (`B/pkg/ebpf/events.go:317`); a used one may still have
  the destination before (`FillConnect`, `MCDests`).
* The exec programs take the arguments from the second register (`execve.bpf.c:102`) of three
  different functions: of the system calls' wrappers, where it is not the argument list on
  kernels that pass the registers as one structure, and of `do_execveat_common`, whose second
  parameter is the file name. Therefore an argument list that is none, or unreadable, is a case
  of the model, and a record may well have no arguments.
* One exec is reported by up to three programs, with the old name and the new (`Exec`); suppression
  makes one alert of them.
* `resolveIP` (`B/pkg/ebpf/events.go:604`) writes the address in big-endian order although the probe
  stored it as it is on the wire, so that on a little-endian machine its bytes are
  reversed before the address filters see them.
* A tree may mix strangers: after a pid has changed hands, an entry of the former process leads on to the
  former process's parent, or to whoever has the parent's pid now. `TreesAreRecent` says how old it may
  be, not that it was ever true as a whole.
* The header of `queue.go` says that events are never dropped because handling is slow; `TryEnqueue`
  drops them, and `Accounting` counts them. `Start` may return with one event in the
  channel; that it is never more is `StrandedBound`.
* A second process that matches the same critical rule in the same pod within the window is
  silenced and therefore not killed, in enforce mode too (`Claim`).
* An alert is sent before the kill, and its killed flag is set on a copy afterwards.
* `ForceReload` may be overtaken: what it installs can be replaced by older contents, until the
  next tick (`StaleIsNoticed`).
* The flags of a pod have no order, and nothing receives from `BehaviorAlerts`.
* INIT_DATA replaces the page's list. An alert that the feed has shown before the load's answer
  comes, but after it was read, is gone from the page until the next connection lists it, and when the request
  for alerts fails, the page is emptied, for `fetchDashboardInit` takes a failure for an empty
  list (`InitData`, `AnswerLoad`; `CaughtUp` excuses what is lost in this way).
* An alert that the user has deleted comes back if a list or the load was read before; nothing
  takes it off again until the page is loaded anew (`late` in `ChoicesStick`).
* The list of a connection goes on top of the page, old alerts over newer ones, and may push these
  over the limit (`WSInit`).
* `SECURITY.md` (`:137`) says that three arguments are captured and (`:139`) that connections over IPv6
  are not monitored. The code reads up to six (`MAX_ARGS_COUNT`, `execve.bpf.c:13`) and attaches
  `trace_connect6` (`loader.go:42`), whose addresses `resolveIP` reads (`ReadArgs`, `FillConnect6`).
* `PurgeOlderThan` returns how many keys it collected, not how many it deleted.

## 7. What is not modelled, and the plan

Not modelled, and why:

* `B/bpf/vmlinux.h`: the kernel's types, generated from a running kernel. It has 162 168 of the 162 496
  lines of C in the repository, so that the share of C that the modules stand for is next to nothing
  although `execve.bpf.c`, the rest of it, is modelled program by program. The map `pid_filter`,
  which no program uses, is left out.
* `GetParentComm` (as `GetTree`, for two pids), `EvictPID` and `CleanupExpiredStates` (nothing calls
  them); the Prometheus counters and `correlation/detector.go` (nothing reads what they write but logs and
  scrapes).
* The pod cache: one goroutine, the reader, fills and reads it, and container ids are not used again.
  Whether a container is known is a choice in `EventQueue`.
* Pure functions without state: rule matching, the allowlist's wildcards, `IsSuspiciousChain`,
  `resolveIP`, the posture's score. Their answers are inputs of the models, which hold for any. What a
  conversion does to one value is a matter for a unit test.
* Calls to Prometheus, Grafana and the API server; the POST from agent to controller, which is
  tried once: `AlertDispatch` ends at its sending, and `AlertHub` takes any alerts in any order. The
  agent's own copy of the alerts in its store, which is not read by anything.
* Rendering in the dashboard's pages; manifests and scripts; the wording of logs and alerts.

Of the dashboard's page, the pods with their threat counts, the cards, the rules, the posture and the
chart are not in the model: they are computed from the same messages, and polls change them too.

Order of the modules, the most important first; the first ten are done.

1. `EventDelivery`, `EventQueue`: the event path, and the abstract specification it implements.
2. `AlertHub`: the feed.
3. `AlertDispatch`: detection and response.
4. `RuleWatcher`: hot reload.
5. `Behavior`: chains.
6. `AlertStore`, `WSClient`, `AlertList`, `Dashboard`: the store, the page and its connection.
7. Their proofs.
8. `Probes`: the programs and the ring, which implement `EventDelivery` on their part of the way.
9. `Lineage`, and the proofs of both.
10. `EventRing`, `AlertFeed`, `Suppression`: what the ring, the feed and the caches promise, and the proofs
    that the modules implement them.

What would come next:

11. `AppStore`: the rest of the reducer, by extending `AlertList`: a pod's threat count against the alerts
    that were shown for it, under INIT_DATA, POD_SYNC and WS_INIT, and the cards under STATS_REFRESH
    answers that come out of order.
12. `Node`: `Probes`, `EventQueue` and `AlertDispatch` composed, with the queue's loss before the caches,
    and the lossy POST between `AlertDispatch` and `AlertHub`.
13. Pure parts against reference definitions, in one run: rule matching, the allowlist's wildcards,
    `ListAlerts` with its filters.

A theorem still worth proving is that the controller's part of `Dashboard` is an `AlertFeed` with one
client. `AlertFeed` has clients that join once, and a page connects again and again, so that it would have
to count connections first.
