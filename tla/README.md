# A TLA+ verification project for go_cache

go_cache is a small distributed cache in Go in the manner of groupcache: named
groups of keys that are loaded through a user's getter, kept in a size-limited
LRU cache, merged when several goroutines ask at once, and spread over peers
with consistent hashing. Beside that stand caches with lifetimes, a sharded
LRU, metrics, buffer pools and a persistence package. This directory holds TLA+
modules for the parts of it that keep state, TLC configurations that check them
on small instances, and proofs that TLAPS checks for every instance.

    tlc -workers 2 -config MCGroup.cfg MCGroup     # one run
    tlapm GroupProofs.tla                          # the proofs about one module

`PROJECT.json` lists the runs, the source lines each definition stands for, the
hazards of the code and the properties aimed at them, and the findings.

## 1. Inventory

Paths are below `src/cache/` unless they begin with `src/`.

| component | state | operations | interacts with |
|---|---|---|---|
| **singleflight** `singleflight/singleflight.go` | `g.m`: key -> `*call`; each call's `wg`, `val`, `err` | `Do`, `doCall` | runs the closure of `Group.load` |
| **lru** `lru/lru.go` | `maxBytes`, `nBytes`, list `ll`, map `cache` | `Get`, `Add`, `RemoveOldest` | used under the lock of `cache.cache` |
| **locked cache** `cache.go` | a mutex, an LRU made at the first `add` | `add`, `get` | used by `Group` |
| **group** `gocache.go` | `mainCache`, `picker`, `loader`; the registry `groups` | `Get`, `load`, `getLocally`, `populateCache`, `getFromPeer`, `RegisterPeers`, `NewGroup`, `GetGroup` | getter, singleflight, locked cache, peers |
| **consistent hash** `consistenthash/consistenthash.go` | `keys` (sorted points), `hashMap`, `weights`, `mu` | `Add`, `Remove`, `Get`, `GetMultiple`, `SetWeight` | used by `HTTPPool` |
| **http pool** `http.go`, `peers.go` | `peers` (the ring), `httpGetters`, `mu` | `ServeHTTP`, `Set`, `PickPeer`, `httpGetter.Get` | calls `Group.Get` on the other node |
| **ttl** `ttl.go` | map of entries with `ExpiresAt`, a ticker, a stop channel | `Set`, `Get`, `deleteIfExpired`, `cleanupWorker`, `Delete`, `Clear`, `Close`; `TTLGroup.GetWithTTL` | a `Group` behind it |
| **fast lru** `lru/fast_lru.go` | shards, each a list, a map, a count and an `RWMutex`; atomic counters | `Get`, `Add`, `Clear`, `Stats`, `ResetStats` | - |
| **metrics** `metrics.go` | atomic counters | `Record*`, `Stats`, `ResetStats`; `InstrumentedGroup.Get` | wraps a `Group` |
| **pools** `pool.go` | `sync.Pool`s by size class | `Get`, `Put` | - |
| **aof** `persistence/aof.go` | writer (file, buffer, gzip stream, size), `enabled`, `rewriteChan` | `Start`, `Stop`, `Append*`, `WriteEntry`, `rotateFile`, `syncWorker`, `Close`, `Replay` | the file system |
| **rdb** `persistence/rdb.go` | snapshot files, `currentFile` | `Save`, `Load`, `cleanupOldFiles` | the file system |
| **persistence manager** `persistence/manager.go` | `running`, `stopChan`, `changeCount`, `lastSaveTime` | `Start`, `Stop`, `autoSave`, `OnSet`, `OnDelete`, `Backup`, `Restore` | rdb and aof |
| **server** `src/main.go` | none of its own | the order in which a node is started | group, http pool |
| byteview, examples | none of their own | copies; a demonstration | - |

What is hard about each, and what makes it correct:

- **singleflight.** `wg.Done()` precedes the delete, so a finished call can be
  joined; the delete is unconditional; nothing is deferred, so a panic in fn
  leaves its call registered for ever. Correct means: one execution at a time
  per key, a result nobody overwrites, a result no older than the caller's
  request can accept, and every `Do` returns.
- **lru.** The list, the map and the byte count are changed one after the
  other and must agree for the life of the cache; `Add` evicts in a loop.
  Correct means: exactly the most recent entries that fit are kept, nothing is
  lost without `OnEvicted`, `Add` returns.
- **group.** The miss, the flight and the store of the value happen under three
  different locks, while the source changes, the cache evicts, the getter and
  peers fail, and `RegisterPeers` writes an interface value nobody guards.
  Correct means: the cache never goes back to an older value, nobody reads an
  older value than was visible when he asked, every `Get` returns.
- **consistent hash.** Points are removed by recomputing them, one by one, from
  the weight at that time. Correct means: the ring depends on its members only,
  a lookup finds the nearest point, a change of members moves only the keys it
  must.
- **http pool.** A request crosses nodes whose peer lists may differ, and that
  start, crash and hang; there is no timeout; `PickPeer` needs `Set` to have been
  called; the URL is put together in one function and taken apart in another.
  Correct means: no nodes wait for each other in a circle, an answer is the
  answer to what was asked, every `Get` returns.
- **ttl.** The clock, the entry and the lock are read at different times by Get,
  by the goroutine it starts, and by the worker. Correct means: nothing is
  removed early, everything expired is removed in the end, `Close` ends the
  worker, and an expired value is not served again.
- **fast lru.** A list whose pointers are changed under a read lock, a limit
  divided among shards, counters apart from what they count. Correct means: each
  shard's map, list and byte count agree, the limit is kept, no call panics.
- **metrics.** Counters added to, loaded and reset one at a time. Correct means:
  they differ only by what is in progress, and `Stats` errs to one side only.
- **aof, rdb, manager.** Buffers not yet on disk, renames before the contents are
  complete, errors that leave a half-stopped manager, crashes between the steps.

## 2. The modules

| module | models | uses |
|---|---|---|
| `Coalescing` | what singleflight promises, without its mechanism | |
| `SingleFlight` | `Do`, `doCall` | |
| `SingleFlightHistory` | the same steps with execution numbers | refines `Coalescing` |
| `CacheStore` | what a size-limited cache promises | |
| `LRU` | `lru.Cache` | refines `CacheStore` |
| `ReadThrough` | what `Group.Get` promises | |
| `Group` | `Group.Get`, `load`, `RegisterPeers` | `SingleFlight` by INSTANCE; refines `ReadThrough` |
| `ConsistentHash` | `consistenthash.Map` | |
| `Cluster` | `HTTPPool`, `httpGetter`, the registry of groups, the start of a node | |
| `TTLCache`, `TTLGroup` | `ttl.go` | `TTLGroup` extends `TTLCache` |
| `FastLRU` | `lru.FastLRU` and its counters | |
| `Metrics` | `Metrics`, `InstrumentedGroup` | |
| `SnapshotStore` | what snapshots promise | |
| `RDB` | `RDBManager` | refines `SnapshotStore` |
| `Persistence` | `PersistenceManager`, `AOFManager`, `AOFWriter` | |
| `SingleFlightProofs`, `LRUProofs`, `GroupProofs`, `ClusterProofs`, `TTLProofs`, `FastLRUProofs`, `PersistenceProofs` | theorems: section 5 | the modules they are named for; `GroupProofs` also `Metrics`, `ClusterProofs` also `ConsistentHash`, `PersistenceProofs` also `RDB` |
| `SumTheorems` | lemmas about sums and induction | |
| `MC...` | instances for TLC | |

How the parts are put together: `Group` takes the steps of `SingleFlight` as they
are, and has of the LRU what `CacheStore` promises, which `LRU` is shown to keep.
`Cluster` has of the ring only that it is a function of its members, and of a
flight's end that it releases all waiters; both are what `ConsistentHash` and
`Group` show in detail. `TTLGroup` has of a group that its cache does not expire,
and `Persistence` of snapshots whether the newest can be loaded, which is `RDB`'s
matter.

In every module a section "Faulty variants" comes before the definitions of the
code. It holds the plausible bugs the properties were tried against: replacing
the definition by its variant must break the property, so that no property
holds by the mere shape of the model.

### SingleFlight

`m` is `g.m`; `val` and `done` are the fields of each `*call` (`done` is "wg is at
zero"); `pc`, `ref` and `arg` are a goroutine's position, its local `c` and its
key. `Join` and `Lead` are the critical section at the head of `Do`; `FnReturn`
the assignment `c.val, c.err = fn()`; `Done` is `c.wg.Done()`; `Delete` the second
critical section and the leader's return; `WaitReturn` a waiter's; `FnPanic` a
panic of fn, after which the goroutine is out of `Do` and the call stays as it
is. `Call` is a finite heap: `Fresh` allocates an object that nobody reaches any
more, which is what makes a stale reference visible if there were one. `c.dup` is
left out, as it is never read.

`Coalescing` numbers the executions of fn per key and promises a caller the
result of the one last completed when it asked, or of a later one. It is the
exact promise: because `Done` precedes `Delete`, a caller may get a result that
was complete before it asked, but never one that had been superseded.

### LRU

`ll` is the list, front first; `cache` the keys in the map; `nBytes` the code's own
count. `Add` is an insertion or an update and then one `Evict` step per turn of
its loop. The history variables `use` and `placed` record the order of use and the
list as it was when the loop began. `CacheStore` is the lossy map that `Group`
relies on: `Get` answers the last value put or nothing, and whatever is forgotten
is reported.

### Group

Values are versions of the source's data. `Group` takes the steps of the loader by
name (`SF!Join`, `SF!Lead`, `SF!FnReturn`, ...) as conjuncts of its own actions, so
the order of `wg.Done()` and the delete is there as well. Between `SF!Lead` and
`SF!FnReturn` a goroutine is in the closure of `load`: at the test of `g.picker`,
at `PickPeer`, in `peer.Get`, in `getter.Get`, or before `populateCache`. Every
one of these is a step, and `Update` of the source, evictions, `RegisterPeers` and
the other goroutines come in between.

`RegisterPeers` stores a two-word interface value without a lock, and
`src/main.go` starts the API server before it calls it, so the write races with
`load`. A reader may see it half written ("torn"); calling `PickPeer` then
dereferences a nil pointer and panics. `PickPeer`'s answer depends on the ring and
is either; peers answer any version the source has had, or fail.

`ReadThrough` keeps a floor per key, the newest version the group itself has
cached, and promises that no `Get` begun after that is answered with an older
one, as long as no peers are registered. A peer's answer is not cached and may be
older: the floor says nothing of it. A panic in a load leaves its flight
registered, and later Gets of the key wait for ever: `GetReturnsUnlessPoisoned`
promises that every other Get returns.

### Cluster

`boot` is how far `main` has come on each node: the group is registered and the
API server runs, `Set` has been called, `RegisterPeers`, `ListenAndServe`. `ring` is
what `Set` made of its list; lists may differ from node to node, and a node may be
started again with another list. A goroutine's `req` is the Get it is in; the
leader of a flight walks through `load` (`at`), and if the ring sends it to
another node it becomes `"peer"`, then `"http"` while a `Handler` there, whose
`parent` it is, runs `ServeHTTP`. `Path` and `Parse` are the URL, symbol by symbol:
`httpGetter.Get` puts group and key together with nothing between them, and
`ServeHTTP` drops one symbol and cuts at the first slash. `Escaped` is what
`url.QueryEscape` does to them on the way: a space arrives as "+", everything else as
it was. Every failure (no
connection, a bad path, no such group, a node that crashes meanwhile) brings the
leader to its own getter. `Crash` empties a node, its goroutines included;
`Hang` leaves one that accepts connections and does not go on. Who waits for a
goroutine that is gone gets an error, or asks again, as net/http repeats a GET on a
connection that was used before (`Lose`).

`RegisterPeers` is two steps here too, "torn" between them: the API server already
runs, and a Get that finds one word of `g.picker` without the other panics in
`PickPeer` (`PickPanic`), as a load may in the getter (`GetterPanic`). net/http
recovers the panic of a handler, and the flight stays in the loader's map:
`poisoned` are those flights, which every later Get of the key on that node joins.
`GetReturnsUnlessHeldUp` excepts them, and nodes that hang, and nothing else.

Two things follow from how the path is cut. A request for a plain name is never
understood (finding `cluster_path`). And one that is understood is shorter than
the one it came from, by two symbols at least: that, and nothing in `PickPeer`, is why
nodes whose lists differ do not wait for each other in a circle (`WaitsDescend`).
With the format that the comment in `ServeHTTP` asks for, which is the variant
`PathSlashed`, they would.

### ConsistentHash

The hash function is arbitrary: `RingInit` chooses where every virtual node lies,
collisions included, and lookups are made for every position a key may hash to.
The sorted slice is a bag of positions, `Search` is the binary search in it with the
wrap-around, and `GetMultiple` the walk once round the ring. The properties are stated for
placements without collisions (`Injective`); with collisions the code loses
points (`hashMap` keeps one owner per position and `Remove`, here `RemovePeer`,
deletes it), and only
the type invariant is claimed. `TestHashing` in `consistenthash_test.go` is such a
case: its hash function maps "0:6", which is no number, to 0 like every other
virtual node, so that all points collide and the owner it expects for "23" is
not the one the code returns.

`SetWeight` takes the lock and calls `AddWithWeight`, which takes it as well: the
action leaves the lock taken for good, and the other properties hold beside it.
`Add` of a node that is already in the ring is left out: the only caller,
`HTTPPool.Set`, builds a new map each time.

### TTLCache and TTLGroup

A value is the time it was obtained. `Get` is `Read` (under the read lock), then
`CheckLive` or `CheckExpired`; the goroutine started by the latter is
`DeleteIfExpired`, which looks at the entry again; the worker is `WorkerTick`
(reads the clock), `Cleanup` (under the lock) and `WorkerStop`. `TTLGroup` adds
`GetWithTTL`: look, get from the group, set. Of the group only this matters here:
what it has cached does not expire, and is returned whatever its age, with a
new lifetime. The lifetime passed to `NewTTLGroup` is used nowhere in the code.

### FastLRU

An element of a shard's list is its key, and the root of the list its shard;
`links` holds their `next` and `prev`. What the code does under the write lock is
one step, the loop of `Add` one per turn. A `Get` has only the read lock when it
calls `MoveToFront`, so it assigns the pointers one after the other (`Assign`), in
the order of `container/list`, and another Get of the shard may do the same in
between; under the write lock the same assignments are one step (`Unlink`,
`PushFront`). The
history variable `raced` holds the shards where that has happened, until a `Clear`
makes their lists anew. `ListsIntact` says what holds for all others, `MovesAreSafe`
what holds even so; that a raced list can make a later `Add` panic, with the lock
held, is the finding `fastlru_race`. The limit is shared out by Go's integer
division: a share of 0 means no limit, and a negative one makes `Add` spin.

The counters are apart from the locks. `gets`, `hits` and `misses` are added to in
separate steps and loaded by `Stats` one at a time; `ResetStats` stores zeros one
at a time. `skewed` records that a reset has overlapped something, after which the
counters never add up again.

### Metrics

The same for `metrics.go`: `InstrumentedGroup.Get` records when `Group.Get` is over,
first its time, then that there was one more, then a hit or a miss; `todo` are the
counters that a recording, a `Stats` or a `ResetStats` has still to come to. A hit is
what the code records as one, a Get without an error (see section 4). `known` and
`hitsThen` are what `StatsErrsOneWay` compares the numbers of a `Stats` with: its
average time is not below the truth, and its hit rate not above that of the counters
when it loaded misses.

### RDB

A snapshot is the second in its name and a state: "torn" from the rename until the
deferred `gzip.Writer.Close` has written the contents (`Flush` only hands the bytes
to the compressor), then "gzip"; "plain" at once if compression is off. `Save` is
`SaveBegin`, `SaveRename` and `SaveClose`, with `rm.mu` held throughout; `Load` is
`LoadPick` and `LoadRead` under the read lock; a cleanup lists the directory and
removes its files one at a time with no lock at all. `Crash` ends the process
between any two steps: files stay, goroutines go. `SaveClose(FALSE)` is a Close
that cannot write; `Save` returns nil all the same. The names are local time in
seconds, so `SetBack` may put the clock back, and two Saves may share a name.
What a power failure does to files that were never fsynced is not modelled, nor
are temporary files, which nothing reads.

The history variables say what a Load may expect: `recent` (the file of the last
Save that returned nil, and those renamed since), `damaged` (files whose Close never
happened) and `untidy` (a cleanup did not do all its work).

`SnapshotStore` says what all this is to a caller: a Load happens at one instant,
when no Save is half way, and takes the newest snapshot of that instant if it is
whole; of snapshots only those with `Keep` newer ones are given up; a restart loses
none. A snapshot that shares its name with an older one replaces it. The rename is
its `Save`, the deferred closes its `Close`, `LoadRead` its `Load`; that the file was
picked a step earlier must make no difference. What a failed Load returns, and
that a Save whose Close fails returns nil, is left open there: `damaged` is for that.

### Persistence

`op` is what the holder of `pm.mu` is doing and at which step; every operation is a
chain of steps, each with its error return, which leaves everything as it then
is. `worker` are the goroutines of `backgroundWorker`, `log` the `AOFWriter` objects
with their file, stop channel and sync goroutine, `amWriter` is `am.writer`. The
callers of `OnSet` test `am.writer` and use it in two steps and not under `am.mu`.
A panic ends the process (`Die`) or, in a handler of net/http, only the call. A new
process may have another mode. `Save` returns nil with a good snapshot or, because
the deferred `Close` of the gzip stream goes unheard, with a torn one. `am.enabled`
is left out: it is false only while `am.writer` is nil. Snapshots are reduced to whether the newest can be loaded, and
logs to whether there is one, because `serializeEntry` returns nothing; for the
same reason `fileSize` stays 0 and `rotateFile` is never called.

`Replay` is a step that need not end: `ReadEntry` returns an entry whenever it is
called, and a log on the disk keeps `Start` in the loop, with `pm.mu` held.

## 3. The runs

The type invariant of a module is the first conjunct of the first invariant its
run checks, or (`SingleFlight`, `TTLGroup`, `RDB`, `Persistence`) a theorem of its
own; those of the other modules are theorems as a part of their invariants.

| run | instance | states | what it checks |
|---|---|---|---|
| `singleflight` | 3 goroutines, 2 keys (one may panic), 4 calls, 2 executions per key | 101 000 | `FlightInv`, `ResultIsStable`, `ImplementsCoalescing`, `DoReturns` |
| `lru` | 3 keys of lengths 1, 1, 2; values of lengths 1, 1, 3; limits -1, 0, 1, 3, 4, 6 | 20 000 | `IndexMatchesList`, `HoldsMostRecent`, `EvictsExactly`, `ImplementsCacheStore`, `AddReturns` |
| `group` | 3 goroutines, 1 key, 3 calls, 2 versions, panicking getter, limited cache, peers | 206 000 | `OneLoadPerKey`, `GroupInv`, `ImplementsReadThrough`, `GetReturnsUnlessPoisoned` |
| `consistenthash` | 3 nodes with 2, 1, 1 virtual nodes, all placements on 6 positions | 52 000 | `RingInv`, `LookupsFindMembers`, `MinimalDisruption` |
| `ttl` | 2 goroutines, 1 key, lifetimes 0 and 1, clock to 2 | 214 000 | `OnlyExpiredRemoved`, `ExpiredIsRemoved`, `WorkerEnds` |
| `rdb` | 1 reader, 2 cleanups, 1 file kept, names 0 to 2, with and without compression | 612 000 | `KeepsNewest`, `ImplementsSnapshotStore`, `NoTornRead`, `NoStaleLoad`, `Tidy` |
| `persistence` | all four modes, 2 workers, 2 writers, 1 caller | 47 000 | `NoLostWriter`, `RunningIsServed`, `StoppedMeansStopped`, `GoroutinesEnd`, `StartReturnsIfSaved` |
| `cluster` | 2 nodes, one with two lists of peers; groups "ssc", "sc" and "c"; keys "+", "/ ", "/+" and ""; one request per client, one getter that may panic; 2 clients, 2 handlers, 1 crash or hang | 80 000 | `ClusterInv`, `WaitsDescend`, `RingIsThere`, `AnswersAreOwn`, `GetReturnsUnlessHeldUp` |
| `fastlru` | 2 goroutines, 3 keys in 2 shards, limits -2, 1, 7, 8, two Gets, one reset | 1 957 000 | `ShardsIntact`, `MovesAreSafe`, `CountersAddUp`, `NewestStays` |
| `metrics` | 3 goroutines, durations 1 and 3, three Gets, one reset | 1 858 000 | `RecordsAddUp`, `StatsErrsOneWay` |
| `cluster_path` | as `cluster` | | violation of `RequestsAreUnderstood` |
| `fastlru_race` | as `fastlru` | | violation of `ConcurrencySafe` |

**Bounds.** `MaxRuns` bounds the executions led per key, `MaxVersion` the source's
versions, `MaxTime` the clock, `MaxPending` the deleting goroutines waiting per
key, `MaxFaults` crashes and hangs, `MaxGets` and `MaxResets` what is counted and
how often it is reset; `Call` is as large as the number of calls that can be
reachable at a time (one per goroutine and one per poisoned key), so it never
keeps a caller from leading. Three goroutines are the least that give a leader, a
waiter of the old flight and a leader of the next; two executions and two
versions the least in which an old result and a new one can be confused. One key
is enough for `Group` because its actions read and write one key's entry, an
eviction apart, which may hit the key at any store; two keys are needed for
`SingleFlight`, where calls move between keys. A ring of 6 positions for 4
virtual nodes has free positions before, between and after them, and all orders
round the ring. A clock of three instants is enough for an entry to be set, to
expire, to be looked up and to be set anew while the goroutine that found it
expired is still to run. In `RDB` the code keeps 5 files; with one kept, three
names give a cleanup two files to remove, so that two cleanups can be in the
middle of overlapping lists (four names, 16 million states, were checked once as
well). Two workers are the old one, still to notice the closed channel, and the
new one; two writers the one being closed, whose sync goroutine is still there,
and the next. In `cluster` the names are such that a request for "/ " of "ssc" is
taken for one of "+" of "sc", whose getter may panic, and the lists such that a node
may forward to itself
or to one that forwards back; two handlers and a client on each node give a waiter
and a leader of one flight that came from different nodes (the safety properties
were checked with two crashes or hangs as well, 476 000 states). Two Gets in a shard of
two elements are the least that damage a list; three keys leave another shard
beside it.

**Deadlock** is checked where the system never stops: `lru`, `ttl`, `rdb` and
`persistence` (in the last two the process may always be killed), and `cluster` (a
node can be started, resumed or have its peers set). It is not
in `singleflight` and `group`, where all goroutines may be waiting for poisoned
flights (or the bounds may be used up); nor in `consistenthash`, where every
goroutine waits for ever once `SetWeight` has been called; nor in
`fastlru` and `metrics`, where a
panicked `Add` keeps its lock, or the bounds may be used up. What must go on in
spite of that is said by the liveness properties.

**Fairness** is weak fairness of the steps a goroutine takes once it is in an
operation: Go's scheduler is preemptive and its mutexes hand over to starving
waiters; getters, fn and peers are assumed to return, fail or panic in the end.
Nobody is obliged to begin an operation. In `Cluster` this holds for the
goroutines of nodes that do not hang; `http.Get` has no timeout, so who waits for
a node that hangs may wait for ever, and so may who waits for a flight whose leader
panicked: `HeldUp` is these two and those who wait for one of them. In `TTLGroup`
the ticker and the clock go on, and the stop case of the worker's `select` is
taken under strong fairness, because Go chooses at random among ready cases and
the ticker's case cannot win for ever. In `Persistence` an operation goes on once
it is begun, except in `Replay`; the mutex and the `select` give strong fairness
to the worker's `autoSave` and to its stop case. `FastLRU` and `Metrics` are
checked for safety only: their operations have no loop but the one of `Add`, which
is `LRU`'s.

## 4. Findings

Two disagreements between the code and what is said of it are runs that end in a
violation:

- `cluster_path`: `httpGetter.Get` builds the URL as base, group and key with
  nothing between them (`http.go:104`); `ServeHTTP` requires
  "/<basepath>/<groupname>/<key>" (`http.go:49`). A request for a group and a key
  without slashes is answered with 400, and the node that asked loads the key
  itself: no plain key is ever fetched from a peer.
- `fastlru_race`: `FastLRU.Get` calls `MoveToFront` under `RLock`
  (`fast_lru.go:97`). Two Gets of a shard that overlap can make its list end at the
  root early; an `Add` that evicts then takes the root for an element, panics at
  the type assertion and keeps the shard locked. `COMPREHENSIVE_OPTIMIZATION.md:182`
  to `184` presents the sharded LRU as safe for concurrent use.

A third needs no run, as one Get shows it: `InstrumentedGroup.Get` records every Get
without an error as a hit (`metrics.go:199` to `203`), also when the getter or a peer
had to answer it. `RecordHit` is said to record cache hits (`metrics.go:41`), and the
example in the repository's `README.md` (lines 204 to 216) calls its Gets of
"unknown_key" misses (未命中) and prints their number, which is 0, as its getter never
fails. `Metrics` counts as the code does, and `StatsErrsOneWay` is about those counts.

What else the models show the code to do; each is the reason for a condition in a
property:

- A panic in a load, for which the race on `g.picker` suffices, makes every later
  `Get` of the key wait for ever (`Poisoned` in `GetReturnsUnlessPoisoned`, `poisoned`
  in `Obstructed`).
- `SetWeight` locks `m.mu` and calls a method that locks it: neither it nor any
  later call on the ring returns.
- `GetWithTTL` gives an expired value that the group still has a new lifetime;
  through `TTLGroup` nothing is loaded anew unless it was evicted.
- A process killed between the rename and the deferred Close of `Save` leaves a
  newest snapshot without contents, and `Load` tries no other (`damaged` in
  `NoTornRead`).
- A clock set back makes `cleanupOldFiles` take the newest snapshot for an old one
  (`setBack` in `NoStaleLoad`).
- `stopChan` is made once, so after `Stop` and a second `Start` no goroutine saves
  any more, and a second `Stop` panics (`~stopClosed` in `RunningIsServed`).
- A `Start` that falls back to `Replay` with a log on the disk never returns
  (`StartReturnsIfSaved`), and `Restore` writes `restore_<time>.rdb`, which `Load` does
  not look for. (`OPTIMIZATION_PROGRESS.md` ticks both as done: the replay of the log
  in line 59, 日志重放机制, backup and restore in line 65, 备份恢复功能.)
- `load` does not look into the cache again in its flight, so a goroutine that
  missed before another one's flight loads the key once more.
- `ResetStats` of both kinds of counters, overlapping a recording, leaves a
  difference for good (`skewed`).

## 5. Proofs

Every theorem holds for all values of the constants that satisfy the named
assumptions, with sets finite or not (the nodes of a ring are finite) and bounds of any size.
All proofs have one shape: an inductive invariant, lemmas that each step
preserves it, and the properties as its consequences. Every invariant and every
action property that a passing run checks is a theorem, and so are the four
refinements.

| module | theorems | from |
|---|---|---|
| `SingleFlightProofs` | `TypeCorrect`, `FlightsIntact` (`FlightInv`), `MutualExclusion`, `StableResults` (`ResultIsStable`) | `CallAssumption`, `ResultAssumption`, `PanicAssumption` |
| | `Implements` (`ImplementsCoalescing`) | the same, `HistoryAssumption` |
| `LRUProofs` | `MapAgrees`, `BytesAddUp` (`IndexMatchesList`), `RecentStay` (`HoldsMostRecent`), `EvictsNoMore` (`EvictsExactly`), `Implements` (`ImplementsCacheStore`) | `LenAssumption`, `LimitsAssumption`, `MissingAssumption` |
| `GroupProofs` | `OneLoad` (`OneLoadPerKey`), `GroupIntact` (`GroupInv`), `Implements` (`ImplementsReadThrough`) | `GroupAssumption` |
| | `GetsAddUp` (`RecordsAddUp`), `StatsErrs` (`StatsErrsOneWay`) | `MetricsAssumption` |
| `ClusterProofs` | `RingAlwaysThere` (`RingIsThere`), `ClusterIntact` (`ClusterInv`), `WaitingDescends` (`WaitsDescend`), `OwnAnswers` (`AnswersAreOwn`) | `ClusterAssumption` |
| | `RingOfMembers` (`RingInv`), `LittleMoves` (`MinimalDisruption`), `LookupsRight` (`LookupsFindMembers`) | `RingAssumption` |
| `TTLProofs` | `TypeCorrect`, `LiveEntriesStay` (`OnlyExpiredRemoved`) | `TTLAssumption` |
| `FastLRUProofs` | `BaseHolds`, `SoundHolds`, `NoNilPointer` (`MovesAreSafe`), `WholeUntilRaced` (`ShardsIntact`), `NewestRemains` (`NewestStays`), `CountersRight` (`CountersAddUp`) | `FastLRUAssumption` |
| `PersistenceProofs` | `TypeCorrect`, `NoWriterLost` (`NoLostWriter`), `RunningServed` (`RunningIsServed`), `StoppedStays` (`StoppedMeansStopped`) | `PersistenceAssumption` |
| | `RDBTypeCorrect`, `NewestKept` (`KeepsNewest`), `NeverTorn` (`NoTornRead`), `LoadsAreRecent` (`NoStaleLoad`), `StaysTidy` (`Tidy`), `SnapshotsAreStored` (`ImplementsSnapshotStore`) | `RDBAssumption` |

The assumptions say that the special values (no call, no value, an error) are
none of the ordinary ones, and of what type the parameters are. `ClusterAssumption`
also says that names and keys are sequences of symbols and that what follows a
slash in a request's path is a key; `RingAssumption` that the nodes are finitely
many and the ring has a position. Lengths may be zero, limits negative, weights
anything.

**Sums and induction.** The library's induction theorems have an operator as a
parameter and cannot be used. `SumTheorems` takes a set for a predicate instead: from
the well-foundedness of `<` and of strict inclusion it has that a set of numbers that
is not empty has a least element (`LeastNumber`), so that a set which holds 0 and
with each number the next holds all (`NumberInduction`), and that a set of finite
sets has a minimal one (`MinimalSet`). From these follows what
`SumFunctionOnSet` of the community modules does when an element is added, removed,
changed or renamed. Recursive functions
(the walk of `GetMultiple`, the way along a shard's list) are reasoned about with
`NumberInduction` too.

**SingleFlight.** `OneLeaderPerKey` alone is not inductive: a second leader is kept
out because the first one's call is still in the map, which is so only if nobody
else deletes it, and `doCall` deletes whatever call its key has. So
`LeaderIsRegistered` (the call a leader works on is the one registered for its
key) is proved together with it; from it two leaders of one key would work on the
same call, and the allocation of a free call excludes that. `OneKeyPerCall` carries
this over to different keys. `DoneAfterStored` and `DoneHasResult` say that a call
that lets waiters through has a result, and need that a call in use is never
allocated again (lemma `FreshIsFree`). `FlightInv` is the conjunction.

**Coalescing.** `HistoryInv` adds when results were made: a leader's execution is
the last of its key until it deletes the call (`LeaderIsLast`, which is the mutual
exclusion above at work), so a call that is complete and can still be joined has
the newest result there is, and one that waiters hold a result no older than
their request (`JoinedIsCurrent`).

**LRU.** The list is read as a map, `View`; the lemmas `InsertedFront`, `MovedToFront`
and `BackDropped` say what the three changes of the list do to it, and `IInv` that
the map has the list's keys, one element each. Then a hit leaves the view as it
is, `Add` puts and `Evict` forgets. `FullInv` adds the list as a list. A list without
duplicate keys weighs what its keys do in its view, in whatever order
(`BytesByKey`), so a move changes no byte count and the rest is a sum with one
element more, less or changed. `RecencyInv` is that the list is a beginning of the
history of uses; `LoopInv` that in Add's loop it is a beginning of the list the loop
found, and that with one entry more it would be over the limit: the rest of
`EvictsExactly` is that a longer beginning weighs no less.

**Group.** The facts about the loader are proved again in terms of `Group`'s
instance, since a theorem is not carried through INSTANCE. `InStep` ties where a
Get is to where its `Do` is. `LoadAboveFloor` is the heart of `ReadThrough`: only the
leader of a key raises its floor, so between a getter's return and `populateCache`
the floor stands still, although the source and the cache change. `Registered` and
`Held` say that whatever a call holds lies between the floor, as it was at the
request, and the source's present version; a goroutine that joins late is safe
because `Holders` keeps a call with its key. `FlightAboveFloor` follows.

**Cluster.** `IInv` has `RingSet` (a node that has called `Set` has a ring),
`Picking` (a goroutine that picks is on a node that wrote `g.picker`, or half of it)
and `Procs`: `Busy` (a goroutine's fields belong together), `Families` (each waiting
leader has one handler, each handler one parent), `Flights` (a flight has one
leader, or is poisoned and has none) and `Unforwarded` (a request from outside has
not been cut). `Forwarded`
shows from `ParsePath` that a request on the next node is shorter, and that a plain
one gets nowhere.

**ConsistentHash.** `RingIInv` says of every position that it is empty, or one virtual
node of one member that the map has there (`OwnerAt`), and that the points a node
is going to remove are those it added (`Placed`): `SetWeight` changes a weight, but of
a node that has just left, and after it nothing is added. From the least number in
a set, `Search` finds the point with the least `Distance` (`SearchNearest`), and is the
only one to (`SearchOnly`); a point more or less changes the lookups that end at it
and no other (`JoinMovesOnly`, `LeaveMovesOnly`). For `GetMultiple`, `Found` says of
each step of the walk that the result has the members met so far, each once, or is
full; after a whole round all have been met.

**Metrics.** `PlanInv` lists what can be left of a recording, a `Stats` and a
`ResetStats`. With it `CountInv` is the property itself, the set of recordings being
finite, and `LoadInv` says at each load of `Stats` what it has loaded is bounded by:
the counters, and for hits `hitsThen` from the load of misses on.
`ResetInv` carries both through a `ResetStats` that overlaps nothing: what it has come
to is zero and nobody else is at the counters.

**FastLRU.** A race may damage a list, so there are two invariants. `Base` holds
always: who holds which lock (`Calls`), and that pointers stay in their shard, that
an entry in the map has both of its own, and that none leads to an element
without a value (`Pointers`). `MovesAreSafe` follows, as the element a Get moves is in
the map while the read lock is held. `Sound` holds for a shard that no race has
reached: its list is whole or, if a Get is moving an element, as far as the six
assignments have come (`Stage` describes the list before each). That the list is
one circle is said without recursion: no part of it that contains the root is
closed under `next` (`Loops`); that walking it meets every element, as `Intact` has
it, is then shown with `NumberInduction` and a count of the elements met. The last
element of a whole list that is not empty is not its root, so an Add in a sound shard
does not panic. `Restrained` bounds each shard by its share and the sum
by the limit; `Newest` says of an Add in its loop that its entry is still in front
or did not fit by itself. `Tally` is for the counters what `MetricsInv` is for
those of `Metrics`.

**TTL.** `InHand` and `ReadBefore`: the clock as a cleanup read it is never ahead of
the clock, so what had expired for it has expired.

**RDB.** A cleanup's list is a thing of the past, but every file on it has `Keep`
newer ones, and when another cleanup removes one of these, that one had `Keep`
newer ones itself (`NewerKept`). So the newest file is on no list, whatever the
clock does, and stays the newest while a Load holds the read lock (`PicksAreTop`,
with `SaveExcludesLoad`). `NamesInOrder` adds that without a clock set back the
newest name belongs to the last Save, `TornKnown` that a torn file is being saved or
is in `damaged`, and `CleanupComes` with `SparedAreFew` that what no list has is at
most `Keep` files. The steps of `SnapshotStore` follow: the file a Load reads is the
newest at that moment (`LoadReadLoads`, from `PicksAreTop`), and the one a cleanup
removes has `Keep` newer ones at that moment (`CleanRemoveGivesUp`, from `KeepsNewest`).

**Persistence.** `Order` says at which steps of an operation the manager, its log
and its workers may disagree: `ClosingInOrder` and `RunningFits` for the log that is
being closed, `Served` and `Stopped` for the two properties at every step of an
operation, where `LogAway` names the steps at which the log may be closed although
nothing has failed.

Only model-checked: liveness (`DoReturns`, `AddReturns`, `GetReturnsUnlessPoisoned`,
`ExpiredIsRemoved`, `WorkerEnds`, `GoroutinesEnd`, `StartReturnsIfSaved`,
`GetReturnsUnlessHeldUp`), which is out of the prover's reach, and the two
violations.

## 6. What could be added

- `ConsistentHash` as the ring of `Cluster`, in place of an arbitrary function.

## 7. Not modelled

- `pool.go`: nothing in the repository calls the pools, so there is no use of
  them to model.
- `byteview.go`, an immutable value, and `cmd/examples`, a demonstration.
- `rotateFile`: the size it tests stays 0 (see Persistence). `rewriteWorker` does
  nothing.
- `UpdateSize` and the counters of evictions and peers in `metrics.go`: nothing
  calls or adds to them.
- `OnEvicted` of `FastLRU`, called after the lock is given up; of several entries
  that one `Add` evicts it hears of the last only. `fastHash` and `nextPowerOfTwo`
  are constants of the model, and so are the hash functions of the ring.
- A second `NewGroup` of a registered name, which replaces the group.
- Logging, the contents of values, and read-only accessors (`Len`, `GetKeys`, ...).
