# TLA+ models of learning-go

The repository is a collection of Go packages kept for study. Its largest
piece with shared state, the bounded-load consistent-hashing ring of
`src/consistent-hashing/lafikl_consistent/consistent.go`, is the one
`spec.md` describes. This directory holds the TLA+ specifications of the
repository's components, the TLC configurations that check them, and
`PROJECT.json`, which lists the components, the runs, the source lines every
definition models, the findings and the hazards.

Check a run with `tlc -workers 2 -config <run>.cfg <module>`; the module of
each run is given in the table of runs below and in `PROJECT.json`.

## 1. Inventory

| Component | Source | State | Operations | What is hard |
|---|---|---|---|---|
| Consistent-hashing ring with bounded loads | `consistent-hashing/lafikl_consistent/consistent.go` | `hosts` (position -> host), `sortedSet` (positions, ascending), `loadMap` (host -> load), `totalLoad`, an RWMutex | `Add`, `Remove`, `Get`, `GetLeast`, `Inc`, `Done`, `UpdateLoad`, `Hosts`, `GetLoads`, `MaxLoad`; helpers `search`, `loadOK`, `delSlice`, `hash` | `Inc` and `GetLoads` take no lock; `GetLeast` loops under the read lock with no bound; `Remove` leaves `totalLoad` alone; `loadOK` and `MaxLoad` write `totalLoad` from read paths; the caller's GetLeast, Inc, Done are separate calls |
| Skip list | `fast_skiplist/skiplist.go` | `level`, `len`, `head.next[]`, per-node `next[]`, `prevsCache` | `Insert`, `Remove`, `Find`, `Has`, `LowerBound`, `UpperBound`, `FindRange`, `Clear`, iterators, `randomLevel`, two search implementations (ordered keys, compare function) | pointer surgery over several levels; `randomLevel`'s cap on the list length; iterators that outlive a `Remove` |
| SCP upload | `go-scp/client.go`, `go-scp/configurer.go` | the configurer's four options and the `Client` copied from them, an SSH session, a WaitGroup of 2, an error channel of capacity 2, a timer | `NewConfigurer`, its setters, `Create`; `Connect`, `Copy` (two goroutines: the protocol writer and `Session.Run`), `waitTimeout`, `checkResponse`, `Close` | the two goroutines race for the session (pipes must be taken before the command starts); the timeout races the completion; goroutines outlive a timed-out `Copy` |
| Rebalance of a key-value store | `minikeyvalue/rebalance.go` | the index database, the volumes' objects, a channel of requests, a WaitGroup, 16 workers | `Rebalance` (producer), the worker loop, `rebalance` (head, get, put, put record, delete) | any remote step may fail after earlier ones took effect; the index must never name a volume without the object |
| Byte-slice reader | `bytes/reader.go` | `s`, `i`, `prevRune` | `Read`, `ReadAt`, `ReadByte`, `UnreadByte`, `ReadRune`, `UnreadRune`, `Seek`, `WriterTo`, `Reset`, `Len`, `Size` | `prevRune` must be invalidated by every operation but `ReadRune`; `Seek` may leave `i` beyond the slice or overflow |
| Log record codec (kalasa) | `key-value-learn-project/kalasa/encoding.go`, `option.go` | the package variables `encoder`, `Secret`, `Root`, `defaultMaxFileSize`, `HashedFunc`, `index`, `fileList`; the data file and the index file | `Write`, `Read`, `binaryEncode`, `binaryDecode`, `parseLog`, `bufToFile`, `WriteIndex`, `ReadIndex`, `Validation`, `SetEncryptor`, `SetIndexSize`, `SetHashFunc` | a torn write; a record whose CRC does not match; an index restored after a restart; the encoder changed between a write and a read |
| Entry codec (minidb) | `key-value-learn-project/mini-bitcask-key-value-db/minidb/entry.go` | none | `NewEntry`, `GetSize`, `Encode`, `Decode` | `Decode` returns the header only |
| OTP key | `OTP/nice_opt/otp.go` | none (a parsed URL) | accessors, `Digits.Format` | nothing stateful |
| Import scanner | `go-concurrency-in-practice/src/pkgtool/ipath.go` | none (the locals of one scan) | `getImportsFromGoSource`, `getImportsFromPackage` | string predicates over lines; sequential |
| epoll echo server | `epoll/simple_epoll_example.go` | the listening socket, the epoll set, the descriptors of the connections, one goroutine per event | `main` (set-up, `EpollWait`, `Accept`, `EpollCtl`, `go echo`), `echo` (`Read`, `Write`, deferred `Close`) | edge-triggered events are reported once; several goroutines hold the number of one descriptor, which the kernel gives out again once it is closed |
| Examples and generated code | `endless/example.go`, `uiprogress/example/multi.go`, `wire/example2/wire_gen.go`, `go-tagexpr/example.go`, `wkhtmltopdf-go/example/example_cmd.go`, `cache-lib-in-golang-set/ttlcache/evictionreason_enumer.go`, `etcd/.../helloworld.pb.go` | none of their own | `main` functions that call libraries outside the repository; generated stringers and protobuf bindings | nothing of the repository's own to check |

Correctness, per component:

* **Ring.** The map, the slice and the load table describe one ring; `Get`
  returns the owner of the key's successor; `Add` is idempotent; `GetLeast`
  returns the first host clockwise that may take one more request, and
  returns at all; `totalLoad` follows the loads; a client that follows
  GetLeast, Inc, Done is never hurt by a concurrent `Add` or `Remove`.
* **Skip list.** It is a sorted map: every level is a sorted sub-list of the
  level below, `len` and `level` agree with the nodes, and every lookup
  answers as the map does, in both search implementations.
* **SCP upload.** `Copy` returns once, with the first error or nil; nil
  means that the remote has the file; no goroutine is left behind; a
  healthy transfer succeeds whatever the scheduling (it does not: section
  7).
* **Rebalance.** An object that existed is never lost; the index names only
  volumes that hold the object; `Rebalance` returns after every request was
  handled.
* **Reader.** The bytes handed out are the slice from the position on;
  `UnreadRune` undoes exactly the preceding `ReadRune`.
* **Codec.** What `Read` hands out is what a `Write` put there; a damaged
  record is refused, never mistaken for another item; a record of the
  index, restored or not, points at an item of its key.
* **Echo server.** No arrival on a connection goes unnoticed; what a client
  sends comes back to it, and to nobody else; the descriptor of a
  connection that is over is closed.

## 2. Plan

Modules, in the order they are written (the ring first: it is what the
spec describes and the only structure the repository shares between
goroutines by design):

1. `Consistent` - the ring, one action per method, goroutine-indexed.
   `Ring` - the abstract ring (a set of members, the successor rule);
   `Consistent` implements it under a refinement mapping. `MCConsistent`.
2. `Requests` - `Consistent` composed with clients that follow the
   GetLeast, Inc, Done discipline and an administrator. `MCRequests`.
3. `SkipList` - the skip list, with `SortedMap` as its abstract
   specification and the two search implementations compared.
4. `ScpCopy` - `Copy`, its two goroutines, the timer and the session.
5. `Rebalance` - producer, workers and the remote steps with failures.
6. `Reader` - the byte reader against a cursor over a sequence.
7. `ItemLog` - the kalasa record codec over files that can be torn, the
   index file and the options.
8. `Epoll` - the echo server: main's event loop, the echo goroutines, and
   the kernel's descriptor table and epoll set between them.

The ring has four runs (below); each of the other components has one
passing run, and the SCP upload and the echo server a second one, which
states what the code is there to do and is expected to fail. A finding
that no run shows stands on the source lines it names. All eight steps are
done. The minidb entry codec, first planned as operators of `ItemLog`, and
the import scanner are left out (section 10).

## 3. The ring: `Consistent`, `Ring`, `Requests`

### State and actions

`Consistent` has the four fields of the Go struct as variables (`hosts` and
`loadMap` as functions whose domain changes, `sortedSet` as a sequence,
`totalLoad` as an integer) and four variables for the goroutines: `readers`
(who is between `RLock` and `RUnlock`), `pc` (`"idle"`, `"GetLeast"`,
`"Inc"`, `"GetLoads"`), `walk` (the locals of the loop a goroutine is in:
GetLeast's `idx` and `i`, or the map GetLoads is filling and the keys its
`range` began on) and `ret` (what each goroutine's last call returned).

| Go | TLA+ | Steps |
|---|---|---|
| `New` | `Init` | |
| `Add` | `AddKnown`, `AddNew` | one step under the write lock (`CanLock`: no reader inside); `AddNew` includes the append of the virtual nodes and `sort.Slice` |
| `Get` | `GetNoHosts`, `GetOwner` | one step |
| `GetLeast` | `GetLeastNoHosts`, `GetLeastEnter`, then `GetLeastFound` or `GetLeastAdvance` per loop iteration | the read lock is held from `GetLeastEnter` to `GetLeastFound`; each iteration includes `loadOK`'s clamp of a negative `totalLoad` |
| `UpdateLoad` | `UpdateLoadUnknown`, `UpdateLoadKnown` | one step |
| `Inc` | `IncPanic`, or `IncLoad` then `IncTotal` | no lock; one step per atomic add |
| `Done` | `DoneUnknown`, `DoneKnown` | one step |
| `Remove` | `Remove` | one step; `delSlice` is applied once per virtual node, with its own loop (which skips the element after a deletion) |
| `MaxLoad` | `MaxLoadPanic`, `MaxLoadReturn` | no lock; writes `totalLoad` |
| `GetLoads` | `GetLoadsEnter`, then `GetLoadsVisit` per entry, `GetLoadsReturn` | no lock: the `range` over `loadMap` is one step per entry it visits, and every other method can run between two of them. It visits every entry that was there from its start to its end, and may or may not visit one added meanwhile |
| `Hosts` | state function `Hosts` | under the read lock |
| `search`, `loadOK`, `delSlice` | operators of the same names | `sort.Search` is the bisection `sortSearch` |

A method that holds the write lock from its first statement to its deferred
unlock is one step: the only code that can run beside it is `Inc`, whose
atomic adds commute with it. A panic is an outcome: the goroutine's `ret`
becomes `"panic"` and the state is as the code left it at that point.

Data abstraction. `hash` is a constant function from replica names and keys
to numbers, injective on replica names (a 64-bit digest of a handful of
names). `fmt.Sprintf("%s%d", host, i)` is the pair `<<host, i>>`.
`math.Ceil(avg * 1.25)` on an integer-valued `avg` is `(5 * avg + 3) \div 4`,
and Go's truncating division is `Quot`.

Go's RWMutex makes a new reader wait while a writer waits; the model lets
the reader in. For the safety properties this changes nothing (the writer
may as well not have called yet); for liveness it only adds behaviours.

`Ring` is what `Add`, `Remove` and `Get` promise: a set `members`, and
`Locate` answering with the member that owns the least virtual node at or
after the key's digest, wrapping to the least one. The refinement mapping is
`members <- DOMAIN loadMap` and `answer` <- the last result of each
goroutine's `Get`, `Add` or `Remove`.

`Requests` restricts the goroutines: clients call `GetLeast`, then `Inc`
with the host they got, then `Done` with it, as the comments on `Inc` and
`Done` ask; administrators call `Add` and `Remove`; monitors call
`GetLoads`. It adds no variables: a client's place in its request is read
off `ret`.

### Runs

| Run | Module, cfg | Result | What it shows |
|---|---|---|---|
| `ring_api` | `MCConsistent`, `ring_api.cfg` | passes | one goroutine, every method in every order, three hosts of two virtual nodes: `TypeOK`; `RingWellFormed`; `WalkInsideRing`; `ImplementsRing` (refinement of `Ring`); `GetLeastFirstEligible`; `AccountingKept`; `GetLeastReturnsWhenCovered` |
| `getloads_torn` | `MCRequests`, `getloads_torn.cfg` | violation | `GetLoadsCountsOnce`: a client, an administrator and a monitor on two hosts. The monitor reads `h1` with the client's request on it, the request ends and the client's next one is counted on `h2`, the monitor reads `h2`: the map it returns has two requests of one client |
| `requests` | `MCRequests`, `requests.cfg` | passes | three clients and an administrator on two hosts: `InFlightCovered`, `TotalCoversLoads`, and the liveness property `GetLeastReturns` |
| `inc_after_remove` | `MCRequests`, `inc_after_remove.cfg` | violation | `Remove` between a client's `GetLeast` and its `Inc` makes `Inc` dereference nil |

### Bounds

* `ring_api`: hosts `h1, h2, h3` at positions 20/25, 40/50, 30/90, so that
  a walk from `h2` meets `h3` at the last index before it wraps to `h1`;
  keys at 10 (before all positions), 25 (exactly on a position), 45
  (between two) and 95 (past the last: the wrap to index 0).
  Loads range over -1..3 and the total over -2..4 (`MinHostLoad`,
  `MaxHostLoad`, `MinTotalLoad`, `MaxTotalLoad`, guards of the steps that
  count): enough for every host to be ineligible in turn, for the clamp of a
  negative total, and for `MaxLoad`'s write. `UpdateLoad` takes 0 and 2.
* `requests`: three clients are the least number that makes a host
  ineligible on two hosts (two requests on one host, a third arriving), so
  that `GetLeastAdvance` happens; loads stay within -3..3 because each client
  holds one request.
* `getloads_torn`: one client, so that any sum above 1 in what `GetLoads`
  returns is a request counted twice; two hosts, the least number for a
  request to move between two reads.
* `ring_api` has 176,080 distinct states, `requests` 460,733.

### Fairness

`Fairness` is weak fairness of `GetLeastStep(t)`, `IncTotal(t)` and
`GetLoadsStep(t)` for every goroutine: a goroutine that is inside
`GetLeast`'s loop, between `Inc`'s two adds or inside `GetLoads`' range is
runnable and the Go scheduler runs it. Nothing obliges a caller to start a
call, so no other action is fair. Both passing runs check their liveness
property under it.

### Findings

* `sum(load) = totalLoad`, the invariant of the spec's section 8, is not
  an invariant of the code: `MaxLoad` writes 1 over a total of 0, `Remove`
  keeps the removed host's load in the total, and `loadOK` lifts a
  negative total to 0. `AccountingKept` holds with exactly these three
  steps as its exceptions, and with any of them taken out TLC finds a step
  that parts the total from the sum.
* `GetLeast` has no exit but an eligible host. With `totalLoad` at or above
  the sum of the loads there always is one (the least loaded host passes the
  threshold): `GetLeastReturnsWhenCovered` says so of every walk that begins
  in such a state, whatever calls came before, and `requests` passes because
  clients that follow the discipline keep the ring in such states. A total
  below the sum, which `Done` beyond `Inc` followed by `Remove` produces,
  removes that guarantee: without the premise TLC finds, on the instance of
  `ring_api`, a walk that never ends. The cause the spec suspects (a burst
  of `UpdateLoad`) cannot: `UpdateLoad` keeps the total equal to the sum.
* `GetLoads` reads `loadMap` without the lock the other readers take. Beside
  the data race, what it returns need not be the loads of any one moment
  (`getloads_torn`); the spec's section 5 asks for linearizable methods.
* `Inc` panics when the host was removed after `GetLeast` returned it.
* `Remove` returns true for an unknown host; the spec says false.
* `MaxLoad` uses `totalLoad / n`, admission uses `(totalLoad + 1) / n`.

## 4. The skip list: `SkipList`, `SortedMap`

### State and actions

| Variable | Code | |
|---|---|---|
| `impl` | `sl.impl` | `"ordered"` (`NewSkipList`) or `"func"` (`NewSkipListFunc`) |
| `level`, `len` | `sl.level`, `sl.len` | |
| `head` | `sl.head.next` | `MaxLevel` pointers; levels are 0-based in the code and in `next(n, i)`, sequences 1-based |
| `node` | the nodes on the heap | a function from node names to `[value, next]`; `Len(next)` is the height of the tower |
| `it` | the `skipListIterator` the caller holds | `[node, end]`, or `NoIter` |
| `result` | what the last call returned | `[op, arg, val]`; `val` is `Panic` when the call panicked |

| Action | Method |
|---|---|
| `Insert` = `InsertExisting`, `InsertNew`, `InsertOverflow` | `Insert`: overwrite the value; link a new tower (`Spliced`); link it and panic on `sl.head.next[skipListMaxLevel]` |
| `Remove` = `RemoveAbsent`, `RemovePresent` | `Remove`: `Unlinked` is the loop over `node.next`, `Lowered` the loop over `sl.level` |
| `Clear`, `Find`, `Has` | the same |
| `Iterate`, `LowerBound`, `UpperBound`, `FindRange` | the same; each replaces the iterator the caller holds |
| `MoveToNext`, `IteratorPanics` | one turn of the caller's loop `for ; it.IsNotEnd(); it.MoveToNext()`; `Key` on an iterator whose node is nil |
| `Restart` | after a panic the program builds a new list |

`IsEmpty`, `Length` (`Len`) and `ForEach` are state functions. The searches
are recursive operators, one family per implementation: `walkOrdered`,
`prevsOrdered` and what is built on them for `skipListOrdered`, `walkFunc`,
`prevsFunc` and theirs for `skipListFunc`, which calls `keyCmp`. An action
calls them through `findNode`, `lowerBound`, `upperBound`,
`findInsertPoint`, `findRemovePoint`, which dispatch on `impl` as the
interface does. `prevsCache` is the value `prevs` the walks build: every
search writes the levels it returns before anything reads them.

### Data abstraction

* Keys are small integers, values model values. `randomLevel`'s random
  number is its bit length, drawn from `0 .. MaxLevel`; the level is
  `MaxLevel - bitLen + 1`, lowered by the source's loop while
  `1 << (level - 3)` exceeds `len`.
* A node's address is its name: `<<key, "live">>` while the node is linked
  into level 0, `<<key, "held">>` once it is unlinked and only the iterator
  reaches it. `Settled` is the garbage collector: after every call it keeps
  the list and what the iterator can walk to. Of an unlinked node it keeps
  the key, the value and `next[0]`, which is all an iterator reads; an end
  node that is no longer ahead of the iterator becomes `Gone`, since
  `IsNotEnd` can only ever find it different. A strictly ascending path
  holds one node per key, so the two names are enough.
* An iterator that stands on its end is dropped (`NoIter`): `IsNotEnd` is
  false and nothing more can be done with it.

### Runs

| Run | Module, cfg | Expect | Properties |
|---|---|---|---|
| `skiplist` | `MCSkipList`, `skiplist.cfg` | pass | `TypeOK`, `WellFormed`, `SearchesCorrect`, `RandomLevelFits`, `ImplementsSortedMap`, `IteratorKeepsPath` |

* `WellFormed`: between calls every level in use is strictly ascending, a
  node stands on exactly the levels of its tower, nothing is linked above
  `sl.level`, `sl.level` is the tallest tower, `Len` and `IsEmpty` count
  level 0.
* `SearchesCorrect`: in every reachable state and for every key, the five
  searches of both implementations return what definitions over level 0
  (`Holder`, `Ceiling`, `Above`, `Before`) say, `prevs` included. Because
  both implementations are checked in every state, they also agree with
  each other.
* `RandomLevelFits`: for every number `sl.rander` can draw, `randomLevel`
  gives a level of `sl.head.next`, except for the number 0 once the list
  holds `1 << (skipListMaxLevel - 2)` entries: the off-by-one of line 224
  is hidden by the loop on `sl.len` exactly up to that length.
* `ImplementsSortedMap`: `SkipList` implements `SortedMap` with
  `dict <- Content` (the map `ForEach` shows) and `out <- result`.
  `SortedMap` fixes, for each call and argument, the new content and the
  answer; it allows an `Insert` of a new key to fail, and says nothing of
  which key `MoveToNext` yields.
* `IteratorKeepsPath`: a step that does not replace the iterator never
  takes from its path a node that stays in the list, except that
  `MoveToNext` leaves the node it stood on. This is what makes a walk under
  `Remove` and `Clear` see every entry that was there throughout.

### Bounds

Three keys, one value, `MaxLevel = 3`, one iterator. Three levels is the
least number at which the length cap of `randomLevel` is in force (it acts
on levels above 3): level 4, one past the head's array, is lowered to 3 on
a list of fewer than two entries and overflows on a longer one, which is
the source's behaviour at 41 levels and 2^38 entries. Three keys give every
position an insertion or removal can have (first, between, last) on every
combination of tower heights. With a single value `InsertExisting` changes
nothing but `result`; a second value multiplies the states by sixteen and
was left out. The run has 53,166 distinct states and needs no constraint.

Deadlock is checked: some call is always possible.

### Findings

* `FindRange` includes `last`, because its end is `upperBound(last)`; its
  comment says `[first, last)`. `FindRange` is modelled as the code has it
  and no property of the run speaks of the end of its range.
* `randomLevel` can return `skipListMaxLevel + 1`; the length cap hides it
  until the list has 2^38 entries.
* A `FindRange` iterator whose end is behind its start, or whose end node
  is removed during the walk, runs to nil and panics in `Key`.
* `NewSkipList` and `ForEachMutable` do not compile as written.

## 5. Rebalance: `Rebalance`

### State and actions

| Code | Model |
|---|---|
| `a.db` (key -> `Record.rvolumes`) | `db` |
| the objects on the volume servers | `store` (volume -> keys held) |
| `iter` over the database | `todo`, the keys still to come |
| `reqs`, `close(reqs)` | `reqs` (a sequence of at most `Capacity` requests), `closed` |
| `wg` | `wg` |
| the goroutine of `Rebalance` | `main`: `iterate`, `send` (the request is counted and not yet sent), `wait`, `returned` |
| a worker goroutine and the locals of its `rebalance` | `worker[w]`: `pc`, `req`, `rv` (`rvolumes`), `i` (the loop index), `delErr` |
| what `rebalance` returned (the worker drops it) | `outcome[key]`, kept for the properties |

| Action | Code |
|---|---|
| `Iterate`, `Close`, `Wait` | the loop over the iterator, in two steps (`Counts`: the next key and `wg.Add(1)`; `Sends`: the send, which waits while the channel is full), `close(reqs)`, `wg.Wait()` |
| `Receive(w)`, `Exit(w)` | `for req := range reqs`, and its end on a closed and drained channel |
| `RemoteHead(w)` | one `remote_head` of the first loop; after the last one, `Decided`: missing, nothing to do, or the move |
| `RemoteGet(w)` | `remote_get` from `rvolumes[0]` |
| `RemotePut(w)` | one `remote_put`; `ThenPut` finds the next volume with `needs_write` |
| `PutRecord(w)` | `a.PutRecord(req.key, Record{req.kvolumes, ...})` |
| `RemoteDelete(w)` | one `remote_delete`; `ThenDelete` finds the next volume with `needs_delete`, or returns `!delete_error` |
| `Hangs(w)` | a `remote_get`, `remote_put` or `remote_delete` that never comes back: the worker stays at `hung` |

Every remote call is one step; the decisions between two calls are part of
the step before them, and the last step of `rebalance` includes the
worker's `wg.Done()` (`Finishes`). Every call may fail: `remote_head` and
`remote_get` answer with an error or with what the volume has; a
`remote_put` or `remote_delete` that reports an error may have taken
effect or not; `PutRecord` writes or fails. The initial `store` is any
assignment of keys to volumes, so the index may name volumes that lost
their object, and an object may be nowhere.

Failing is not all a call can do. `remote_head` is given a timeout of a
second; `remote_get`, `remote_put` and `remote_delete` are given none, so
a volume that takes the request and never answers holds the worker for
good. `Hangs(w)` is that case: from a `get`, a `put` or a `delete` the
worker goes to `hung` and takes no further step, and whether the volume
carried out the put or the delete before it fell silent is left open.

The functions `rebalance.go` calls are not in the repository. They are
modelled by their contracts: `remote_head` tells whether the volume has
the object (or gives up), `needs_rebalance` tells whether the two slices
differ, `key2volume` is the constant `Target`, and the iterator yields
every key once with the record of the database. The bytes of an object
are left out: a volume has the object of a key or has not.

### Runs

| Run | Module | Expect | Properties |
|---|---|---|---|
| `rebalance` | `MCRebalance` | pass | `TypeOK`, `NeverLost`, `IndexTruthful`, `SuccessMeansPlaced`, `AllHandled`, `RebalanceReturns` |

* `TypeOK` holds the bound that the order of `wg.Add(1)` and the send
  keeps: the counter of the WaitGroup is never negative. A worker can call
  `wg.Done` as soon as the request is in the channel; with the send before
  the `Add` the counter falls to -1, where `sync` panics.
* `NeverLost`: no step takes the last copy of an object.
* `IndexTruthful`: `PutRecord` writes only volumes that hold the object,
  and a record that names only holders keeps doing so.
* `SuccessMeansPlaced`: a `true` from `rebalance` means the object is on
  every volume the key maps to.
* `AllHandled`: `Rebalance` returns only after every key went through
  `rebalance` and every worker is at rest.
* `RebalanceReturns`: `Rebalance` returns unless a remote call hangs.
  Every path out of `rebalance`, the early returns included, reaches
  `wg.Done()`, the channel is closed after the last send, and no worker
  is left waiting on it. A hung call is the one thing that holds
  `Rebalance`: with one worker hung the others may still drain the
  channel, and `wg.Wait()` never passes (see the findings).

What the run does not claim, because the code does not do it: a volume
whose `remote_head` timed out keeps its copy, which no record names any
more; and when the volumes that answered are exactly `kvolumes`,
`rebalance` returns `true` without writing the record, which may name
more volumes than the key maps to. Both are listed as a hazard.

### Bounds and fairness

Three keys, three volumes, two workers, `Capacity = 1`. `k1` moves from
`v1, v2` to `v2, v3` (one volume to write, one to keep, one to delete
from); `k2` is recorded on `v3, v2` and maps to `v2, v3` (the same volumes
in another order: a record to rewrite and nothing to move); `k3` moves
from `v3` to `v1` (its only copy is on a volume it leaves). Three keys are
what it takes for the producer to block: with both workers inside
`rebalance` and one request in the channel, the send of the third waits,
and with both workers hung it waits for ever. With two workers two
`rebalance` calls interleave at every remote call. 675,584 distinct states.

`RebalanceReturns` is checked under weak fairness of the producer's steps
and of each worker's steps other than `Hangs`. The Go scheduler runs every
runnable goroutine, and a remote call that does not hang comes back, with
an answer or an error; nothing is assumed of one that hangs. The system
stops once `Rebalance` has returned and the workers have left their loops,
or with a worker hung, so the run does not check for deadlock; a producer
or worker stuck for any other reason is what `RebalanceReturns` would
report.

### Findings

* `remote_head` gives up after a second; `remote_get`, `remote_put` and
  `remote_delete` wait without a timeout (`rebalance.go:43`, `:62`,
  `:87`). One volume that never answers holds its worker, the worker
  never calls `wg.Done()`, and `Rebalance` never returns, whatever the
  other workers do. `AllHandled` still holds: `Rebalance` does not return
  early, it does not return.

## 6. The byte reader: `Reader`

### State and actions

`s`, `i` and `prevRune` are the fields of `Reader` (`s` is indexed from 1
in the model); `result` is the last call and what it returned. Each method
is an action with the method's name; `Len` and `Size` are the state
functions `ReaderLen` and `Size`; `NewReader` is `Init`. The arguments are
quantified in `Next`: buffers of every length up to `MaxLen`, every offset
of the model's `int64`, every `whence` and one that is none of the three,
every slice for `Reset`. In `WriterTo` the writer is the caller's: it
takes any count of bytes, one more than it was given included, and
reports an error or none.

A byte is told apart by its UTF-8 class only (ASCII, lead byte of a
two-byte rune, continuation byte), which is all `ReadRune` looks at;
`utf8.DecodeRune` is modelled by its contract. `int64` is a signed integer
of `Width` bits and the sums of `Seek` wrap as the machine's do (`Wrap`).

### Runs

| Run | Module | Expect | Properties |
|---|---|---|---|
| `reader` | `MCReader` | pass | `TypeOK`, `PrevRuneIsLastRune`, `Delivers` |

* `TypeOK` includes that `i` is never negative, which rests on `Seek`'s
  test of the wrapped sum.
* `PrevRuneIsLastRune`: while `prevRune` is set, it is the start of the
  rune that ends at `i`.
* `Delivers`: the bytes a call hands out are the slice between the old
  and the new index, for the reads and for `WriterTo`, up to what the
  caller's writer took. The writer's count is any number from 0 to one
  more than it was given; a negative count, which `io.Writer` forbids and
  `WriterTo` does not test, is not among the inputs (see the findings).

`Read` at the end of the slice returns `EOF` before it forgets `prevRune`,
so after `ReadRune`, `Read` (at the end), `UnreadRune` still succeeds,
although its error text says it needs `ReadRune` as the previous operation.
`PrevRuneIsLastRune` shows why this is harmless: the index did not move, and
`UnreadRune` steps back over exactly the rune that was read last.

### Bounds

Slices and buffers of up to three bytes over one byte of each class give
every rune boundary: a two-byte rune, a lead byte at the end, a lead byte
followed by ASCII, a stray continuation byte. `Width = 4` makes `int64`
the range -8 .. 7, so `Seek` reaches positions past the end of every
slice and `r.i + offset` overflows. 7 696 states.

### Findings

* `Read` at the end of the slice leaves `prevRune` set (above).
* The method is named `WriterTo`, so `Reader` does not implement
  `io.WriterTo` as its comment says.
* `WriterTo` refuses a count above `len(b)` and takes a negative one: the
  index moves back, below 0 from the start of the slice, and the next
  `r.s[r.i:]` panics.

## 7. The SCP upload: `ScpCopy`

### State and actions

`conf` is the `ClientConfigurer` and `cl` the `Client` that `Create`
copied from it, each a record of `host`, `clientConfig`, `timeout` and
`remoteBinary`. An option is told apart by what it does to a transfer: a
host that answers or not, a configuration the host accepts or refuses, the
default timeout or another, a binary the remote has on its path or a path
where there is none. `client`, `main` and `result` are the caller: what `Connect` left (a nil
session after a failed `NewSession` included), where the caller is and what
`Copy` returned. `pc` and `pending` are the three goroutines of `Copy` (the
protocol writer, the runner of `Session.Run`, the waiter of `waitTimeout`)
and the error each is about to send. `wg`, `errCh`, `errClosed`, `c` and
`timer` are the WaitGroup, the channel `make(chan error, 2)`, the channel
of `waitTimeout` and `time.After`. `session`, `stdin`, `stdinEOF`, `stdout`
and `remote` are the SSH session and the remote `scp -t`.

| Code | Action |
|---|---|
| `NewConfigurer`, `RemoteBinary`, `Host`, `Timeout`, `ClientConfig`, `Create` | actions of those names; the setters are `Set(field, to)`. The configurer is followed until `Create`: the `Client` is a copy, which later setters do not reach |
| `Connect` | `Connect` (succeeds, fails at the dial, fails at `NewSession`); the dial can succeed only to a host that answers, with a configuration it accepts |
| `Copy` up to `waitTimeout` | `Copy` (panics on a nil session) |
| the first goroutine, lines 113-151 | `writer`: `StdinPipe`, `StdoutPipe`, `Writes` (header, contents, zero byte), `checkResponse` (twice) |
| the second goroutine, lines 153-159 | `Start` (the command starts, or the remote's shell finds no such binary and exits at once), `Runs` (`Run` returns the exit status) |
| `errCh <- err`, `wg.Done()` | `Sends(p)` |
| the goroutine of `waitTimeout` | `waiter` |
| `waitTimeout` and the rest of `Copy` | `waitTimeout` (the select: `c` is closed and `Copy` closes `errCh` and returns its first error, or the timer has fired and `Copy` returns the timeout), `After` (the timer fires) |
| `Close` | `Close` |

The session and the remote are not code of the repository and are modelled
by their contracts (`Ready`, `Reads`, `Exits`, `Answer`, `Lost`): a pipe
can be taken only before the session has started; a command started
without a stdin pipe reads an empty stdin; `scp -t` answers once when it
starts, once to the header and once to the file, and exits with a status
that tells whether anything failed; the connection can be lost at any
moment of a `Copy`. `hist` records whether the environment did anything
wrong and whether the remote has the file; only the properties read it.

### Runs

| Run | Module, cfg | Expect | Properties |
|---|---|---|---|
| `scp_copy` | `ScpCopy`, `scp_copy.cfg` | pass | `TypeOK`, `NilMeansDelivered`, `ClosedAfterSenders`, `CopyReturns`, `NoGoroutineLeft` |
| `scp_pipes_race` | `ScpCopy`, `scp_pipes_race.cfg` | violation | `HealthyCopySucceeds` |

* `NilMeansDelivered`: when `Copy` returns nil the remote has the file.
  The writer never reads the remote's answer to the contents; the property
  holds through the exit status that `Session.Run` returns, and fails as
  soon as that error is dropped.
* `ClosedAfterSenders`: `errCh` is closed only when both senders have
  returned, so no send meets a closed channel.
* `CopyReturns`: a `Copy` that waits returns, whatever the remote does.
* `NoGoroutineLeft`: after `Close` every goroutine of `Copy` ends, the one
  of `waitTimeout` included. A goroutine with an error to send must find
  room in `errCh` for that, also after a timeout, when nobody receives:
  with a channel of one the property fails.
* `HealthyCopySucceeds` is what the comment on `Copy` says: it copies the
  contents to the remote. Over a connection that holds, to a remote that
  has the binary and accepts the file, without a timeout, `Copy` returns
  nil. TLC finds it violated: `Copy` starts the two goroutines with
  nothing between them, the runner starts the command before the writer
  has taken the pipes, `StdinPipe` fails, and `Copy` returns that error.

### Bounds and fairness

One `Connect`, one `Copy` and one `Close` in a behaviour: an `ssh.Session`
runs one command, so a second `Copy` on the client fails at once. One file
of one block of contents: the protocol has one more answer per file and
nothing else changes. The connection is lost during a `Copy` only. Every
combination of the four options is built, by the defaults and the setters
in any order. 7,398 distinct states.

`FairSpec` assumes weak fairness of the goroutines, of `waitTimeout` and of
the timer: the Go scheduler runs a goroutine that can run, and
`time.After` fires. Nothing is assumed of the remote, of the connection or
of the caller, which need not call `Copy` or `Close` at all; for that
reason, and because the program ends after `Close`, the run does not check
deadlock.

### Findings

* The writer and the runner race for the session: a healthy `Copy` can
  return the error of a pipe (`scp_pipes_race`).
* The two answers the writer reads are the start-up answer and the answer
  to the header; the answer to the contents is never read.
* `Close` on a client whose `NewSession` failed panics on the nil session
  and leaves the connection open.
* `RemoteBinary` defaults to `scp`, not to `/usr/bin/scp` as its comment
  says.

`CopyFromFile` and `CopyFile` find the size of what they are given and call
`Copy`; they have no step of their own in the model, and no definition is
mapped to their lines.

## 8. The record codec: `ItemLog`

### State and actions

`encoder`, `Secret`, `index` and `fileList` are the package variables of
the kalasa store that the codec reads and `option.go` sets; `Root`,
`defaultMaxFileSize` and `HashedFunc` are the ones `option.go` sets for the
store (`dataDirectory` and `indexDirectory` are `Root` with a name behind
it). `data` and
`indexFile` are the two files. `writeOffset` is the store's count of the
bytes it has written, `now` the clock. `written` and `torn` are history:
what a complete `Write` put at which offset, and where the first partial
write began.

A file is a sequence of cells, one for each field of a header and one for
each byte of a key or a value, so sizes and offsets count cells and the
layouts `| CRC | TS | KS | VS | KEY | VALUE |` and
`| CRC | IDX | FID | TS | ET | SZ | OF |` keep their order and their
arithmetic. `crc32.ChecksumIEEE` is taken to be injective
(`ChecksumIEEE(cells)` is the cells themselves under a tag): the model
shows what the code does with a checksum that detects every damage, not
how often CRC-32 misses one.

A field cell carries what was put in it: `U(n)` a number, `Idx(key)` the
hash of a key, which the model names by its key. Read as the other kind
(`Uint` of a hash, `Hashed` of a number) or read off a checksum or a data
byte, a cell gives `Junk`: bytes that decode to some number nothing wrote.

| Code | Definition |
|---|---|
| `Encoder.Write`, `binaryEncode`, `bufToFile` | `Write`, `binaryEncode`, `bufToFile`, `taken` |
| `Encoder.Read`, `parseLog`, `binaryDecode` | `Read`, `parseLog`, `binaryDecode` (state functions: a read changes nothing); `panics` is where the slices of `binaryDecode` are out of range: on an empty window, and on one that its checksum fits and its sizes do not |
| `Encoder.WriteIndex` | `WriteIndex`, `indexBuf` |
| `Encoder.ReadIndex` | `ReadIndex`, `indexItem`, `restored` |
| `Option.Validation` | `Validation` (the panic on an empty directory, the directory with its slash added and then trimmed, the file size unless it is 0, the test of the secret as written, the AES encoder) |
| `SetEncryptor`, `SetIndexSize`, `SetHashFunc` | actions of those names |
| `pathBackslashes`, `strings.TrimSpace`, `DefaultOption` | `pathBackslashes`, `TrimSpace` over paths whose characters are `/`, a space or any other; `DefaultOption` |
| `AES`, `DefaultEncoder` | constants of those names |

The store that calls the codec, the `Encryptor` and the files are not in
`src/`; the model has them by contract. `Put` is the store's write: `Write`
to the active file and, when it succeeded, a record at `writeOffset` with
the size `Write` returned. `OpenFile` opens the data file and sets
`writeOffset` to its length. The `Encryptor` takes a secret of 16 bytes,
gives a ciphertext longer than the plaintext, and `Decode` inverts `Encode`
under the same encryptor and secret. A file that fills up takes a prefix of
the buffer and reports an error. `Restart` ends the process (a panic or a
kill) and starts a new one: the package variables are reset and the files
stay.

### Run

| Run | Module, cfg | Expect | Properties |
|---|---|---|---|
| `item_log` | `MCItemLog`, `item_log.cfg` | pass | `TypeOK`, `ReadIsWritten`, `IndexPointsAtItem` |

* `TypeOK` includes that the index holds records of keys only: a buffer of
  the index file that `WriteIndex` did not write whole never gets into the
  index (it breaks when `ReadIndex` skips the checksum).
* `ReadIsWritten`: an item that `Read` returns without an error is one a
  complete `Write` put at that offset, with its key, and with its value
  when the encoder and the secret are those of the write. It breaks when
  `Read` hands out the value as stored.
* `IndexPointsAtItem`: every record of the index whose data file is open
  points at a whole item of its key, whether `Put` made it or `ReadIndex`
  restored it, as long as no partial write came before it. It breaks when
  `WriteIndex` and `ReadIndex` disagree about the order of two fields.

### Bounds

Two keys, of one and of two bytes, so that records differ in size and a
window one cell off is told apart; one value of one byte; lifetimes 0 and
1 with a clock of 0 .. 1, so that a record expires between `WriteIndex`
and `ReadIndex`; options with an empty directory, the default, with
a secret of 16 bytes and a file size of 0, and with a secret of 15; one
hash function. `Rooms = {5, 16}`: a file that
fills up takes five cells, which tears an item after its header and an
index buffer before its end, or sixteen, which is every buffer whole.
`MaxData = 12` and `MaxIndex = 8` stop the writes when the file holds two
items or one index buffer and a torn one; writes beyond that repeat what
the first ones did. 1,650,472 distinct states, a quarter of them apart
from the directory, the file size and the hash function, which the codec
does not read.

The codec is sequential: there is nothing to be fair to and no liveness
property. Deadlock is checked.

### Findings

* `Validation` tests `len(o.Secret) < 16 && len(o.Secret) > 16`, which is
  never true: a secret of any length is accepted, and with one the
  encryptor cannot use every `Write` fails.
* `binaryDecode` returns nil on a checksum failure and `Read` returns
  `(nil, nil)`: a damaged record is a success without an item.
* `bufToFile` returns 0 after a partial write; a store that adds up the
  returned sizes is off by the torn bytes ever after, which is why
  `IndexPointsAtItem` speaks of the records before the first partial write.
* `Write` leaves the ciphertext in the caller's item.
* `Validation` trims the directory after it has added the slash.

Left out of `ItemLog`: `pathExists`, which asks the file system and
changes nothing, and the wrap of the 32-bit timestamps of the index.

## 9. The epoll echo server: `Epoll`

### State and actions

| Code and kernel | Model |
|---|---|
| the connections clients open; per connection the peer's state, the bytes the server has not read, the bytes the client got back | `conn[c]`: `peer` (`away`, `open`, `fin`, `rst`), `sent`, `inbox`, `got` |
| the listen queue of `fd` | `backlog` |
| the descriptor table of the process | `fdtab` (number -> connection or `None`) |
| the ready list of `epfd` | `ready` (connection descriptors with an edge to report); the listener is level-triggered and ready while `backlog` is not empty (`Pending`) |
| `main`: where it is, `events[ev:nevents]` | `mainPc` (`start`, `wait`, `events`, `stopped`), `batch` |
| the `echo` goroutines with `fd`, where they are, `buf[:nbytes]` | `echoes`, a bag of records `fd`, `pc` (`read`, `write`, `close`), `buf` |

| Action | Code |
|---|---|
| `Setup` | `main` up to the listener's `EpollCtl`; a checked call that fails is `os.Exit(1)` (`Exit`) |
| `EpollWait`, `EpollWaitFails` | `EpollWait` returns the events, or an error: `break`, and `main` returns |
| `Accept`, `AcceptFails` | the listener's event: `Accept` and `EpollCtl(EPOLL_CTL_ADD)` of `connFd`, whose failure exits; or `Accept` fails and the loop `continue`s |
| `Spawn(f)` | `go echo(int(events[ev].Fd))` |
| `ReadData(e)`, `ReadEnd(e)`, `ReadFails(e)` | `syscall.Read` returns bytes; returns 0 without an error (the loop reads again); returns an error (`break`) |
| `Write(e)` | `syscall.Write(fd, buf[:nbytes])`, its result dropped |
| `Close(e)` | the deferred `syscall.Close(fd)` |
| `Connect(c)`, `Send(c)`, `Shut(c, how)` | the clients: connect, send a chunk, close (`fin`) or reset (`rst`) |

`echo` is one step per system call, because each call resolves the number
`fd` again: a goroutine holds a number, not a connection. The goroutines
are a bag, since main starts as many as there are events and nothing
tells two of them on the same descriptor apart.

The kernel is modelled by what the manual pages promise. `accept` returns
the lowest free descriptor. A connection accepted from a non-blocking
listener is blocking unless it is made non-blocking, and the
`SetNonblock` after `Accept` is given the listener, so `Read` waits while
there is nothing to read (the step is not enabled). `EPOLL_CTL_ADD`
reports at once what is readable already; after that an edge-triggered
descriptor is reported when something arrives (bytes, the end of the
peer's data, a reset), once. `close` takes the descriptor out of the epoll
set, and ends the connection behind it. A reset discards what was not
read. When `main` exits, the process is gone with its goroutines and
descriptors (`Exit` clears them). The bytes of a chunk and the printing
of the buffer are left out.

### Runs

| Run | Module, cfg | Expect | Properties |
|---|---|---|---|
| `epoll` | `MCEpoll`, `epoll.cfg` | pass | `TypeOK`, `NothingStranded`, `EchoedBack`, `ResetIsClosed` |
| `echo_to_sender` | `MCEpoll`, `echo_to_sender.cfg` | violation | `EchoToSender` |

* `NothingStranded`: while the server runs, every open descriptor with
  something to read has an event in the ready list or in main's batch, or
  a goroutine that holds its number. An edge-triggered event that is
  dropped does not come again, so this is what the server's whole design
  rests on: it holds across data that arrives before `EPOLL_CTL_ADD`,
  events that arrive while main works through an older batch, a failed
  `Accept` in the same batch, and goroutines that close the descriptor
  under one another.
* `EchoedBack` (liveness): a chunk sent on an accepted connection comes
  back to its client, unless the connection ends or the server stops
  first.
* `ResetIsClosed` (liveness): the descriptor of a connection that was
  reset is closed, unless the server stops first.
* `EchoToSender`: a client gets only bytes it sent. TLC finds a behaviour
  of 17 states that breaks it: `c1` sends a chunk, an echo reads it; `c1`
  is reset, the event starts a second echo on the same descriptor, whose
  `Read` fails and whose `Close` frees number 1; `Accept` gives number 1
  to `c2`; the first echo's `Write` sends `c1`'s chunk to `c2`.

### Bounds and fairness

Three connections and two descriptors (`MaxFd = 2`), so that two
connections are served side by side, the third finds no descriptor free
(`AcceptFails`), and a number that was closed is given out again. `c1`
sends up to two chunks (`MaxSends`), so that two goroutines hold bytes of
one descriptor at once; `c2` and `c3` send none and only connect, close
or are reset, each of which is an event of its own. The number of
goroutines needs no bound: main starts one per event and the clients'
steps are bounded. 172 441 states.

The liveness properties are checked under weak fairness of main's steps
(`EpollWait` returning events, `Accept`, `AcceptFails`, `Spawn`) and of
the steps of the goroutines on each descriptor: the Go scheduler runs
what can run. Nothing is assumed of the clients, and `EpollWaitFails` is
not fair: the server may run for ever. The system stops when main exits,
so the run does not check for deadlock.

### Findings

* A client can be sent another client's bytes, and have its connection
  closed by a goroutine that was started for an earlier one
  (`echo_to_sender`): `echo` holds a descriptor's number while other
  goroutines that hold the same number close it.
* At the end of the peer's data `syscall.Read` returns 0 and no error;
  `echo` tests only the error, so it reads again at once, for ever, and
  never closes. A connection closed in the ordinary way costs a spinning
  goroutine and a descriptor, which is why `ResetIsClosed` speaks of
  resets only; with all descriptors gone `Accept` fails, and the
  level-triggered listener makes main spin as well.
* `SetNonblock` after `Accept` is called on the listener, not on `connFd`.
* One goroutine is started per event, not per connection: two chunks of a
  client can come back in the other order. `EchoedBack` holds of each
  chunk, not of their order.
* An error of `EpollWait` ends the server; `EINTR` is one.

## 10. Not modelled

The digest itself (blake2b), the text of errors and log lines, and Go's
data-race semantics (a racy read is modelled as reading either the old or
the new value only where the code's outcome depends on it). The examples,
the generated code and the OTP accessors have no state of their own that a
model checker could explore: the accessors read fields of a parsed URL,
and `Digits.Format` pads a number. The import scanner
(`pkgtool/ipath.go`) has one flag, whether the scan is inside an
`import (` block, and is otherwise string predicates over the lines of a
file; it runs sequentially with one caller and shares nothing, so its
outcome is a function of the file text and a table-driven test reaches
it. All are listed in `PROJECT.json` with the reason.

The minidb entry codec (`minidb/entry.go`) is four pure functions without
state and without a caller in `src/`: ten bytes of big-endian header before
the key and the value. What can be said of it (`Decode` fills the header
only; a round trip gives the sizes back) is a fact about constants, which
TLC evaluates once and which no run of a state machine adds to.

Of the key-value store, only `rebalance.go` is in the repository: the server that answers
clients while `Rebalance` runs is not, and the model has no client writes
beside the workers.
