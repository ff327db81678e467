# Verification of the ScyllaDB Node.js driver

TLA+ specifications of the driver in `src/lib` (JavaScript, TypeScript) and `src/src` (Rust),
configurations that model-check them with TLC, and proofs checked by TLAPS. `PROJECT.json` maps every
definition to the lines it models and lists the runs, the hazards, the findings and the theorems.

## The system

The driver is a JavaScript API over the Rust driver. A `Client` owns one Rust session
(`SessionWrapper`), which it creates on the first `connect()`, `execute()` or `batch()`. Rust futures
complete on the JavaScript thread as promises; Rust log events arrive there through a queue per
client. Everything else in `src/lib` runs on that thread: what happens between two `await`s is atomic,
and the hard questions are about what other callbacks do in between. A second family of questions has
no concurrency at all: values, options and mapped documents pass through much code that converts them,
and must come out as what they were.

| Part | State | Operations | Hard behaviour |
| --- | --- | --- | --- |
| Client life cycle (`client.ts`) | `connected`, `connecting`, `isShuttingDown`, `rustClient`, `#loggingId` | `connect`, `execute`, `batch`, `shutdown` | calls that share one connect, failed connects, shutdown during a connect, use after `await` |
| Logging registry (`logging.rs`) | `CALLBACKS`, `NEXT_ID`, queues | `setup_logging`, `remove_logging`, `on_event` | events from other threads, removal by shutdown, failure or finalizer |
| `executeConcurrent` (`concurrent/index.js`) | chains, `#stop`, `#cache`; `#inFlight`, `#readEnded`; `ResultSetGroup` | array and stream executors | microtask order, pause and resume, failures of some executions |
| Row streams (`eachRow`, `stream`, `ResultStream`) | buffers, `paused`, `#readNext` | pages, `_read`, `_valve`, `add` | backpressure, empty pages, errors between pages |
| Row iterator (`result-set.js`) | `index`, `rows`, `pageState` | `next` | empty pages, a fetch that fails and is repeated |
| Host snapshot (`session.rs`, `metadata`) | `cluster_snapshot` | `get_all_hosts` | states replaced in the background, addresses used again |
| Options, profiles, load balancing configuration | objects that clients share | `extend`, `ProfileManager`, `DefaultExecutionOptions.create`, `setRustOptions` | precedence, falsy values, objects changed by an earlier client |
| Policies | timestamp generator, reconnection schedule | `next` | clocks that go back, limits, jitter |
| Callback helpers, `AddressResolver` (`utils.js`) | counters in closures, `#refreshing`, `#index` | `timesLimit`, `series`, ..., `refresh`, `getIp` | callbacks before the return, late ones, errors in between, shared refreshes |
| Encoder and types | `reusableBuffers`, tick counters | `encode`, `decode`, texts, arithmetic | null, unset and empty, widths, carries, shared buffers, leap years, ticks that run out |
| Mapper (`mapping/*`) | trees of cached queries and promises | `get`, `find`, `insert`, `update`, `remove`, `batch`, `mapWithQuery` | keys that collide, caches filled while others wait, the order of parameters |

`PROJECT.json` lists every part, those not modelled with the reason.

## Modules

A module `MCx` holds the values of the constants of x. A definition whose comment starts with
`(fault)` is a wrong variant of the definition after it. It belongs to no specification; each
property is shown to notice one of them at least.

### Connections

**LogRegistry** (`src/src/logging.rs`). `callbacks` is `CALLBACKS`; `Pushed` and `Retained` are
`setup_logging` and `remove_logging`; `OnEvent` is the tracing layer; `Deliver` is the JavaScript
thread running the queue of one ThreadsafeFunction (external). Event texts are left out; a queue is
abstracted to whether it is empty.

**Client** (`src/lib/client.ts`) extends LogRegistry. A call is one invocation of `connect`,
`execute`, `batch`, or one execution of `executeConcurrent`; its `pc` is the `await` at which it is
suspended. `CallConnected`, `CallAfterShutdown`, `CallJoins`, `CallStarts` and `CallLogThrows` are
the branches of `#connect` up to its first `await`; `SessionCreated` and `CreateFailed` what follows
`createSession`, the `"connected"` event included; `Resume` the rest of `rustyExecute` and
`#rustyBatch`; `Prepare` is `prepareStatement`; `UsesSession` is a method call on `this.rustClient!`,
which throws when there is none (pc `"undefined"`); `Shutdown`, `Collect` and `Finalize` are the ends of
a client. Results and statements are left out.

**ConnectOnce** is what a client promises about its connection: one attempt at a time, which ends
for everyone who asked at once, one session in the life of a client, shutdown for good. Client
implements it by a refinement mapping from the three flags and the pcs.

**ClusterCache** (`session.rs`, `metadata/state.rs`, `metadata/host.rs`). States live at addresses
that are used again once no Arc to them exists (`Live`); `Refresh` is the Rust driver (external);
`GetClusterState` and `WithClusterSnapshot` are the two halves of an access, between which the driver
may refresh. After the second one the map is handed out (`HandsOut`) or cannot be read (`GetFails`),
with the snapshot in the cache; or the objects cannot be built and the cache is kept (`BuildFails`).

### Execution

**ResultSetGroup, ConcurrentArray, ConcurrentStream** (`src/lib/concurrent/index.js`). The array
executor has a `pc` per chain, and an item that is null breaks its chain with a TypeError; the stream
executor has a `pc` per execution, with the decrement of `#inFlight` and the last handler as two
microtasks. **ExecuteAll** is what both promise: each item
at most once, and a promise settled only for the documented reasons; both implement it. MCConcurrent
puts the two side by side: the variable `part` says which of them a behaviour is about.

**RowStream** (`client.ts` `eachRow`, `stream`; `types/result-stream.js`). Node's `Readable` is
external: a buffer with a high water mark that calls `_read()` when it is below. The handler of one
page is one action: all its rows are added, then the valve or the end.

**RowIterator** (`types/result-set.js`). `NextHere`, `NextFetches`, `PageFetched` and `FetchFailed`
are `next()` before and after its `await`. **Paging** puts both consumers in front of one result, cut
into pages in every way.

### Configuration and utilities

**Options** (`client-options.js`, `execution-profile.ts`, `execution-options.js`,
`query-options.js`, `policies/load-balancing.js`). The objects of the application that several clients
can share (profiles, arrays of profiles, load balancing configurations) are on heaps. `NewClient` is
the constructor: `extend()`, the validators in their order, the `ProfileManager`, which fills the
default profile in; `ConnectClient` is `setRustOptions`; `CreateOptions` resolves the options of one
execution. The reference says what each setting should be from what the application wrote, without
going through the objects; where an object is shared, it says whose settings may be found in it.

**AsyncHelpers** (`utils.js`, `promise-utils.js`). The helpers call themselves when an item calls
`next()` before it returns; the local variables of a helper are a record that is threaded through these
calls, and callbacks given to `process.nextTick` wait in a queue. **AddressResolver** (`utils.js`) has
one pc for each call of `refresh()`. Nothing in `src/lib` calls it at present.

**MonotonicTimestamp** (`policies/timestamp-generation.js`). One action per branch of `next()`; the clock
is any function of the calls, and is read again for a warning. At present the execution path
(`query-options.js`) reads `getTimestamp()` only; the generator is reached through
`getOrGenerateTimestamp()`.

**Reconnection** (`policies/reconnection.js`). The exponential schedule; the random number is any
percentage. The policy is part of the public API; the driver itself does not draw from a schedule.

MCPolicies puts these five and ClusterCache side by side, with `part` as above.

### Values

**Encoder** (`encoder.js`, `reader.js`). A behaviour is a request: `EncodeParams` binds values with the
types of their columns, or with hints, or guessed types; the server keeps the bytes (`Answer`, external)
and `DecodeRows` reads them, with the types a schema change may have made longer. Values are JavaScript
classes with contents, bytes are bytes. A map that is read without `encoding.map` is an object, whose
keys are the names of its properties (`PropertyName`). **TypeNames** reads the names of types: Java class
names, schema names, hints. Both are checked against the type or the value they started from.

**VInt, Duration, Integer, BigDecimal, LocalDate, LocalTime, InetAddress, TimeUuid** (`utils.js`,
`types/*`). Arithmetic, texts and bytes, each with its widths as constants: a byte of 4 bits, a half word
of 4 bits and a mantissa of 13 go through every carry, size and estimate that 8, 16 and 53 bits go
through. **Numbers** rounds to that mantissa, in the estimates of Integer's division and in the powers of
ten of BigDecimal. Duration keeps its reusable buffers, TimeUuid its process-wide counters and a clock
that may be set back; in InetAddress memory that the code does not initialize is any value. **Values**
puts them side by side, with `part` as above.

### Mapper

**MapperQueries** (`mapping/cache.js`, `object-selector.js`, `query-generator.js`, `mapping-handler.js`):
the cache keys of a document, the choice of tables, the statements, the functions that pick their
parameters, idempotence. A statement is a record of its columns, not a text. `DocValues` are the values a
document may have: plain ones, operators, assignments and q.and() of two others, `Nesting` deep; the
definitions that follow the nesting are recursive functions on them. **Mapper** (`mapping-handler.js`,
`model-batch-item.js`, `mapper.js`) is what happens around them: a call finds or makes its cache item,
waits for metadata, which may fail, fills the item, executes, and makes the result adapter from the first
answer; batch items cache the promise itself. A parameter getter that reads a condition throws for a call
without one (`GetterThrows`), and nothing is sent. **Tree** (`mapping/tree.js`) is the cache, a prefix
tree, against a map from whole keys to values.

## Runs

Each cfg is named after its run. Passing runs:

| Run | Bounds | Shows |
| --- | --- | --- |
| Client | 4 clients: two that log, one that does not, one whose log listener throws; 2 symmetric calls | one creator and no lost waiter, session ready, no leaked callback, complete shutdown, ConnectOnce |
| ClientLiveness | 1 client, 3 calls, fair | every call settles; a shut-down client falls silent |
| Concurrent | an array of 7 items, level 3, 2 queries, with a null item or none; streams of 5 items, level 2, that push in tasks or microtasks, fail, or hold an item that is no array; `maxErrors` 2, `raiseOnFirstError` on and off | consistent result group, no item after a failure, exact counters, level respected for sources that push in tasks, always resumed, ExecuteAll, settling |
| Paging | every result of up to 3 pages of up to 3 rows, high water mark 2, `autoPage` on and off, 2 failures; the iterator without empty pages | order, completeness, one request at a time, bounded buffers, the end |
| Policies | 3 clients that share their objects, configurations wrapped by several policies included; helpers with up to 4 items and limit 3, every mix of synchronous, late and failing items; 3 refreshes, index limit 6; a millisecond of 3 microseconds, 8 calls; all jitters; 4 addresses, 2 topologies, 4 refreshes of the cluster state | settings and policies reach the session; callbacks once and at the right time; shared refreshes and even turns; strict increase, bounded drift, warnings apart; delays within the documented bounds but for the attempts `MayBeShort` and `MayBeLong` name, never faster; hosts fresh, stable, never confused by a reused address |
| Values | about 100,000 states of samples of every type, see MCValues | what was bound is read back; routing keys, type names, durations, integers, texts, time UUIDs are exact |
| Mapper | 4 tables with keys, clustering keys, statics, counters and lists; 2 requests or batches | each call executes its own queries, or those of a call its key is confused with (`Confused`), with parameters that fit; only what is repeatable is idempotent; batches of counters are marked; custom rows fit; the tree is a map |

Why the bounds are enough. Two calls are a creator and a waiter, or a call and a later one, on one
client or on several; three are both. Seven items over three chains give chains of different lengths;
two queries exercise the cache of prepared statements. Pages of zero to three rows lie below, at and
above the high water mark. With four addresses the current, the cached and the held state can all differ
and one address is free. A short millisecond overflows as the real one does: nothing depends on the
1000 or the 10,000. The exponent limit of 6 in place of 64 lies above the exponent that reaches the
maximum, as in the code. The third client built from one options object reads what two others left in
it. With four items and a limit of three, a helper refills its slots, from inside and from outside of an
item. Two mapper requests are one that fills a cache item and one that finds it, filled or not.
Samples of values cover each branch of the encoder, alone and inside of each collection. Deadlock is not
an error where the calls, items, rows or values simply come to their end.

Fairness. Queued microtasks run, because the event loop runs them. The futures of `createSession`,
`prepareStatement` and of a statement complete, with success or failure, as the Rust driver's
timeouts make them. The JavaScript thread gets to the queue of every ThreadsafeFunction. A stream that
flows goes on emitting; consumers of rows go on reading. Neither shutdown, collection, log events nor
new calls are assumed to happen.

### Disagreements between code and documentation

Runs that are expected to end with a counterexample:

- **PagingEmptyPages**: the async iterator stops at an empty page (`result-set.js:284`).
- **InetText**: `checkLongest` keeps the start of a run of zeros that is not the longest
  (`inet-address.ts:194`), and the text loses a group that is not zero. `TextsReadBack` checks the
  addresses where this does not happen.
- **MapperKeys**: the columns of a condition follow those of the document in the cache key without a
  separator (`mapping/cache.js:118`), so two updates share one query. When the update without the
  condition comes first, the other one is sent without its IF; in the other order the getter throws. The
  run Mapper has such calls too: its property allows what `Confused` names.
- **JitterBounds**: with `startWithNoDelay` the jitter goes below the base delay, and above the maximum
  for a delay just below it (`reconnection.js:120`), where the documentation says it never does
  (`reconnection.js:65`).
- **ProfileDefaults**: a setting other than the load balancing policy that a profile leaves out comes
  from the client's query options (`execution-options.js:421`), where the documentation says it comes
  from the default profile (`execution-profile.ts:47`). `SettingsReachTheSession` says nothing of the
  settings that only the default profile has.

More were met while modelling. The models follow the code, the properties of the passing runs state what
it keeps, and no run is spent on these:

- `shutdown()` during a connect does nothing (`client.ts:954`) and later queries are executed, where the
  documentation says it rejects them (`client.ts:932`); the branch that would wait (`client.ts:966`) is
  not reached. `RejectsAfterShutdown` of Client states the documentation.
- A log listener that throws at the first message of `#connect` leaves `connecting` set for good
  (`client.ts:292`), where a comment says the state is reset (`client.ts:341`): `FailedConnectResets`.
- With a source that pushes from microtasks, more than `concurrencyLevel` executions are in flight
  (`concurrent/index.js:270`, documentation at line 23): `InFlightWithinLevel` of ConcurrentStream.
- `executeConcurrent` over an array prepares on a client that was never connected, and fails with a
  TypeError (`concurrent/index.js:168`, action `Prepare` of Client; `SessionReady` allows it there only),
  where a comment says "This will be called only after checking that client is connected"
  (`client.ts:243`).
- Clients with one array of profiles share what the first of them filled in (`execution-profile.ts:146`),
  and policies that wrap one `LoadBalancingConfig` write to it (`load-balancing.js:189`, `:262`): a client
  made later may get the allow list or the token awareness of another's policy. It never gets a host that
  one of its own lists excludes.
- `LocalTime.fromDate` takes the remainder of the milliseconds since 1970 (`local-time.ts:184`) and so
  throws for most Dates before it, where the documentation speaks of the time since midnight of any date
  (`local-time.ts:176`).
- Sums of `BigDecimal`s whose scales are more than 22 digits apart multiply by a rounded power of ten
  (`big-decimal.ts:150`), and so are not exact.
- A `Map` that is bound without `encoding.map` is written as a map without entries
  (`encoder.js:1210`), and without that option the keys of a map come back as strings, two of which may
  be equal.
- `parallel` and `timesLimit` never call back for no items at all (`utils.js:890`).
- An empty list inside a list, a vector or a map key cannot be encoded (`encoder.js:1118`: it has no
  bytes, and its length is asked for); unset fields of tuples and UDTs come back as null.
- `HashSet.remove` returns undefined where its documentation says true (`utils.js:501`).
- In a batch, `remove()` uses the cache of `update()` (`model-batch-mapper.js:126`, as a comment there
  says), so that either may execute the queries of the other, and a rejected promise stays cached
  (`model-batch-item.js:38`). `get()` and `find()` of one document share one, made for whichever came
  first.

## Proofs

Each proof is by an inductive invariant. The only assumptions are those on the constants, in the modules
that declare them, and the hypotheses named below.

**ClientProofs**, for any sets of clients and calls and any log levels. `TypeCorrect` comes first. The
connection invariant `ConnInv` adds to the properties what makes them inductive: `connecting` excludes
`connected` and `isShuttingDown`; every call that creates or waits does so on a connecting client; a
connecting client has its creator unless its log listener throws. From it follow `OneCreator`,
`NoLostWaiter`, `ConnectIsShared` and `SessionIsReady`, in which only a prepare of `executeConcurrent`
may find no session. `LogInv` adds that ids are below `NEXT_ID` and
belong to one client; from both follow `NoLoggingLeak`, `ShutdownCompletes` and `ShutdownRejects`.
`ClientImplementsConnectOnce` is the refinement for the clients in `Quiet`, whose listener does not
throw at the first message of `#connect`: one that does leaves `connecting` set without an attempt. The
other clients may have any listener.

**ConcurrentArrayProofs**, for arrays of any length, any level and any sharing of queries. `Distinct` and
`Covered` are the arithmetic of the strides: no two chains have an item in common, and every item belongs
to one. `ArrayInv` says where the holes of the result are: of the items of a chain those before its
iteration have an outcome and those after it have none, whether or not a null item broke the chain. It
also says that a chain ends at the end of the array or because `#stop` is set, and that `#stop` is set
exactly when a chain failed, which needs `raiseOnFirstError`. `ItemsAreCountedOnce` and
`FailureStopsTheChains` follow, and `ArrayKeepsThePromise`: all chains done means no holes, and a failed
chain shows the failure that the promise is rejected for.

**ConcurrentStreamProofs**, for streams of any length that push from tasks or microtasks, fail, or hold
an item that is no array. `FlowInv` relates `#inFlight` to the executions that have not been counted down
and says that a paused stream has one of them to resume it; `FlowIsControlled` follows. `ExecInv` adds
which items have outcomes and that a read that ended well left none behind; with it
`StreamKeepsThePromise` maps every step to ExecuteAll.

**ClusterCacheProofs**, for any addresses, topologies and number of refreshes. The invariant says that
live addresses hold different states and that the cached map shows the state at its address; a refresh
writes only where no Arc points. `CacheIsTrue`, `HostsAreCurrent` and `HostMapIdentity` follow.

**PagingProofs**, for every set of results, pages of any size and every high water mark. `StreamInv`
is the exact form of the order: what the consumer has, what is in the `Readable` and what is in the buffer
are together the rows of the pages received. It ties `paused`, `#readNext` and the end marker to the
request that is out: without that a late page could follow the marker, or the valve send a second request.
`StreamIsExact` and `StreamIsThrottled` follow, and with the invariant of the iterator
`IteratorIsExact`, for results without empty pages before the last (with them it is false, see
PagingEmptyPages).

**TimeProofs**. `TInv` relates the last timestamp to the fields of the generator and bounds it by the
latest date and the number of calls; for every clock and every length of a millisecond `Monotonic` and
`BoundedDrift` follow; `WarningsSeparated` needs that the last warning is the latest.
`ReconnectionDelays` is about every base delay, maximum and jitter: the documented bounds are kept by
every attempt but those that `_addJitter` does not tell from the others; it rests on the powers of two
growing with their exponent. `UuidsIncrease` is about every clock, every length of a millisecond and all
sizes of the three fields of the time that hold it (`TimeUuidAssumption`): the fields read back the time,
their order is that of the pairs of date and ticks, and the invariant says how many UUIDs the current
millisecond has and which ticks they took.

**MapperProofs**, for every model, all calls, all batches and every order of calls, answers and failures.
`MapperInv` says that a cell of a cache only holds what was generated for a call with its key, that the
adapter in it is for such a query, and that a batch has the queries of its items in blocks, one for each
item, in whatever order their promises settle. It holds whatever the keys are; from it:

- `IdempotencyIsSound` and `CustomRowsAreRead`.
- `ParametersAreInOrder` and `OnePartitionIsWritten`: each marker of a statement that is sent has a
  parameter, read from the property with the marker's column, and a statement that writes restricts the
  whole partition key of its table. These are facts about the query generator, proved in
  **MapperQueriesProofs** for each of its four kinds of statements; q.and() nests to any depth.
- `OwnQueriesAreExecuted`, `SelectedRowsAreMapped` and `ParametersFit` (all of
  `ParametersFitTheStatement`) under `KeysTellQueriesApart`: calls with one key call for the same queries,
  or are confused in a way that `Confused` names, and then each is executed with all the queries of one
  of them. The hypothesis cannot be dropped, keys are not proved to tell all other calls apart; it holds
  of the calls in the run Mapper. What the theorems show is that nothing else is needed: the caches, the
  waiting calls and the batches never mix up two keys.

The assumptions are those of `MapperQueries` and `Mapper`: tables have different names, keys that are
columns, and no partition key twice (`TablesAssumption`); q.and() joins values made before it
(`DocValuesAssumption`); a document that is written has one property for each column and no q.and(), which
is for conditions (`WritesAssumption`). The last one matters: `keysAreIncluded` counts properties, not
keys, so two properties of one column could pass for two keys (`object-selector.js:379`).

**Induction.** The provers cannot use the induction theorems that take an operator. The lemmas that need
induction over numbers get it from sets: a set of naturals that has 0 and the successor of each of its
members is `Nat`, because its complement would have a least element. That a recursive function exists is
shown in the same way, for the folds over sequences and for the conditions nested by q.and().

**Only model-checked.**

- All liveness properties, and whatever needs ENABLED.
- `CacheTreeIsAMap`: the descent through the tree is recursive, over nodes that it splits on the way.
- `SettingsReachTheSession` and `CallersAreAnsweredOnce`: the first compares two computations over
  heaps of shared objects, the second threads a record through helpers that call themselves.
- The encoder, type names, durations, integers, dates, times, decimals and addresses. They are
  recursive operators over digits, bytes and nested types, and what these compute for every input is an
  induction over data.

## Not modelled

The wire protocol, retries, speculative executions, load balancing decisions and connection pools are
those of the Rust driver, outside this repository. In `src/src`, the session configuration, the paging
wrapper and the type bridge convert one object to another field by field and keep no state.

In `src/lib`:

- `LegacyDefaultLoadBalancingPolicy` reads methods that throw and is refused by the client; the EC2
  address translator, the request logger, metrics and the Kerberos client are not reached by a request.
- `createCustomPayload`, `setMetadataDependent` and `getOrGenerateTimestamp` of the execution options are
  not reached by an execution.
- `Metadata` throws "Not implemented" from its methods; `Host` and the token classes are values.
- The graph and geometry classes and the error classes hold no state; random UUIDs are random bytes.
- Doubles and floats are left to the platform's conversions, as are UTF-8 texts.
- Messages, type declarations and the wording of errors have nothing to check: a model tells apart that
  an error is raised, and where.
