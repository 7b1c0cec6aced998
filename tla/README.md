# UniKVS: formal models, checks and proofs

UniKVS is a TypeScript client for key-value storage. An application builds a
client from a *pipeline*: a tree whose inner nodes are middleware (codecs,
rate limits, TTL, retry wrappers, ...) and whose leaves are storages (memory,
files, Redis, S3, ...). One call such as `set(key, value)` runs the middleware
and then every leaf. This directory holds TLA+ models of that client, of its plugins with
logic of their own, of the codecs and of nearly all storages, TLC
configurations that check them on small instances, and TLAPS proofs of the
main results for every instance.

Paths below are relative to the repository; `unikvs/` is the client,
`packages/` are the plugins.

## 1. Inventory

### 1.1 The client (`unikvs/src`)

| part | state | operations | hard part |
| --- | --- | --- | --- |
| connection (`unikvs.ts` `open`, `close`, `#close`) | `#con` (AbortController and io lock of the connection), `#acSet` (pending opens) | `open`, `close`, `Symbol.asyncDispose` | aborts at every await, rollback of a half-open client, close with running operations |
| plugin reference count (`_plugin-lifecycle.ts`, `_signal-lock.ts`) | `#references`, `#managed`, `#closePending`, a lock per wrapper | `open`, `close`, `retryClose` | a plugin that several clients share; a close that fails and is retried |
| operations (`unikvs.ts` `get` ... `clear`) | the key locks of the connection, one promise per leaf | `set`, `get`, `stream`, `has`, `delete`, `copy`, `move`, `clear` | leaves work in parallel and fail independently; locks must outlive every write |
| repair (`_pipeline-graph.ts` `repair`, `unikvs.ts` `#repairPlain`, `stream`) | write tasks, denials | fills the leaves that lack what a later leaf has | who waits for writes that are under way when something fails |
| value stream (`_to-value-stream.ts`, `ioLockRegistry`) | reader, once-only dispose | read, cancel, dispose, garbage collection | the key lock belongs to a stream that outlives its call |
| onion (`unikvs.ts` `#use`, `_pipeline-graph.ts` encode, decode) | next-called, next-settled, violations | run middleware around each other | a middleware that calls `next` twice, never, or does not await it |
| pipeline graph (`_pipeline-graph.ts` compile, `_pipeline-leaf-resolver.ts`) | nodes, leaves, routes | compile the builder's tree; map a key along a leaf's route | sharing of a middleware among branches, memo of mapped keys |
| stream tree (`_pipeline-graph.ts` `buildEncodeTree`) | tee branches | one source, many writers | releasing every branch when one fails |
| builder and branches (`unikvs-builder.ts`, `_unikvs-branch.ts`) | an array of middleware that grows, the pipelines that were registered | `use`, `persist`, `fork`, `build` | arrays that are shared instead of copied; which storage gets which pipeline |
| contexts, schemas, errors | immutable options | build and validate | none: without state over time |

Interaction: a call of an operation takes the *instance lock* of the client
(shared; `open` and `close` take it exclusively), runs `use` of each
middleware, takes *key locks* of the connection, calls the storages through
their wrappers, runs `afterUse`, and releases. `close` aborts the signal of the
connection, waits for all key locks and closes the plugins through the
reference counts, which other clients share.

### 1.2 The plugins (`packages`)

| group | packages | state and hard part |
| --- | --- | --- |
| wrappers with logic of their own | retry, rate-limit, lru-cache, ttl, soft-delete | queues, caches, expiry records, tombstones: see the hazards in `PROJECT.json` |
| policies | allow-repair, readonly, writeonly, key-prefix, passthrough | no state over time |
| observers | metrics, tracing, debug, tap, checksum, expiry | report or check what passes, once, whichever way a stream ends |
| codecs | base64, base64url, hex, json, superjson, cbor, v8-serde, compression, brotli.\*, zstd.\* | conversions, of streams in chunks that end anywhere: what is held back between chunks |
| storages over a service | redis.\*, valkey, memcached, etcd, http, s3.\*, cloudflare-\*, vercel-blob | several commands per call, each of which may be lost; temporaries of streams; a connection that comes up late |
| local storages | memory, null, localstorage, session-storage, indexeddb, opfs, cache-storage, cookies, fs.\* | temporaries and renames, transactions, opens that overlap |
| cache | vercel-runtime-cache | an index beside the cache, evictions in several steps |
| support | core (types and contexts), utils, testing | shared helpers; the contract tests of plugins |

### 1.3 What is hard, and what must hold

1. *Shared plugins.* However opens, closes, aborts and failures of several
   clients interleave, the count is the number of uses; a plugin is open while
   someone uses it and closed when nobody does.
2. *Settling.* `close` settles under any operation or stream, `open` settles
   when what runs before it does; calls never wait for each other in a circle.
3. *One map.* The leaves of a pipeline are written in parallel and may fail one
   by one. To the callers of one client a key is nevertheless one register:
   each call takes effect at once.
4. *Truth.* What a call answers and what `afterUse` tells the middleware is
   what the storages hold, and "not found" is only said when no leaf may have
   the key.
5. *No writes after the lock.* Whatever fails or is aborted, no storage call of
   an operation is under way once its key lock is free.
6. *Whole pipelines.* Every leaf is handed what all the middleware on its path
   have made, under the key that they have mapped, or the operation fails.
7. *Whole values.* A storage never shows a part of a value, leaves no temporary
   and no connection behind, and answers what was true while the call ran. What
   a codec has written it reads back, in whatever chunks the bytes come.

## 2. Modules

| module | role |
| --- | --- |
| `PluginLifecycle` | one wrapped plugin: count, managed or foreign, open, close, retry of a failed close |
| `UniKvsConnection` | clients that share plugins (EXTENDS `PluginLifecycle`): open, close, rollback, and the operations in between |
| `MCConnection`, `MCConnectionLive` | two clients for TLC, with two configurations; three clients for liveness |
| `UniKvsConnection_proofs` | type correctness for every instance, the inductive invariant and the safety theorems |
| `KVStore` | abstract: the one map that callers may rely on |
| `UniKvsOperations` | the operations of one open client, leaf by leaf; implements `KVStore` |
| `UniKvsOperations_proofs` | types, the inductive invariant of the locks and the leaves, the safety theorems, and that the operations implement `KVStore` |
| `MCOperations` | instances for TLC, three configurations |
| `Onion` | the `next()` contract along a chain of middleware |
| `PipelineGraph` | the walks over the tree of middleware: encode, repair, the trees of streams, `decodeStream` |
| `Builder` | builder, branches, and the compilation of what they registered |
| `Codecs` | nine codecs: streams and whole values, in chunks that are cut anywhere |
| `Observers` | Metrics, Tracing, Checksum, Expiry and Debug around one value or stream |
| `MCPipeline` | these five side by side for TLC (one of them moves in a behaviour); two configurations |
| `PipelineGraph_proofs` | the inductive invariant of the walks, for every graph and every middleware |
| `Observers_proofs` | the inductive invariant of a hook, for every content and every order of source, hook and reader |
| `Pipeline_proofs` | what these two prove, said of the composition in `MCPipeline`, and what the contract of `Onion` gives, for every length of the chain |
| `SoftDelete`, `MCSoftDelete` | the soft-delete wrapper: tombstones, registry, locks; two configurations |
| `SoftDelete_proofs` | its inductive invariants and the theorems about tombstones, values and the registry |
| `Ttl` | the ttl middleware in front of one storage: envelopes, records, restarts |
| `Ttl_proofs` | its inductive invariant: expiry is exact for every plan, lifetime and clock |
| `RateLimit` | the rate-limit middleware: a bucket of tokens behind a queue of promises |
| `LruCache` | the LRU storage: order, bytes, eviction, writable streams |
| `Retry` | the retry wrapper around a storage whose calls may fail after their effect |
| `StorageCall` | what storages have in common: a service that holds contents under names, calls in steps, lost requests and replies, aborts |
| `RedisStorages`, `FileStorages`, `ObjectStorages`, `KvServices`, `LocalStorages`, `RuntimeCache` | twenty-two storages as the steps of their methods (each EXTENDS `StorageCall`) |
| `MCStorages` | plans of calls for each storage, and the properties of them all |
| `MCPlugins` | the four plugins above (EXTENDS `RateLimit`) and `MCStorages` side by side for TLC (one of them moves in a behaviour); two configurations |
| `Plugins_proofs` | the rate and the order of arrival of `RateLimit`, for every rate, capacity and number of requests; what is proved of `RateLimit` and `Ttl`, said of the composition in `MCPlugins` |

### 2.1 PluginLifecycle and UniKvsConnection

`references` and `closeFailed` are the fields of `PluginLifecycle`, `isOpen` is the state
of the plugin itself, `holder` the wrapper lock, and `owners` is history: who is counted.
The application may close a plugin itself (`ClosedFromOutside`), if a client opened
it; that it closes one which it had opened before any client did, so that the next
`open` manages it, is left out (`ConnectionAssumption`). Each operation that may
end without calling the plugin is an `...AtOnce` action; one that calls the
plugin is a `...Starts` and a `...Succeeds` or `...Fails`, so other clients run
in between. A plugin's `open` that throws is taken to leave it closed; a
`close` that throws may or may not have closed it.

A call of `open`, `close` or an operation is a process that runs once, named by
a constant; a connection is named by the open call that made it. `pc` is the
await where the call stands, `task[k][s]` the promise of slot `s`, `conn[k]`
what a close or an operation captured before its awaits. Signals fire in any
state in which somebody still looks at them; a fresh `AbortSignal.timeout(10e3)`
may fire at any time while it is waited on. A wrapper lock that is free is taken
in the step that asks for it. The gap between the grant of a lock and the
continuation of its waiter, in which a signal may still fire, is the state
`closeGranted` and `operationGranted`.

### 2.2 UniKvsOperations and KVStore

`store[l][x]` is what the storage of leaf `l` holds. A call asks for its locks
(`Lock`: transfers lock their keys in key order; `clear` locks all), then each
leaf makes steps of one storage call (`LeafExists`, `ReadLeaf`, `WriteLeaf`,
`CopyLeaf`, `MoveLeaf`, `DeleteLeaf`, `SetLeaf`, `ClearLeaf`), all leaves in
parallel for writes and one after another for reads (`Scan...`). A storage call
that throws leaves one of the contents it may have reached: the old or the new
one, and for a native move also the state with both copies. `Notify` is
`afterUse`, `Respond` the answer; the locks go with the answer, except that a
stream answers first and keeps its lock until `Disposed`. `RepairStarts`,
`Fill` and `RepairDone` are the repair; which of the missing leaves are filled is
left open, as an encode may fail on the way. `Collect` is the garbage
collection of an undisposed stream.

`KVStore` keeps, per key, the *set* of what the leaves hold: one element when
they agree. A call that succeeds makes them agree; one that fails may leave the
new value on some and the old one on others. `ImplementsStore` maps a key that
is locked for writing to what it held when it was locked (`before`, a history
variable), so that all the leaf steps of a call are one step of the map, at its
answer. Two things the abstract map makes explicit because the documentation
does (`website/docs/en/how-to/multi-storage.mdx`): a copy or move leaves the destination alone
on leaves that lack the source, and `afterUse` of an aborted transfer may
report committed leaves.

Taken as given: the asyncmux locks are mutual exclusion (shared and exclusive)
without a queue policy; the contents of a leaf change only through this client;
`onOtherWriteError` of the leaves does not change what they hold; middleware is
present only as the steps at which it can make a call fail.

### 2.3 Onion

One call of `use`, `decode` or `encode` along a chain of `Depth` middleware, and
what lies below the last one. A body may call `next()`, call it again, await it
or not, swallow its rejection, throw, return: every choice is an action, so the
model contains all middleware, also those that break the contract. Which
operation it is, who may end before its `next()` settles (`Hasty`) and who may throw
errors of its own (`Throwers`) is chosen in the initial state from the constant
`Settings` and kept in `setting`, since each guarantee excludes one kind. The
actions of the framework are the checks of the code at the two ends of a body:
`CallNextAgain`, `Leave`, `Returns`, `Throws`. `ViolationSurfaces` leaves `encode`
out: an error of `mapKey` there takes the place of a recorded violation. The three operations differ in
where they check (`use` and the tree of `encode` rethrow what they have recorded
when a body throws, `decode` does not) and in what their bottom does. The
branches of an encode and the stream variants are in `PipelineGraph`.

### 2.4 SoftDelete

A call is a sequence of jobs, each on one key; each call of the inner storage is
one step, and so is the grant of a lock. `inner` is the storage, `registry` the
record under the reserved key; `seen` and `loaded` are what a call has read and
may act on later. `keyLock` is the chain of promises in `#keyTails`,
`regLock` the one in `#registryTail`; a granted registry lock and the load under
it are one step, the save is another. The calls of the pipeline come through a
client, which keeps writers of one key apart (`Excluded`); `restore`, `purge` and
`listTombstones` are called beside it. Two things are not under the key
lock in the code and so not in the model: the close of a value stream
(`Commit`) and `clear`. Tombstones are numbered in the order of their deletion
and expire in that order. `Fail` makes any call of the inner storage throw, with
or without its effect (a `clear` that fails half way is not in the model). Which
calls there are, which of them may fail and whether tombstones expire is the
`plan`, chosen in the initial state from the constant `Plans`. `claims` and `untracked` are history: which call ended
which tombstone, and which keys have a delete that failed since one succeeded.

### 2.5 Ttl

`record` is the field `#expiry`, `stored` the storage: a value and the time in its
envelope, `Never` for streams and for values without a time to live. `staged` is
what `#stage` keeps in the context of the call, `dead` the flag for which `mapKey`
sends a call to a key that does not exist. A call is `Use` or `Encode`, `Lock`, one
step on the storage (`Read`, `Write`, `NothingToTransfer`, `Fail`) and, if it writes,
`Settle`: `afterUse`, still under the key locks of the client. `Decode` comes after
the read lock is released, as `get` without repair does it; `DecodeStream` before.
`Restart` empties the records and ends the calls. Left out: several storages of which
some fail (the documentation names the limits of that), storages without
calls of their own for copy and move, and failures that have an effect.

With `Careful` no `get` runs beside a write of its key. Without it `NoValueIsHidden`
is violated (finding 5), and for the same reason so may be `LiveIsServed` and
`RecordsAreExact`; with it every other pair of calls still interleaves.

What the constants are is `Admitted`, which TLC evaluates (`TtlAssumption`): among it that
the values of a plan are plain (`set`, `get`) or streams (`setStream`, `stream`), beside
deletes, clears, transfers and `has` of either: what a `get` does to the record of a
stream is said in section 4.

### 2.6 RateLimit

`queue` is the chain of promises that starts at `#tail`, `released` the resolved
ones. `Arrive` is `#acquire` up to its first await, `TakeTurn` and `LeaveQueue` the
two ends of `#waitForTurn`, `PassOn` the `releaseAfterPrevious` of a request that
left, `Try` one turn of the loop, `Wake` and `AbortSleep` the two ends of
`defaultSleep`. `elapsed` is the clock minus `#lastRefill`; it is negative after
`SetBack`. Tokens are integers (units), so that the rates need not divide a token.
`elapsed` is bounded by `Enough`, after which a bucket is full in any case.

### 2.7 LruCache

`order`, `sizes` and `totalBytes` are `#map`, `#sizes` and `#totalBytes`; a value is
its size. Every call is one step, since the code is synchronous; a writable stream
is opened, gets chunks and commits on its own. `recent`, a history, is what a
perfect memory of uses would be.

### 2.8 Retry

`Begin`, `Throw` and `Sleep` are `#run`; `pc` is the call of the inner storage that is
under way, one of several if copy or move is done by `#transferFallback`. `Fail` makes
any of them throw, before or after its effect. The call is alone on its keys, as the
client sees to that.

### 2.9 PipelineGraph

A node of the graph is the sequence of middleware that leads to it, so that
destinations with a common beginning share its nodes, as the compiled graph of the
code does. `frame[n]` is the walk of node `n`: its body, how often it called `next`,
how its `next()` stands, which of its entries are served (`at`), what was thrown.
`target[i]` is what leaf `i` is handed, `made` the middleware that have transformed
the data and mapped the key by then. For streams, `input`, `output`, `branch` and
`read` are the halves of split streams, each `free` until somebody reads or cancels
it. One module has six walks (`encode`, `repair`, `streamSet`, `streamRepair`,
`decodeStream`; a repair of plain values passes through a node whose only leaf may not
be repaired), since their code differs in a few guards each; `setting` says which. A
middleware may throw, deny, swallow, call `next` twice, not wait for it, or forget a
stream it has made, as `setting.may` allows. Writes of a repair run while the walk
goes on and may fail or be denied.

### 2.10 Builder

Arrays are objects (`arrays`, with references), because what can go wrong is that one
is shared: `own[o]` is the array that `use` of a builder or a branch appends to,
`dests[o]` those that were registered. `promised` is what each storage was registered
with, a history. `Build` makes the graph, and `GraphIsFaithful`, `EntriesAreOrdered`
and `KeysFollowPaths` compare it, its order and the keys of its leaves with what was
registered. Left out: `branch.fork(branch)`, which appends to the array
that it walks and never ends.

### 2.11 Codecs

`encodeStream` converts `source` in chunks cut anywhere; `decodeStream` reads `wire` in
chunks cut anywhere else, or without its end, or a text of somebody else. `carry` and
`buffer` are what the two hold back. base64, base64url and hex are digits with their
padding; V8Serde and Cbor frames in a byte queue that grows (`Reserve`); Json and
Superjson lines; Zstd and Brotli of Bun gather a whole stream. A byte is a number and
the alphabet is the number of a digit; the format of one serialized or compressed
value belongs to a library and is a value between two marks, or a broken one: `Reserved`
and `Malformed` stand for what makes cbor-x throw for good or as if bytes were missing.

### 2.12 Observers

A stream is two queues, from the source through the transform of the hook (`inner`)
and from what the hook reads itself to its reader (`outer`). Metrics, Tracing,
Checksum, Expiry and Debug differ in which of them they use and in when they settle.
`reports`, `summary` and `told` are what the application gets to see. The source may
fail, the reader may cancel, and time may pass, between any two chunks.

### 2.13 The storages

`held` is what the service holds under each name; names are the keys and the
temporaries of the calls. A content is the call that wrote it and the chunks it has.
Each method is one action per command it sends, with its guards, the looks at the
signal and the order of the source; the actions have the names of the storage and of
the method (`NodeMove`, `S3Clear`, `EvictBackendIfNeeded`). A command may fail before
or after its effect; a signal may fire at any time. `seen` is history: what the keys have held while a call was under way, which
`AnswersAreTrue` compares the answer with. A *plan* is up to three calls: in turn, as
the key locks of a client order them, or at once, as several processes would.

Where the code promises less the properties say so by name, in `MCStorages`:
`InPlace` (fs copies and opfs write the destination in place), `Evicts`, the removals
of a failed `clear` of s3.bun that go on, and `MayFollow`, what a call may still send
after its signal has fired, where the code does not look at the signal between two
commands (section 4). Plans leave out what the code has nothing against when several processes work at once (section 4): a
redis stream beside a `clear`, a move of an object store beside a write. The limit of
the runtime cache is checked when calls come one after another: the evictions of two
calls at once choose from one index, and several instances have one each (`website/docs/en/packages/(storage)/vercel-runtime-cache.mdx:13`).

## 3. Runs

| run | question | bounds |
| --- | --- | --- |
| `MCConnection` | the count is exact; plugins open under live connections and operations, closed when unused; every use has a releaser; no dead connection is kept | client a has a plugin of its own and shares one with client b; either a opens and closes twice, or one open and close each beside an operation of a; a plugin may be open before or be closed by the application |
| `MCConnectionLive` | `close` and `open` settle, for two clients that contend for the wrapper lock of a plugin they share, and with two closes of one client at once; a foreign plugin is left alone | two clients with one shared plugin, which may fail to open or close: an open and a close each; apart from them a client with a plugin that was open before: two opens, two closes, an operation that never ends or a stream that is never disposed (`OneGroup`: they share nothing, so its calls and theirs overlap in no behaviour) |
| `MCConnection_twice` | *violated*: see finding 1 | two closes of a, one of b |
| `MCOperations` | one atomic map; `afterUse`, streams and repair under the lock | two leaves, one faulty, two keys, two values; two calls on one key, or two among copy, move and set on two keys, or one call of each kind |
| `MCOperations_live` | every call settles | two calls among copy, move, clear, stream on two keys; streams may be collected |
| `MCOperations_gc` | *violated*: see finding 2 | repairing streams that may be collected |
| `pipeline` | Onion: whatever middleware do, a broken rule fails the call, nobody is skipped, nothing runs when the storages are called. PipelineGraph: the same over a tree, every leaf gets all of its path, denials surface, no stream is forgotten. Builder: a storage keeps its pipeline and is reached through it. Codecs: chunks make no difference to what is written, read or refused; what is read is what was written, or its beginning if bytes are lost. Observers: one true report, and whole streams | Onion: chains of four; graphs of up to four leaves with shared beginnings, with and without a gate for repair, bodies behind one another that do not wait, each set of missing leaves that matters; Builder: two branches; all prefixes of five bytes and of three values in every cut, all texts of up to five digits, lost ends, broken lines, frames and items; five contents of up to four bytes, clock up to 2 |
| `onion_swallow` | *violated*: see finding 3 | three middleware of `decode` |
| `soft_delete` | registry and tombstones agree, a tombstone ends once, values are kept, a purge counts what it removes, deleting again registers a tombstone, the locks never deadlock and failures leave none behind | one group of calls: delete, set, restore, purge on one key; move, delete, purge of everything on two keys; list, delete, get, copy on two keys; two deletes, a stream and a clear that may fail |
| `soft_delete_stream` | *violated*: see finding 4 | a stream, a purge and a delete on one key |
| `plugins` | Ttl: nothing expired is served, nothing alive is hidden; RateLimit: the rate, the order of arrival and an answer for everybody; LruCache: its limits, its count of bytes and what it evicts; Retry and the storages: the answer is true, no value is lost, an abort stops a call before its next command (but for `MayFollow`), nothing is left half done | Ttl: six groups of up to three calls on two keys, times up to 2, one restart; RateLimit: three requests, a token of 3 units, 2 units a tick, a bucket of 4 units, one setback of a tick; LruCache: three keys, sizes 1, 2 and 4, limits of 0, 2 or no entries and of 3 or no bytes, one stream; Retry: every call, two retries, with and without native transfers; twenty-two storages: two keys, values of two chunks, plans of up to three calls of which two may be aborted (one, in two plans of calls at once), one cache entry |
| `ttl_stale` | *violated*: see finding 5 | the Ttl of `plugins`, with gets beside writes |

Why the bounds are enough: a count needs a second holder to be wrong, a lock a
second contender, an order of arrival a third, a circular wait two keys; a leaf that fails needs one leaf
beside it that does not. Every interference in the code is between two calls
(or two clients) at a time. One run covers several groups of calls: the constraint
`OneScenario` of its MC module, which looks only at which calls take part, cuts
the combinations of groups off, and initial contents that no call of the group
looks at. Symmetry is used for calls and for values that
are interchangeable, and never in a run with a liveness property. In `MCPlugins` time and
the uses of a cache go on for ever; elsewhere calls are one-shot, so the runs end:
`Terminated` (`Quiet` in `Onion`, `Done` in `MCStorages`) keeps TLC's deadlock check on for every other state.

### Fairness

`MCConnectionLive`: the promise jobs of open and close continue, a plugin's own
open and close settle, and the signal of a close fires (its default is
`AbortSignal.timeout(10e3)`). Weak fairness is enough for the wrapper locks: a call
takes each of them at most twice. Nothing is assumed of operations and streams,
nor of the signal of an open.
`MCOperations_live`: storage calls settle, a lock that is free is granted, and
streams are read to the end, cancelled or disposed, which the documentation asks
of the caller. Aborts are never assumed.
`pipeline` states no fairness: it has no liveness property.
`soft_delete`: the inner storage answers (weakly fair
steps), and a lock or the client's turn is granted to each who asks again and
again (strongly fair), since the locks are queues of promises: whoever asks later
is served later. Expiry and failures are never assumed.
`plugins`: only `RateLimit` needs fairness: time passes, and the promises and timers
of each request continue. Aborts, setbacks and new requests are never assumed.

## 4. Findings

1. `MCConnection_twice`: a second `close` whose signal fires while it waits for
   the instance lock releases the plugins a second time, under another client
   that shares them (`unikvs/src/unikvs.ts:478`, against the comment at 477).
2. `MCOperations_gc`: the lock of a collected stream is released before its
   repair writes have ended (`unikvs/src/unikvs.ts:85`, against the comment at
   1034).
3. `onion_swallow`: `decode` and `encode` lose a recorded violation when the
   middleware that committed it throws something else
   (`unikvs/src/_pipeline-graph.ts:485`, against `_pipeline-graph.helpers.ts:58`).
4. `soft_delete_stream`: a value stream commits without the key lock, so a purge,
   sweep or restore may erase or overwrite it
   (`packages/soft-delete/src/soft-delete.ts:244`, against 703 and 469).
5. `ttl_stale`: a `get` that decodes after a later `set` restores the record of the
   value that was replaced; the new one, which never expires, is hidden from then on
   (`packages/ttl/src/ttl.ts:269`, against
   `website/docs/en/packages/(middleware)/ttl.mdx:98`).

More were met on the way and have no run of their own:

- A reference that a timed-out close leaves to "the next close"
  (`unikvs/src/unikvs.ts:476`) is not released by it, as that close has no
  connection any more. `EveryUseHasAReleaser` counts such a use as left behind.
- `use` succeeds while an inner middleware still runs, if the one that did not
  await it throws and an outer one swallows that (`unikvs/src/unikvs.ts:2261`,
  against the comment at 2145). This is why the hasty middleware of the `pipeline` run
  throw nothing of their own.
- A purge counts a tombstone that it did not remove: `clear` takes no key lock, so it can
  empty the storage between the check of the purge and its delete, whose
  KeyNotFoundError is swallowed (`packages/soft-delete/src/soft-delete.ts:717`, against 691
  and `website/docs/en/packages/(storage)/soft-delete.mdx:108`). `PurgesAreTrue` is about
  plans without a `clear` for that reason, and no plan of the run has one beside a purge.
- When `decode` finds that a plain value has expired it drops the record but not the
  value, so `has` and `copy` find the key again (`packages/ttl/src/ttl.ts:263`). A `get` of
  a key that holds a stream drops the only trace of when the stream expires, so it
  is served again. `ExpiredIsNotServed` is about what `get` of plain values and
  `stream` of streams serve, and no plan has a `get` of a key with a stream.
- A `move` or `delete` that is tried again after its answer was lost reports a missing
  key (`packages/retry/src/retry.ts:465`). `AnswerIsTrue` asks of that answer only that
  the key is missing.
- A stream that was opened in an earlier session of an LRU cache commits into the
  reopened one (`packages/lru-cache/src/lru-cache.ts:304`).
- A clock that jumps ahead fills the bucket of the rate limit
  (`packages/rate-limit/src/rate-limit.ts:293`); in the model it is only set back.

In the pipeline:

- In the repair of a stream, a middleware that wraps the failure of its inner one makes
  the failure of the setup a logged one and the read succeed, unlike what the comment at
  `unikvs/src/_pipeline-graph.ts:1395` says, and what is left of the split stream is not
  cancelled. `NoStreamIsForgotten` therefore excludes who swallows from its second part.
- A middleware that does not await its `next()` in a repair lets writes start after the
  repair has ended. `NothingRunsAfterwards` is for graphs without one (`Hasty`).
- A middleware that swallows a failure in `encode` or in the tree of a stream drops the
  leaves and branches behind it without a trace; `NobodyIsSkipped` names it.
- A denial is lost in an outer middleware that swallows it, even when
  `throwOnRepairDenied` asks for it; `DenialsSurface` names it.
- Middleware that follow the last `persist` of a branch are dropped without an error.
- Metrics records a stream that its reader cancelled as an error, while Tracing ends its
  span as a success; a stream that is neither read nor cancelled is not reported; a
  tracer that throws fails the operation.
- Bytes that have lost their end are read as fewer values, without an error, where they
  end between two pairs of hex, groups of base64 (also inside of one, without padding),
  frames of V8Serde, items of Cbor or lines of Json and Superjson; `ConversionsAreFaithful`
  asks for a beginning of what was written there. Only Zstd and Brotli notice every cut. A
  JSON number that is cut at the end of a stream is read as another one (the values of
  the model have a mark at either end, so this does not show in the run).
- An item of Cbor that is broken drops the values that came in the same chunk before it.

In the storages:

- fs.node and fs.bun copy in place, and opfs leaves an empty file when a write fails
  (`packages/opfs/tests/opfs-streams.test.ts:175`).
- A `clear` of fs that ends between the removal of the root and its creation leaves no
  root (`packages/fs.node/tests/node-fs-errors.test.ts:168`).
- A `move` of redis whose reply was lost reports a missing key although it has moved the
  value; `AnswersAreTrue` asks only that the key is missing.
- A `clear` of another process removes the temporary of a stream of redis or valkey; the
  next append makes it anew, and the rest of the value is committed, although
  `website/docs/en/packages/(storage)/redis-node.mdx:120` calls the replacement atomic.
- A `move` of an object store removes what another process has written after the copy.
- `clear` of memcached empties the whole server; its `close` ends a client that was
  handed in. cloudflare-r2 never looks at whether it is open.
- The removals of a failed `clear` of s3.bun go on behind it
  (`packages/s3.bun/src/s3.ts:319`).
- Not every command is preceded by a look at the signal. After an abort one more is sent
  by: a `clear` of redis.node and redis.bun, the DEL of the page it was scanning
  (`packages/redis.node/src/redis.ts:681`, `packages/redis.bun/src/redis.ts:371`; valkey
  ends the SCAN); a `move` or a stream of valkey, the PEXPIRE behind its RENAME
  (`packages/valkey/src/valkey.ts:609`); a `write` of fs.node and a stream of fs.bun, the
  rename of the temporary; a stream of memory, its commit; a `clear` of opfs, which always
  restores the root. A write of the runtime cache goes on to evict. Each of these is
  named in `MayFollow`, and nothing else is sent after an abort (`AbortStops`). Not counted
  are the question whether the key is there, after a rename that failed, and the removal
  of a call's own temporary.
- A stream of valkey whose PEXPIRE fails reports an error although the value is there.

## 5. Proofs

`UniKvsConnection_proofs.TypeCorrect`: `Spec => []TypeOK` for all clients,
plugins, slots and calls.

In the same module `Spec => []IInv`, and from it `CountIsExact`,
`NothingStaysOpen`, `UsedPluginsStayOpen`, `DeadConnectionsAreDiscarded` and
`NoUseIsForgotten`, for
finite sets of calls and slots and under `ConcurrentClose = FALSE` (finding 1 is
the counterexample without it). None of these is inductive alone: that the count
is right depends on who still has to release what, which depends on where each
call stands. `IInv` therefore adds the ownership of uses by slots and calls, the
exclusion of the instance lock (one open or close past its lock, no operation
beside it), who holds a wrapper lock, and what each task promises about the
count. The count itself is the cardinality of the set of uses; the lemmas on
cardinalities carry it over a step that adds or removes one. `NoUseIsForgotten` adds two
parts: `HolderInv`, that a plugin's own open or close runs for a task that waits for it,
and `ReleaseInv`, that every use has somebody who will give it up, and that a use which is
still counted where a close has been was left behind by that close: its signal cut it off,
or the plugin was closed from outside. A managed plugin is never closed from outside while
it is inside its own open or close, which is what `HolderInv` is needed for.

`Pipeline_proofs`, of `Onion`: for every depth and every setting, `Spec => [](Careful => P)`, where
`Careful` says that the operation is `use` and nobody leaves before its `next()`
settles (a property of the rigid `setting`) and `P` is `TypeOK`,
`ViolationSurfaces`, `NothingRunsAfterwards` or `NobodyIsSkipped`. The
invariant relates the bodies of the chain: those that have been called form a
prefix, those that have ended are inside those that have not, and a frame that
ended well has no violation inside it, because a violation that a frame hears of
is recorded there. Finding 3 and the second observation above are the
counterexamples without `Careful`.

`UniKvsOperations_proofs`: `OperationTypes` needs no assumption. Under `Collects = FALSE` (streams are disposed before they are collected;
run `MCOperations_gc` is the counterexample otherwise), for all leaves, whichever of
them fail, keys, values and calls: `AfterUseIsTrue`, `StreamsAreStable`,
`RepairsAreLocked`, and `Refinement`, that the client implements `KVStore`. The
invariant `IInv` has three parts. `ProgressInv` says which task labels go with which
state of a call and which answer. `LocksInv` says that a call at work has the locks it
wanted and that those exclude each other. `LeavesInv` says what the leaves hold: for
every call at work there *is* a function `old`, what each leaf held when the call
locked its keys, of which `before` is the set per key; a leaf on which the call has not
written still holds it, and the label of any other leaf tells what it holds instead,
in terms of `old`. The witness never changes while the call works, since no other call
writes under its locks, so each step has to be shown for one leaf only. For the
refinement: a key that is locked for writing shows `before` until the locks are given
up (`VisibleOwned`), so every step but the first and the answer stutters
(`VisibleStays`); at the answer the keys show what the leaves hold
(`VisibleReleased`), and `LeavesInv` with the labels gives, per kind of call, the step
of `KVStore` that the answer promises.

`SoftDelete_proofs`: `SoftDeleteTypes` (with the exclusion of both locks),
`TombstonesEndOnce` and `RegistryForgetsNothing` for all calls, keys and plans, with
failures, expiry, streams and clears. Without streams in the plans: `ValuesAreKept` and
`TombstonesAreKeptTrackOf`; without streams and clears: `PurgesAreTrue`. What is excluded
are the counterexamples: run `soft_delete_stream`, and the purge beside a `clear` of
section 4. (A stream also commits over a tombstone before it tidies the registry, with no lock between the two, so
that `RegistryIsExact` cannot hold beside one.) Each theorem has its own inductive part
over the common one, which says that the call at work on a key has its lock: `FateInv`
keeps apart the tombstones that are there, those that a call is about to end and those
that have ended; `ListedInv` says who will still list a tombstone that is not listed;
`KeptInv` and `SureInv` say that what a call saw of its key before it asked for the
lock, or under it, still decides what it may do; `ExactInv` says that the registry a
call is about to save is the current one.

`Plugins_proofs`, of `RateLimit`: `RateLimitTypes`, `GrantsRespectTheRate` and `NobodyOvertakes` (together
the `GrantsAreDue` of the run) for
all callers, rates, capacities and setbacks that the constructor admits
(`RateLimitAssumption`). That the credit is never negative is not inductive: `BucketInv`
says that what a refill *now* would leave in the bucket is at most the credit, which a
tick keeps because both sides are capped by the capacity, and which a setback can only
make easier. `QueueInv` says that whoever has its turn, or has had it, is
preceded by released requests only; since a place that was left is released only behind
its predecessor, one released predecessor means that all are (`AllBefore`).

`Ttl_proofs`: `RecordsAlwaysAreExact`, `LiveIsAlwaysServed`, `ExpiredIsNeverServed` and
`NoValueIsEverHidden` for all keys, calls, lifetimes, plans that are `Admitted`, and an end
of the clock, under `Careful` (finding 5 is the counterexample without it). That a
record is exact is a statement about the stored value, and between a write and its
`afterUse` it is false of that; `RecordsOK` says it of the value that the last settled write has
left, at all times, and `StoredOK` says that the two are one value unless a write of the
key is unsettled (`Unsettled`). That nobody else is near the key then is `LocksOK`;
that a `get`, which has given up its lock, still has in hand what is stored is `CarefulOK`. A transfer carries
the record of its source over, which is the right one only because the value it has stored
is the settled one of the source (`WriteOK`). `Plugins_proofs` carries this over to
`MCPlugins`, where it is `ExpiryIsExact` of the run `plugins`.

`PipelineGraph_proofs`: for every graph of paths, every set of missing leaves, every
operation and whatever each middleware may do, `TypeOK`, `TargetsAreWhole`,
`NobodyIsSkipped`, `ViolationSurfaces`, `NothingRunsAfterwards`, `DenialsSurface` and
`NoStreamIsForgotten`. The assumption is `IsSetting`: paths without an empty middleware,
a set of missing leaves, a set of deeds per middleware. The properties speak of a node
and of its ancestors when everything is over; the invariant `Inv` says what each step has to
keep until then: `LocalOK`, what a frame may look like by itself; `LinkOK`, how it stands to
that of its parent (it runs only while the parent's `next()` does, and how it ended is what
the parent was told); `ServedOK`, which entries of a node have been served and what has
become of each that was; `TargetsOK`, that a leaf has only been handed what its own path
made; `OutcomeOK`, what the root says of how it all ended; `StreamsOK`, who owns each input,
output, half and read stream. From a node to the leaves below it the proofs go along the
path, by the least length at which something would be wrong (`LeastOf`), since an
induction theorem with an operator for its parameter is out of reach.

`Observers_proofs`: for every hook, every content however it is cut, every size of the pieces and
every clock, `TypeOK`, `ReportedOnce`, `ReportsAreTrue`, `StreamsArriveWhole` and
`ChecksumHolds`. The assumption is `Admitted`: the kinds of hooks, contents that are
sequences of chunks of bytes, pieces of at least one byte. `StreamsArriveWhole` is not
inductive: `WholeOK` says that what has arrived, what is queued on either side of the hook,
what was dropped and what the source still has are the content in this order, and
that nothing is dropped as long as the stream goes on or has ended well; `EndOK`, how
the ends of the two queues and what the reader was told go together; `HashOK` and
`CountOK`, that what was hashed or counted is what has been taken from the source;
`ReportOK`, that there is a report if and only if the operation is settled, and what
it says will stay true. These rest on lemmas about `FlattenSeq`: it is its first
chunk before the rest (`FlatHead`), and the pieces of a chunk are the chunk
(`PiecesAre`, by induction on the number of pieces as membership in a set of numbers,
`AllNumbers`).

`Pipeline_proofs` carries both over to `MCPipeline`, where they are `EveryLeafIsServed`,
`WalksEndCleanly`, `NoStreamIsForgotten`, `ReportsAreTrue` and `StreamsArriveWhole` of the run
`pipeline`: a behaviour of the composition is one of each part, which stands still
while another moves. What the parts assume is `WalksAssumption` and `HooksAssumption`
there, which TLC evaluates.

What the attempts to prove these have shown, and changed:

- In a repair whose middleware may end before its `next()` settles (`Hasty`), an inner body
  can break a rule, be denied or drop a stream when nobody listens any more: with
  paths `<<"G", "A", "B">>`, `<<"G", "A">>` and a body of A that hurries, the read
  succeeds. `ViolationSurfaces`, `DenialsSurface` and `NoStreamIsForgotten` are stated for
  graphs without such middleware, and the run has such walks (`Hurried`), so that
  without the condition it fails. The runs before had no node behind such a node.
- `DenialsSurface` is about repairs; `encode` has no denials, and a setting of `encode` may
  well carry the option. That a repair never fails the read otherwise is stated for plain
  values: in the repair of a stream a middleware's own error in the setup fails it
  (`unikvs/src/unikvs.ts:983`). A denial while a leaf is filled, after the read has been
  answered, is only logged (`unikvs/src/unikvs.ts:890`) and is not modelled.
- Two `CASE`s of `PipelineGraph` had guards that overlap; what they mean then is left to a
  choice that TLC makes in one way and the provers in none. They are `IF`s in the order of
  the code now.
- Of `Observers` the first invariant was true and not inductive: a queue behind a stream that failed or was
  cancelled had to be empty, and the two queues had to be cancelled together (`EndOK`).

All of these invariants were model-checked on the instances of the runs before they
were proved.

Only model-checked: `ConcurrentClose = TRUE` and `Collects = TRUE`, all liveness
(out of the prover's reach), `SoftDelete` beside streams except for what is named above,
`decode` and `encode` in `Onion`, `Builder` and `Codecs` in `MCPipeline` (both are folds, over calls and over bytes: what a fold
computes for every input takes an induction whose step is an operator), and with them
`PartsTypeOK` as a whole; the parts of `MCPlugins` but `RateLimit` and `Ttl`.

## 6. Not modelled, and the plan

Not modelled: the contents of errors and logs, contexts and input schemas, the
builder's variables and type-level checks; the policies and tap, which filter or
forward single calls; codecs that hand their chunks to a transform of the platform or
of a WebAssembly library; the storages null and session-storage (the one keeps
nothing, the other is localstorage on another object); the retries and connection
pools of the client libraries under the storages. `PROJECT.json` lists each part with
the reason, and the hazard that no property covers with a note: which of two locks is
granted first is decided by a library outside of this repository.

In order, proofs first:

1. `LruCache`: `WithinLimits`; `BytesAreExact` is a sum over a map and may stay with TLC.
2. `Retry` and `StorageCall`: `ValueSurvives` and `AbortStops`; for the storages,
   `AbortStops` and `NothingIsLeftBehind` from the steps that calls are made of, then
   for one storage of each module.
3. `Builder`: `PipelinesAreKept`, for every sequence of calls.
4. Models that are left: `use` and `afterUse` of the observers and policies, another
   process beside the transfers of the storages, several storages under Ttl.
