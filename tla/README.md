# A verification project for @zanix/datamaster

`@zanix/datamaster` is the data layer of the Zanix framework (Deno, TypeScript): connectors for MongoDB, Redis,
SQLite, Elasticsearch and SeaweedFS/S3, and what is built on them. A persisted dead-letter queue, caches, persisted
triggers, object storage with key rotation, log shipping, seeders, data protection. Most of its code runs in one
event loop and talks to a database that other replicas talk to as well. So its hard behaviours are interleavings at
`await` points, between processes and within one, and requests that fail, time out or lose their answer.

These TLA+ modules model the parts in which several actors, timers, failures or policies meet. TLC checks them on small
instances; TLAPS proves for all values of the constants every property of these runs that holds, liveness excepted.

All paths below are relative to `src/src/modules/` unless they begin with `docs/`.

## 1. Inventory

| Component | State it keeps | Operations | Interacts through | Hard behaviour | What makes it correct |
|---|---|---|---|---|---|
| Dead-letter queue, `dlq/` | the entries collection: status, attempts, lease, error history | push, claim, release, complete, fail, requeue, discard, remove, get, list | one MongoDB collection shared by the consumers of all replicas | leases expire under a live worker; skewed clocks; lost replies; fail() reads, then writes | one holder for each running lease; settlements are fenced; every failure is recorded against its attempt; entries drain |
| Bulk buffer, `observability/bulk-buffer.ts` | the batch, one timer | push, flush | callbacks; `onFlush` sends a batch to Elasticsearch | overlapping flushes; a timer against an explicit flush | every item handed over once and in order; no batch without a timer |
| Redis connector, `cache/providers/redis/connector/` | the client, `connected`, `isReady`, the module's list of timeouts | set, get, has, delete, clear, keys, close; `execWithRetry` | events of the client; the list of timeouts is shared by all connectors | reconnects; attempts that lose a race with a timeout; cleared timeouts | one execution for each attempt; every command settles |
| Redis pipeline scheduler, same directory, `scheduler.ts` | the MULTI being filled, a timer, the flag `flushing` | addSet, flush, shutdown | `execWithRetry` of the connector, unbound | commands queued while a flush is in flight; flushes that never end | order, serialization, nothing lost, everything sent in the end |
| Persisted triggers, `database/providers/mongo/connector/triggers.ts`, `.../processor/triggers/`, `triggers/` | the triggers collection; a registry in each process | boot reconciliation, refresh, polling, change stream, admin create/update/remove | the collection; post hooks; change events | boots racing boots and administrators; refreshes answered out of order; boots cut short | registries converge and are snapshots; custom and edited entries survive; the code takes effect once |
| Rotation of encryption keys, `storage/rotation*.ts` | where the walk stands, result lists | rotateEncryptionKeys, checkEncryptionRotationStatus | a bucket the application uses at the same time | check, read, re-check, write in separate requests; pages that shift | nothing due is skipped; "safe to retire" is true; lost updates only in the documented window |
| Fallback object storage, `storage/fallback-object-storage.ts`, `sync-local-objects.ts` | two stores, a memoized promise | put, get, exists, delete; the copy | the stores; the memo in each process | the copy against puts and deletes; a copy that fails and restarts | reads never miss; after the copy nothing is local only |
| SeaweedFS connector, `storage/connector.ts`, `encryption.ts` | none of its own | put, get, delete, exists, listPage, getMetadata | HTTP | failed requests | modelled as the requests of the two components above |
| Local filesystem storage, `storage/local-filesystem-object-storage.ts` | two files for each object | put, get, delete, exists | the file system | a crash between the two files | bytes and metadata agree |
| QLRU cache, `cache/providers/qlru/` | a Map in order of use, expiry times | set, get, has, delete, clear, keys | one event loop | eviction at capacity, expiry, KEEPTTL | at most `capacity` entries, and the right one evicted |
| Cache provider, `cache/providers/mod.ts` | none of its own | getCachedOrFetch, getCachedOrRevalidate, saveToCaches, withLock | both caches | background revalidation against saves | no stale value over a newer one |
| Log adapter, `observability/` | the buffer above, indices | save, flush, ensureIndex, bulkIndex | Elasticsearch, workers | partial failures of bulk requests; concurrent index creation | what is accepted is stored, or reported |
| Trigger hooks, conditions, dispatch, `database/providers/mongo/processor/triggers/` | the registry above | hooks of save, update, delete; dispatch | Mongoose middleware | the refetch after an update uses the filter of the update | a trigger fires for what has changed |
| Seeders, `database/utils/seeders/`, `.../connector/seeders.ts` | the seeders collection | run once for each version | the collection | partial insertMany, several replicas | every seeder takes effect, once |
| Model statics, `.../schema/statics/` | a replaced `Model.create` in a transaction | transactions, bulk writes, upserts, find, search, pagination | the Mongoose model | two transactions at once; retries of bulk writes | the session of a transaction is used by that transaction alone |
| Data protection and access, `database/policies/`, `.../middlewares/data-protection.ts` | protected fields, a snapshot | protect on save, unprotect on read | Mongoose middleware | a failed save that is retried | a field is protected exactly once |
| Key-value store, `database/providers/sqlite/` | a table with expiry | get, set, delete | SQLite | expiry | no expired value is returned |
| Files, triggers API, loaders, typings | none, or registrations at import time | single calls | | | |

## 2. Plan

In the order of their weight for the system; the order in which the modules were written.

1. `DLQ` (with `MCDLQ`, `DLQ_proofs`). *Done.*
2. `BatchSink`, an abstract specification, `BulkBuffer`, which implements it, and `LogSave`, which extends the buffer
   by what becomes of its batches (with `LogSave_proofs`). *Done.*
3. `RedisRetry` and `RedisPipelineScheduler`; `MCRedis` instantiates both (with `Redis_proofs`). *Done.*
4. `TriggersRegistry` (with `MCTriggersRegistry`, `TriggersRegistry_proofs`). *Done.*
5. `ObjectRotation`, `FallbackStorage`; `MCStorage` instantiates both (with `Storage_proofs`). *Done.*
6. `QLRU`, the local cache, and `CacheProvider`, which extends it with Redis and the fetcher (with `Cache_proofs`).
   *Done.*
7. `Protection`, the values of protected fields, with `Documents` (with `MCDocuments`, `Documents_proofs`), the life of
   such a field under hooks, key rotation and triggers, and `Serialization`, what a session is shown of it. *Done.*
8. `Seeders`, `Transactions`, `KVStore`, `LocalObjects`, `Pagination`, `Dispatch`, `Transforms`, which `MCParts` puts
   together with `Serialization` (with `MCParts_proofs`); `MCModels` has the constants of all of them for TLC. *Done.*

Composition. `BulkBuffer` refines `BatchSink` by `INSTANCE`, and `LogSave` runs the buffer with its real consumer, so
that its properties are those of logs and not of a buffer alone. `CacheProvider` extends `QLRU`: its calls go through
the very cache whose order of eviction `QLRU` states. `Documents`, `Serialization` and `Dispatch` meet in one model of
the application: `Documents` decides what a trigger is handed, `Dispatch` what becomes of it, `Serialization` what a
response shows. `RedisPipelineScheduler` contains `execWithRetry` as it runs there (unbound), which is not the
`execWithRetry` of `RedisRetry`. `ObjectRotation` and `FallbackStorage` use the object store as atomic requests, and
`LocalObjects` shows what the local store makes of one.

## 3. What is modelled, and how it corresponds to the code

One atomic step is what a process does between two `await`s, or one request to a store, whose effect and whose
answer may be separate where the code can tell. Payloads, texts and metadata that no guard reads are left out. A
variable marked `ghost` in a module is not state of the program: no guard of a program step reads it, and only
properties do.

### `DLQ`: `dlq/dlq.provider.ts`, `dlq.model.ts`

- `store[id]` is the document; 0 stands for a lease that is not there. `clock` is the time of the slowest instance, and every `new Date()`
  may read up to `MaxSkew` more.
- A worker is a loop that claims, processes and settles; `held[w]` is what the caller of `claim()` keeps.
- `claim()` reads its clock (`ClaimRead`) and is applied later (`Claim`) to the oldest eligible document. `fail()`
  reads (`FailRead`) and writes later (`FailWrite`). `complete()`, `release()`, `requeue()`, `discard()` and
  `remove()` are one request each. Every one may lose its answer; the caller of a settlement then tries again.
- `Crash` is a worker that dies with what it holds. `Tick` may let a lease run out under a live worker.
- `grant` and `ended` are ghosts: they number the claims of an entry, and say which of them are over.

### `BulkBuffer`: `observability/bulk-buffer.ts`

- `items`, `handle` are the private fields; `timeouts` is what the event loop still has to fire, `flights` are the
  `onFlush` calls in progress.
- The order of the code inside a flush matters and is kept: it returns early when empty *before* it clears the
  timer, and swaps the batch out before it awaits.
- `Settle` includes the rejection of a flush nobody awaits (the one of a timer or of a full batch), which ends the
  process.
- `BatchSink` is the contract in three actions, with no batches, timers or calls in flight.

### `LogSave`: `observability/log-adapter.ts`, `connector.ts`, `worker-flush.ts`

- Extends `BulkBuffer`: each batch that is handed over starts a flight, `onFlush`, which runs `ensureIndex` (`HEAD`,
  then `PUT`) if `indexInitialize` is set, and one `POST _bulk`.
- A request fails, or loses its answer. A bulk request resolves although documents in it were refused, and nobody
  looks at its `failedCount`; the report of a failure is no log, since it says `noSave`.
- `OtherCreates` is another process that creates the index. Elasticsearch accepts any of the documents of a request and
  refuses the others (`Accepted`).

### `RedisPipelineScheduler`: `cache/providers/redis/connector/scheduler.ts` with `retries.ts`

- `pipeline`, `timer`, `flushing` are the fields; `timeout` says whether the timer is live, since the handle stays
  set until a flush ends. `call` is where `execWithRetry` stands, `wire` are the blocks sent and not answered.
- `execWithRetry` is passed as an unbound method (`mod.ts:135`), so `this` is the scheduler: the timeout is zero,
  and `attempt >= this.maxCommandRetries - 1` is never true. The model follows the code in this.
- `Finish` is the `finally` block: it discards whatever is queued by then.

### `RedisRetry`: `retries.ts`, `mod.ts`

- The commands of a connector over a connection that becomes ready, breaks and closes. A connected client runs a
  command directly; otherwise the attempt races with `commandTimeout`. An attempt that loses is abandoned, and Redis
  may still execute it.
- `ClearTimeouts` is the module-level `clearTimeouts()`, called by every connector's events.

### `TriggersRegistry`: `connector/triggers.ts`, `processor/triggers/registry.ts`, `sync.ts`, `defs/triggers.ts`, `triggers/triggers.repository.ts`

- `entries` is the collection; `registry[r]` and `static[r]` are the stores of process `r`; `plan[r]` is what its
  boot has decided and not written yet.
- Each request of the boot is a step: read, deleteMany, the parallel updateOnes, insertMany (ordered, up to the
  first duplicate), the final refresh. `Stop` may come between any two of them.
- A refresh is a read (`RefreshRead`, `PollRead`) and a replacement (`RefreshApply`, `PollApply`) in any order.
- Post hooks fire for the statics the model registers hooks for, and not for insertMany and deleteMany: `Commit`
  and `CommitSilently`.
- A trigger configuration is one value; comparing two stands for the comparison of the whole configuration.

### `ObjectRotation`: `storage/rotation-core.ts`, `connector.ts`

- An object is its plaintext and the version of its key; the checksum is over the plaintext.
- `List`, `RotateHead`, `Get`, `Recheck`, `Put` are the requests of a rotation, `CheckHead` that of a check. Every
  one may fail, and a put may lose only its answer.
- `Write` is the application, under the active key or, with `OldWriters`, under an older one.

### `FallbackStorage`: `storage/fallback-object-storage.ts`, `sync-local-objects.ts`

- `primary` and `fallback` are the stores; `sync[p]`, `todo[p]` and `copying[p]` are the copy of process `p`, which
  its operations start and wait for. get() and exists() make the same requests and are one operation, lookup.
- A delete makes its two requests at once; they take effect in any order, and one may fail.

### `QLRU`, `CacheProvider`: `cache/providers/qlru/connector.ts`, `cache/providers/mod.ts`

- `QLRU!cache` is the Map in its order; `set()` and a hit insert anew, `set()` with `schedule` stores later what it
  was given now, `Evict` is what `size()`, `keys()` and `values()` do first.
- A value is the instant it was fetched at, which is all the properties are about. `calls` are the requests of the
  application; `Redis` answers, fails or is late, and another process saves what it has had for a while.
- `getCachedOrFetch` and `getCachedOrRevalidate` are the two methods of a call; the refresh of the second is a
  fetcher that nobody awaits.

### `Protection`, `Documents`: `utils/protection.ts`, `database/policies/`, `.../middlewares/data-protection.ts`, `.../triggers/mod.ts`, `.../statics/`

- A text is the plain value, the seals on it and the label in front of it (`v0:`, `v1:`). `Protection` keeps what the
  code does with a label that is not there, a plain value with a colon in it, a key that is missing or a strategy
  that is not configured: each is a branch of the code that returns its input.
- A client is a process with its own version. Its calls are save (`PreSave`, `SaveWrite`, `PostSave`), the updates
  with and without `useDataPolicies`, delete and `upsertById`; each request is a step, and the hooks run where the
  code has them. `leaks` is a ghost: the calls whose triggers were handed a sealed value.
- `rotation` is `seedRotateProtectionKeys`: a cursor or one find, bulk writes by batches, retries of what failed.
  `status` is `checkProtectionRotationStatus`, after which the operator removes the old key.

### `Serialization`: `.../transforms/mod.ts`, `.../transforms/data-policies.ts`, `database/policies/access.ts`

- `schema` holds the policies of the field and whether a transform of the application runs first, at once or as a promise;
  `store` is the `AsyncLocalStorage` of the request. `toJSON` sets `useDataAccessGet` in it, runs the getters and puts
  it back; the getters decide by it whether a field is masked for the session.
- A promise of the application's transform leaves the others to run when it resolves (`AwaitTransform`,
  `TransformResolves`); a getter may throw.

### `Seeders`: `connector/models.ts`, `connector/seeders.ts`, `database/utils/seeders/`, `program/metadata/`

- Each replica binds its models, connects, finds the success records of its seeders, runs those that have none, and
  records the outcomes in one ordered insertMany. `query` and `toSave` are the fields of `SeedersContainer`.
- `getModel` of a schema binds a model later, with a seeder of its own. Replicas stop and start again at any instant.

### `Transactions`, `Pagination`: `.../schema/statics/`

- `Transactions!create` is `Model.create`, which every `startTransaction()` replaces and every `endSession()` puts back.
- `Pagination` is one caller that walks `paginate` or `paginateCursor` with a search, a filter and data policies, over
  words that are stored as they are, masked or hashed, while documents come and go.

### `Dispatch`: `.../triggers/mod.ts`, `conditions.ts`, `dispatch.ts`

- One call and the hooks around it: what each hook hands over, the conditions of each action, the job it is sent as,
  and the promise of all of them. Somebody else may write between the requests of the call.

### `Transforms`: `.../transforms/shallow.ts`, `recursively.ts`

- A document is a function from addresses (sequences of keys) to what is there: a leaf, falsy or not, null, an object,
  an array or a map. A step is one turn of `traverse()` or one call of the deep recursion, in place, so a traversal that
  throws leaves what it has changed. No call reads or writes what another one does: those that are left are a set.
- The properties say by addresses what a path selects: all of it is changed in the end, and nothing else ever. They
  spell out what the code does at the edges: a shallow transform turns a null on its way into an empty value, but not
  in a map, and finds no key that starts with a digit in a map; a deep one leaves a falsy value at the very end of a
  path that has one key or ends with `*`, and what an array in a map becomes there is lost.

### `KVStore`, `LocalObjects`: `database/providers/sqlite/connector.ts`, `storage/local-filesystem-object-storage.ts`

- `KVStore` is one row, with its two columns of expiry, and the lock of a key in the memory of each connector.
- `LocalObjects` are the two files of an object, each created before it is filled; a caller may end between any two
  steps.

## 4. What the runs check

Independent parts with few states share a run: one variable (`part`) says which of them a behaviour is, and the
others stay where they began. A run then asks everything of one subsystem, and its properties are those of its parts. Several properties are conjunctions of parts that a module
states one by one, each with a comment of its own; the conjunction stands below them.

| Run | Module, config | Result | What it shows |
|---|---|---|---|
| `dlq` | `MCDLQ`, `MCDLQ.cfg` | pass | mutual exclusion under running leases, fencing, lease and status agree, failures are recorded with their attempt |
| `dlq_live` | `MCDLQ`, `MCDLQLive.cfg` | pass | every entry is closed in the end |
| `log_save` | `LogSave`, `LogSave.cfg` | pass | the batch is bounded, has its own timer, refines `BatchSink`; the index gets its settings before its first log; no log is indexed twice; one that is lost was refused by the index, or its flush is reported |
| `redis` | `MCRedis`, `MCRedis.cfg` | pass | one execution for each attempt; a command settles, and a flush comes, unless a retry timeout was cleared; flushes are serialized, in order, and execute what they sent |
| `redis_scheduler_drop` | `MCRedis`, `MCRedisDrop.cfg` | violation | a command scheduled during a flush is lost |
| `triggers_registry` | `MCTriggersRegistry`, `TriggersRegistry.cfg` | pass | registries are snapshots and converge; boots leave custom entries alone; the only replica runs its code once |
| `triggers_edit` | `MCTriggersRegistry`, `TriggersRegistryEdit.cfg` | violation | a boot overwrites a manual edit made since its read |
| `storage` | `MCStorage`, `MCStorage.cfg` | pass | reads never miss, the copy only fills gaps and resurrects nothing unless it runs twice; a rotation leaves out nothing that is due, "safe" stays true, a lost update needs a late write; every operation and every run ends |
| `cache` | `CacheProvider`, `CacheProvider.cfg` | pass | the local cache forgets an entry early only for others used after it; a value that is returned is younger than two TTLs, whatever is late; a stale one is being refreshed |
| `documents` | `MCDocuments`, `Documents.cfg` | pass | every field can be read through roll-over, rotation and removal of the key; nothing is sealed twice; the triggers of saves and deletes see plain values; the rotation changes nothing it has read in time and brings nothing back |
| `documents_triggers` | `MCDocuments`, `DocumentsTriggers.cfg` | violation | the triggers of an update with `useDataPolicies` see the sealed value |
| `models` | `MCModels`, `MCModels.cfg` | pass | seeders are skipped only when done and rerun only for a reason; a transaction stores what it commits; pages hold what was asked for and miss nothing; post triggers decide on the document the call left, and do not disturb each other; transforms change what their path selects, all of it in the end, and nothing else; a key lives its TTL and its lock serializes; a get() of an object is atomic; no session is shown more than its policy |

### The bounds

Each bound is the smallest with which the interesting case occurs, and one more where that was affordable.

- `dlq`: one entry, two workers with labels of their own, caps none and 2, a lease of 2, a skew of 1, three claims, two
  disruptions. A take-over needs two claims; a third shows that a superseded worker is fenced from a later one. Two
  disruptions allow a lost reply and an overrun, or a crash and a requeue with reset attempts.
- `dlq_live`: two entries of two types, two workers of which one filters, one disruption. Clock and claims are never
  exhausted: every entry has a cap, so the bounds do not decide the property.
- `log_save`: three logs in batches of two, so that a second batch begins; a timeout of two, so that it can be stopped.
- `redis`: two commands with three attempts, two faults, one event of another connector; four scheduled commands in
  batches of three, two failed attempts, timeouts cleared twice.
- `triggers_registry`: two replicas, two models, two releases, two boots in all (two replicas at once, or a boot cut
  short and another with other code), one administrator's write. `triggers_edit` has three boots.
- `storage`: one key, two values, three clients of which two share a process (one that is alone waits for its own
  copy), two puts or deletes, one fault; a rotation and a check over two keys in pages of one, so that the bucket
  changes between pages, with three writes, so that an object can be deleted, put again, and changed in the window of
  the re-check, and one fault.
- `cache`: three keys in a cache of two, so that the right entry can be the wrong one to push out; two calls, one
  foreign save, an answer late by one unit, a TTL of one in a time of four.
- `documents`: two documents, two clients, two plain values of which one has a colon, two calls, one fault, one
  retry, batches of two. Documents and clients are symmetric; no liveness is checked with the symmetry.
- `models`: two replicas with two registered seeders and a late one, two restarts, one failure; three overlapping
  transactions; four words, some of them prefixes or substrings of others, in pages of two, with two writes; two
  actions in a phase, with conditions that are empty, nested, or throw; documents of two levels of every kind of
  node, and of three where a map holds an array or an object, under thirteen paths; four sets within four units of time, two workers of one connector or of two; three users
  of an object, one put each; a request of four steps.

The runs that switch the deadlock check off say why: the system may stop (a process exits, all runs are over), or
a bound of the model stops it.

### Fairness

- `DLQ!Fairness`: a consumer keeps polling, its database calls are answered, its processing ends, and time passes.
  Nothing fair about crashes, lost replies, releases or administrators. Without a consumer loop nothing drains, and
  the loop is the caller's: `Drains` says what the queue guarantees to callers that do poll.
- `LogSave!FairLogSpec`: the event loop runs its timers, and a request to Elasticsearch is answered or fails.
- `RedisRetry`, `RedisPipelineScheduler`: timeouts fire, the client reconnects (its reconnect strategy), and a call
  is answered or fails. `MCRedis` repeats it for each of the two.
- `TriggersRegistry!FairSpec`: a boot that has started goes on, database reads are answered, timers fire. No fairness
  for starting a boot or for administrators.
- `ObjectRotation`, `FallbackStorage`: a request is answered or fails. `MCStorage` repeats it for each of the two.

All fairness is weak: none of it needs a scheduler that prefers rare chances.

### Disagreements between code and documentation

Each is a run that ends in a counterexample; PROJECT.json quotes the document.

1. `redis_scheduler_drop`. Commands queued between `exec()` and its reply are discarded by the `finally` block.
   `docs/CACHE.md:38` promises that they are flushed.
2. `triggers_edit`. A boot resyncs by `_id` what it decided from an earlier read, and overwrites a manual edit made
   in between, against `docs/TRIGGERS.md:373-374`.
3. `documents_triggers`. The hook of `useDataPolicies` seals `$set` in place and the trigger hooks spread that `$set`
   over what they dispatch, against `docs/TRIGGERS.md:331-333`.

Others the models contain but no run is spent on. Those with a name are definitions of the module that TLC finds
violated when a cfg asks for them:

- `RedisRetry!Settles`: `clearTimeouts()` also clears the timeout that would start a command's next attempt, so its
  promise never settles.
- `TriggersRegistry!UpConverges` without polling: two refreshes applied out of order leave a replica stale for good
  (`docs/TRIGGERS.md:521-522`).
- `Documents!ReadableAndSealedOnce` with `RetrySaves`: a save that failed leaves its value sealed in the document, and
  the save that repeats it seals it again. `Documents!SafeToRemove` with mode `"batch"`: the check reads a part of the
  collection, finds nothing outdated there, and the removal loses the rest. `Documents!RotationEnds`: an upsert with data policies that fails rejects in its
  listener, and the caller waits for ever.
- `Seeders!RestartsDoNotRerun`: a failed handler, or two replicas at once, make a seeder run again after a restart.
- `CacheProvider!ReadFails`: a call without a fetcher that found a stale local value fails when Redis does, and does not
  return the local value (`cache/providers/mod.ts:76` says it falls back to the local cache).
- `Transactions`: sessions that overlap and end in another order lose the override or leave it (`overlapped`); a commit
  whose abort is refused leaves its session open (`rejected`).
- `Pagination`: a cursor walk without a search forgets the caller's condition on `_id` after its first page.
- `Serialization`: a getter that throws during `toJSON` leaves `useDataAccessGet` in the store (`threw`).
- `KVStore`: a value set with KEEPTTL after the end of its TTL is never read; the locks of two connectors do not
  exclude each other.
- `LocalObjects`: two puts of a key may leave the bytes of one and the metadata of the other.
- `requeue()` takes a completed or discarded entry back to pending (`DLQ!Requeue`; `docs/DLQ.md:60` says terminal).
- Two loops that share a `leaseOwner` label pass each other's fence (the condition `UniqueLabels` of the theorems).
- `shutdown()` of the scheduler during a flush returns at once, and what is queued is discarded (`Shutdown`).
- A flush is retried without limit, with a timeout of zero (`Retry`); one whose retry timeout is cleared never ends,
  and nothing scheduled later is sent (`ClearTimeouts`, state `lost`).
- A command issued while connected is never retried (`RedisRetry!Exec`, state `direct`).
- A replica that loses the seeding race serves with an empty registry and does not poll (`BootSeed`, state `failed`).
- A write between the re-check and the put of a rotation is overwritten (`ObjectRotation!Put`).
- The copy of a second process, or one started again after a failure, can overwrite or resurrect an object
  (the condition `OneCopy` of `FallbackStorage`).

## 5. What is proved

For all values of the constants that satisfy the module's named assumption, and without the bounds of section 4 (a
bound is a constant there, of any value). The invariants named below are defined in the proof modules, part by part.

| Theorem | Statement | Argument |
|---|---|---|
| `DLQ_proofs!TypeCorrect` | `Spec => [](TypeOK /\ HoldsEntry)` | Inductive. `HoldsEntry` (a worker that holds has an entry of `Ids`) is needed for the settlements, which index the store by `held[w].id`. |
| `DLQ_proofs!LeaseAgreement` | `Spec => []LeaseMatchesStatus` | Inductive given the types: every update of the store is a `Leased`, an `Unleased` or a fresh document, and each of them sets the three fields together. A lease is never 0 because it starts at a clock that is at least 0 and lasts at least 1. |
| `DLQ_proofs!LeaseExclusivity` | `Spec => []MutualExclusion` | Not inductive: it says nothing of claims that have run out, which a late settlement could revive. The strengthening `ClaimsTracked` follows every claim a worker believes in: it is ended, has run out, or is current and its expiry is the document's. A new claim can then only come over one that has run out, since an instant a claim has read is never beyond the fastest clock. |
| `DLQ_proofs!FenceIsSound` | `UniqueLabels => (Spec => []FencedIsCurrent)` | Inductive together with `SnapshotCurrent`: with unique labels the only claim that can put a worker's label on a document is its own latest, and it makes no other while it holds one. |
| `DLQ_proofs!FailuresAreRecorded` | `UniqueLabels => (Spec => FailureRecorded)` | From `SnapshotCurrent`: what fail() read is still true when the fence lets it write. Only `FailWrite` makes a history longer. |
| `LogSave_proofs!BatchesHaveTheirTimer` | `Spec => []OneTimerPerBatch` | One inductive invariant: the three parts of the property, and that an empty batch has no age. `TimerOfBatch` is what makes the at-most-one-timeout part of the types inductive: arming is possible only when no timeout runs. |
| `LogSave_proofs!ImplementsSink` | `Spec => HandsOverOnce` | Step simulation under that invariant, with `queue <- items`: a push is an `Accept` or an `AcceptAndHand`, a flush is a `Hand`, an end of the process is a `Stop`, and the rest stutters. |
| `LogSave_proofs!LogsAreIndexedRight` | `LogSpec => []IndexedRight` | That no log is indexed twice is not inductive: `Collecting` and `Flying` say that no log is in two places, collected, in one flight or indexed. `Configuring`: while the process has to create the index, nothing but a flight past `ensureIndex` writes. What a bulk request accepts is a subsequence of its batch, which the lemma on `Accepted` keeps injective. |
| `Redis_proofs!TypesHold`, `CommandsAreSentOncePerAttempt`, `AttemptsHaveASettler`, `SuccessMeansApplied` | `Spec => []...` | One inductive invariant: the four properties and `Tracked`. The types alone are not inductive, since a retry adds one to the attempt: `Tracked` says a command that waits has an attempt left, and that nothing was sent for one not issued yet. `AttemptsHaveASettler` rests on calls being settled in order: an answer to an older call leaves the awaited one in the client. |
| `Redis_proofs!SchedulerFlushesInOrder`, `FlushEndsApplied` | `RedisSpec => []FlushesInOrder`, `RedisSpec => SentIsApplied` | Order alone says nothing of what is still queued or in flight. `Ascending`: commands queue in their order; `NoneSkipped`: none queued before an applied one is missing there, although a reply may belong to an attempt abandoned long before; `LatestIsLast`: later blocks on the wire are of later attempts. `SequenceTheorems` gives what appending and cutting a queue leave of it. |
| `TriggersRegistry_proofs!RegistriesMirrorTheCollection` | `Spec => []RegistriesAreSnapshots` | `HistoryHolds` and `ReadsAreSnapshots`: whatever is in flight towards a registry is a past state too, in any order of arrival. |
| `TriggersRegistry_proofs!BootsSpareCustomEntries` | `Spec => CustomUntouched` | `SparesCustom`: no plan that a boot has made holds a document that is custom by now. It needs `PlanFits`: a document that is deleted and created again has another `_id`. |
| `TriggersRegistry_proofs!CodeRunsOnce` | `Spec => []CodeTakesEffect` | `CodeInv`, for a replica alone while nobody has written. For each model: what must go is in the plan or gone (`OrphansGo`), what must be updated is in the plan or right (`DefaultsMirror`), what is missing is in the plan or there (`SeedsCome`), and registry and reads in flight stand for the code (`RegistryCoded`). A boot cut short leaves a state its successor plans from anew. |
| `Storage_proofs!LookupsNeverMiss`, `CopiesMigrateForGood`, `CopyOnlyFills` | `Spec => []NeverMisses`, `Spec => []MigratedForGood`, `Spec => SyncOnlyFills` | An object moves from the fallback to the primary store only: what has been stored since a lookup began is in one of them (`StaysSomewhere`), in the fallback when the lookup asks there. What is left in the fallback is still to be yielded or in hand (`LeftIsInSight`), unless the delete that has emptied it is on its way. With one copy, the gap it fills is as it found it (`CopyFillsGap`). |
| `Storage_proofs!RotationReportsAreTrue`, `RecheckNarrowsTheRace` | `StorageSpec => []ReportsAreTrue`, `StorageSpec => RecheckNarrows` | What is outdated is ahead of the walk, or known to it (`RotationSees`, `CheckSees`); a page and a token split the names still to come from those that are done (`ToCome`). Between check and put, the object is as it was checked or a write was seen to race (`CheckedIsCurrent`). |
| `Cache_proofs!LocalCacheIsLRU` | `Spec => []CacheIsLRU` | That an entry was pushed out too early shows only when it is missing. `InOrder`: the key of every entry behind another has been used since that other was set or hit. An entry is pushed out when `Capacity` different ones are behind it; `FiniteSetTheorems` counts them. |
| `Cache_proofs!ValuesAreYoung`, `StaleValuesAreRefreshed` | `Spec => []AtMostTwoTTLsOld`, `Spec => StaleIsRefreshed` | A chain of ages (`Young`): a request is out for at most `Delay`; a value it brings back had not expired in Redis when it was sent; Redis keeps one for `TTL` from the save, and the local cache for `TTL` from the answer. |
| `Documents_proofs!FieldsStayReadable`, `TriggersOfSavesSeePlain`, `RemovalIsSafe` | `CarefulUse => (Spec => []ReadableAndSealedOnce)`, and so for `DocumentsDispatchPlain` and `SafeToRemove` | `Inv` says which texts may be where. A field holds a value sealed once, or one a raw update wrote (`Database`). A document in a client's hands is protected by its next save only if its value is plain (`CallOK`): what was loaded and put back is what the snapshot holds. Once a check has begun, nobody holds a text of the old version, every process has the new one and the rotation is over (`Guarded`, `FreshCall`): so nothing outdated can appear behind the check (`Checking`), nor after the removal. Lemmas on `Protect` and `Unprotect` say what setters and getters make of each kind of text. |
| `Documents_proofs!RotationKeepsTheValues` | `CarefulUse => (Spec => RotationKeepsValues)` | `Rotating`: what the rotation has read of a document is plain, and has the value of the document, until somebody writes it. |
| `MCParts_proofs!SeedersRunOnce` | `PartsSpec => []SeedersTakeEffect` | `Honest`: what is called a success, in the records, in a process or on its way, has succeeded. `Calm`: while nothing excuses a rerun, one replica runs, and what its run has left, done and still to save is, together with the records, everything registered. |
| `MCParts_proofs!SessionsNest` | `PartsSpec => []TransactionsAreIsolated` | `Nested`: while sessions nest, each keeps as `original` what `create` was under the sessions it began in, and of two that are open one began during the other. |
| `MCParts_proofs!KeysLiveTheirTTL` | `PartsSpec => []KeyKeepsItsPromises` | `Promised`: the two columns of expiry agree with the last promise. `Alone`: with one connector, who is in has read the latest value, and everybody else is out. |
| `MCParts_proofs!AccessGovernsSerialization` | `PartsSpec => []AccessIsForSerialization` | `ToldAfterThrow`: the store tells getters to mind the policy only after one of them threw. What a field holds or decodes to is sealed with keys of data protection only, so the virtual mask makes a text that is none of those withheld (`VirtualIsOther`). |
| `MCParts_proofs!PagesMissNothing` | `PartsSpec => []PagesAreExact` | What is stored is found exactly by what was asked of the plain text, since masking keeps prefixes and tells texts apart (`MaskKeepsPrefixes`, `AcceptedIsAsked`). The documents found are ranked from one to their number (`Ranks`), and a page ends at a rank. `CursorSees`: the walk by cursor has seen, in order, all that was there up to the cursor. `PagesSee`: while nobody writes, the pages so far are the first documents of one sequence. |
| `MCParts_proofs!GetsAreAtomic` | `PartsSpec => []GetIsAtomic` | `PutStands` says how far the files have come at each step of the one put; `Reads`, that the object there is one the reader could see. |
| `MCParts_proofs!PostActionsSeeTheWrite`, `ActionsFailAlone` | `PartsSpec => []PostDecidesOnTheDocument`, `PartsSpec => []FailuresAreIsolated` | `Written`: while nobody else writes, the document is what the write left, and what the post hook adds to what it has is that document again. What the conditions say of it is not unfolded: hook and property ask the same of the same document. `Dispatched`: the actions of a phase begin together, and the call goes on only when all of them have ended well. |
| `MCParts_proofs!TransformsChangeWhatIsSelected` | `PartsSpec => []TransformsAreExact` | `CallsHold`: each call is where the path leads, nothing below its address has changed, and no call is below another. `TransformHolds` adds that what has changed was to be (`Allows`), and that what is to be changed has been or is below a call (`Waits`). One lemma (`CallGoesOn`) says when a call may be replaced by others; each kind of step then shows only which children its calls go on to. |

Assumed, of the constants: `DLQConstants`, `BulkBufferConstants`, `RedisRetryConstants`, `SchedulerConstants`,
`TriggersConstants`, `FallbackConstants`, `RotationConstants`, `CacheConstants`, `ProviderConstants`, `DocumentConstants`,
`SeederConstants`, `PartConstants`, `PaginationConstants`, `DispatchConstants` and `TransformConstants`, which TLC
evaluates on the runs. They say which constants are numbers, which are not zero (a lease, a batch, a page, a cache, a
time to live), that what stands for nothing is no value, and that a document is a tree: what has something below it is
a node.

Assumed, of the use, where a theorem states it:

- `UniqueLabels` is a condition on how `leaseOwner` is chosen. The code does not enforce it.
- `CarefulUse`: no failed save is repeated on the same document, and the check before the removal is not made in batches.
  Both are needed: TLC finds `ReadableAndSealedOnce` and `DocumentsDispatchPlain` violated with `RetrySaves`, and
  `SafeToRemove` with mode `"batch"`.

`SeedersTakeEffect` states its own premises for a seeder that runs again: that nothing excuses it (a handler that
failed, or two replicas that ran their seeders at once), and that no registered seeder runs at every start. With one
that does, a crash in the middle of the records leaves a success record at which the next insertMany stops, so that the records of later
seeders are not saved and those run again.

What the proofs found in the models, and changed there: the boot of the triggers deletes documents, so its plan holds
their `_id`s and not their models; Elasticsearch may refuse any documents of a request, and not only its last ones; and
what stands for no document must not be a text. The deep transform does not change a falsy value at the end of some
paths, nor keep an array it has made anew in a map: stating exactly what it changes needed both. Some definitions were
restated for the provers, with the same meaning (checked by the same runs): `TriggersRegistry!MergeTriggers`, the
eviction of `QLRU` and the writes of `LogSave` are no longer filters of sequences, whose definition is recursive;
`Pagination!FirstOf` goes by the ranks of documents, and no longer sorts them; `Dispatch!EvaluateCondition` is a
recursive function over the conditions there are; and `Transforms` is steps over addresses in place of recursive
operators over trees, so that its theorem is about every document and needs no induction over them.

Only model-checked: all liveness (`Drains`, `IndexedOrReported`, `CommandsEnd`, `UpConverges`, `RequestsEnd`), which is
out of the provers' reach. Every other property of the runs is stated by a theorem. What a nested condition of a
trigger evaluates to is a recursion over data: TLC evaluates it on the conditions of the instance, and no theorem says
more of it than that it is the same for the same document.

## 6. What is not modelled, and why

- The files repository and the admin API of the triggers: single database calls, routing and validation, with no
  state of their own. Loaders and program metadata beyond what `Seeders` uses: registration at import time.
- The first Redis connection given up. `isReady` then rejects, and each waiting command closes and reopens the
  client (`retries.ts:22-31`); that promise belongs to `@zanix/server`.
- TTL offsets, `scanKeys`, and the values of the caches in `RedisRetry`: no guard of the modelled code reads them.
- Elasticsearch: indices by date, searches, and the getters of documents; one static index shows what concurrent
  creation and partial failures do.
- Statics: fuzzy search, projections, sorting by other fields, read preferences.
- Ciphers and hashes: a sealed text is its plain value and a seal; opening it with its key gives the value back.
- `dryRun` of a rotation and its dispatch to a worker: they change nothing in the store.
- MongoDB, Redis, Elasticsearch, S3 themselves: a request is atomic, fails, or loses its answer. The operators that
  stand for them are marked external in the map.
- Typings, routing, validation, formatting: no behaviour after start.
