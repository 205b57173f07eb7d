# A TLA+ model of the memory sidecar (`mindd`)

`mindd` is a Go gRPC daemon that gives agents several kinds of memory ("blocks"):
key-value records, an append-only event log (episodic), vector search
(semantic), files (artifact), a property graph, and leases to coordinate on
them. Each block has a service, a registry that maps a namespace to a driver,
and several drivers (in-memory, PostgreSQL, file system, S3). This directory
models the drivers of every block and the process around them (interceptors,
policy, encryption, boot, reload, shutdown), checks them with TLC on small
instances, and proves with TLAPS, for every instance, the safety of the drivers of every
block and of the process around them.

Paths below are relative to the repository root.

## Inventory

| component | state | operations | what is hard | correct when |
|---|---|---|---|---|
| lease, memory (`internal/lease/drivers/memory`) | map key -> (holder, expiry) under one mutex | Acquire (polls until a deadline), Renew, Release, Inspect, List | expiry races polls, renewals and releases of several callers; deadline against poll timer | one owner per key; a lost holder never returns; Acquire always returns and on time |
| lease, PostgreSQL (`internal/lease/drivers/postgres`) | table `leases`, shared by all sidecars | the same, as single statements; Release is two | expiries computed before the statement runs; statements executed without an answer; Release not in a transaction | the same contract as in memory |
| kv, memory (`internal/kv/drivers/memory`) | namespace -> key -> record pointer, access policy per namespace | Get, MultiGet, Put, Delete, Scan, sweeper, Close | Get changes lock three times; records are shared by pointer; sliding TTL, eviction and sweeper meet on one record | stale observations never damage newer records; access counts exact; capacity held; expired records reclaimed |
| kv, PostgreSQL (`internal/kv/drivers/postgres`) | table `kv_items` | Put and Delete as transactions, Get, MultiGet, Scan, sweeper | `FOR UPDATE` of an absent row locks nothing; waiting writers re-read the row | compare-and-swap is atomic; versions are not repeated; no writer waits for ever |
| episodic, memory (`internal/episodic/drivers/memory`) | per namespace: log, id index, dedup index, subscribers with bounded channels | Append, Range, Tail, Expire, Close | fan-out to slow tailers; history and live feed join; hard delete rewrites the log; several paths close one channel | feeds without gap or repetition; channels closed once; indexes match the log |
| episodic, PostgreSQL (`internal/episodic/drivers/postgres`) | tables of events, of cursor counters and of applied migrations | the same, Append as a transaction; Tail polls by cursor | commit order against cursor order; dedup race; replicas that migrate together | no committed event is skipped by a tail; a retried Append finds its event |
| semantic, memory and PostgreSQL (`internal/semantic`) | records with vectors and versions, per tenant | Upsert batch (CAS, supersedes), Search in three modes, Delete, Expire | CAS over several statements; a search of three queries; ids that collide across tenants | CAS atomic; hits are the tenant's, in fused order |
| embedding cache and embedders (`internal/semantic/cache.go`, `embedder`) | LRU list and index | Embed | concurrent misses of one text; answers in any order | a vector belongs to its text |
| graph, memory and PostgreSQL (`internal/graph`) | nodes, edges, adjacency | upserts, deletes with cascade, Neighbors, Traverse | edges stored again with other endpoints; writes between the statements of a read | adjacency follows the edges; results are closed and within budget |
| artifact service and drivers (`internal/artifact`) | data and metadata | Put (pipe, then PatchMeta), Get, Stat, Delete, List | the pump goroutine, metadata after data, crashes between files, file names shared by uploads and by ids | no partial artifact is readable; an undisturbed upload is described by its own metadata; Put returns |
| services and registries | namespace -> driver | every RPC: required fields, capability, driver, status | the same guards in the same order everywhere; drivers shared by namespaces; closes that wait for calls | no request reaches a driver unauthorised; the drivers of a registry closed once |
| auth, policy, interceptors | verifier and engine behind atomic pointers, token buckets | Verify, evaluate, Swap on SIGHUP | reload between two interceptors; the namespace of a stream arrives late; first requests of a bucket | what is served was permitted; limits hold |
| encryption | key ring | Encrypt, Decrypt, rotation | rows sealed under an old configuration; plaintext that looks sealed | what was sealed can be opened while its key is there, at its place only |
| server lifecycle (`cmd/mindd`, `internal/server`) | boot stage, listeners, registries, signals | start, reload, graceful stop, close | a stage that fails half way; streams that never end against the stop timeout; lost signals | reload is all or nothing; shutdown ends; what was built is closed |
| configuration, admin, observability, HTTP gateway | the file; counts; log level; routes | Validate, ListNamespaces, set-up | | modelled as far as they decide boot, reload or dispatch |
| `mindctl`, generated messages, SDKs, conformance suites | none of their own | | | not modelled |

Components do not call each other across blocks: a request passes the
interceptors (auth, policy, observability), its block's service, the registry,
one driver. Sidecars interact only through a shared database. Inside a sidecar
the actors are the goroutines of requests, the sweepers, and the tailers.

`PROJECT.json` lists every component with its status, every model definition
with the lines it stands for, and the hazards with the properties that cover
them.

## Modules

| module | models |
|---|---|
| `LeaseContract` | what every lease driver promises (`internal/lease/driver.go`): Grant, Extend, GiveUp, Forget, Tick over `clock`, the stored `leases`, the clients' `handle`s and the set of `issued` holder ids; where a driver `LosesAnswers`, also `ExtendUnheard` and `CountOnLess` |
| `LeaseMemory` | the in-memory driver. `Acquire` is the loop: `Take` or `Refuse` is one `tryAcquire` under the mutex, `GiveUpWaiting`, `Sleep`, `Wake`, `Cancel` its branches. `Renew`, `Release` and their refusals are one critical section each |
| `LeasePostgres` | the PostgreSQL driver: `SendInsert`/`SendUpdate`/`SendProbe` compute the arguments, a later action is the statement as the database executes it, with or without its answer, or its failure |
| `KV` | what the two KV modules share: ttls and the clock |
| `KVMemory` | one namespace of the in-memory KV driver; records are objects of a `heap`, `items` are pointers, Get is five steps |
| `KVPostgres` | one key of the PostgreSQL KV driver (names prefixed `Pg`): a step per statement, row locks, READ COMMITTED re-evaluation |
| `EpisodicMemory` | one namespace of the in-memory episodic driver: the log, both indexes, both kinds of Expire, and tailers with their two channels |
| `EpisodicPostgres` | the PostgreSQL episodic driver (`PgInit`, `PgNext`, ...): `runMigrations` of several replicas, Append as `AppendBegin`, `FastPath`, `Allocate` (locks the counter row), `Insert` or `Reread`, `Supersede`, `Commit` (whose answer may be lost); `Expire`; tails that poll |
| `Artifact` | the service's Put as two processes, `Pump(u)` and `Handler(u)`, joined by a pipe and an error channel; the three drivers; for the file system every create, rename and remove of a named file is a step, and ids may share files; readers, Delete, and crashes |
| `GraphStore` | both graph drivers; a read is a scan of a node's edges, then a visit per edge, with writes of other sessions between the statements of the PostgreSQL driver |
| `Ranking` | pure: metadata predicates in Go and as SQL, the dense and sparse lanes, reciprocal rank fusion |
| `Semantic` | the semantic service, its LRU embedding cache, the embedders, and both drivers: Embed in steps between the cache's critical sections, the upsert in memory as one check of the batch (`MemoryUpsert`) and a `MemoryStore` per record under the mutex, the transaction per record and statement, searches of up to three queries |
| `Access` | pure: capabilities, the PASETO and JWT verifiers, tenant qualification, policy rules, caps and buckets |
| `Services` | pure: service descriptors, gateway routes, and a record per handler of what it requires before and after authorisation and how it answers each outcome |
| `Boot` | pure: defaults and validation of a configuration, the key ring and its envelopes, registries and what each `build...Registry` needs |
| `Sidecar` | the `mindd` process over the four modules above: `BootStage`/`BootFails`, a call as `Arrive`, `authenticate`, `RecvMsg`, `evaluate`, `Allow`, then its driver, `Hup`, `ReloadLoad`, `ReloadSwap`, `Signal`, `GracefulStop` or `ShutdownTimeout`, `CloseNext` (a registry gives up its drivers) and `Close` (of one of them), `Exit`, `Crash`; what is stored survives |
| `MC*` | the instances TLC checks |
| `LeaseMemoryProofs`, `LeasePostgresProofs`, `KVProofs`, `EpisodicProofs`, `GraphStoreProofs`, `ArtifactProofs`, `SemanticProofs`, `SidecarProofs` | theorems about the module each one extends, with their proofs; `KVProofs` and `EpisodicProofs` extend both drivers' modules of their block |

Both lease drivers implement `LeaseContract` (`ImplementsContract`, an INSTANCE
with `issued` mapped to the calls that were granted a lease). `Semantic` extends
`Ranking`; `Sidecar` extends `Boot`, which extends `Services` and `Access`.
`Artifact`, `GraphStore` and `Semantic` choose their driver in the initial state,
so one run covers all drivers of the block.

What the abstraction keeps and leaves out:

* A step is a critical section, a database statement, or an access outside any
  lock. Reads without effect (Inspect, List, kv Get from PostgreSQL) are
  operators or are left out.
* A holder id is a fresh UUID per grant: it is modelled by the Acquire call that
  got it. Tokens, values, payloads, owners and metadata are not modelled: no
  control depends on them.
* `handle` is the client's side: until when it counts on its lease. In `LeaseMemory` that
  is the expiry in the last answer, 0 after the client was told that it holds nothing or
  gave the lease up. In `LeasePostgres` a Renew or Release that returns an error may
  have been executed (`UpdateHits` without its answer, `DeleteOwn` before a lost one), so
  exclusion needs clients that allow for it: a client that sends a Renew counts at once
  on no more than the expiry it asks for (`SendUpdate`), one that calls Release on nothing
  (`SendProbe`), and only an answer raises the handle again. The code leaves this to its
  callers; see Known disagreements for those that do otherwise. A grant whose
  answer is lost has the handle the answer would have named, although that client
  does not know its holder id. A statement whose call ended in an error is executed
  before the same client's next one, or never.
* Time is a counter. Lease ttls are positive because the service refuses others.
  Instances share one clock: drivers compare expiries written by one host with
  the clock of another, and the code assumes that clocks agree. In `KVPostgres`
  the sidecar may be behind the database (the expiry is computed from any
  earlier instant), not ahead.
* In `LeaseMemory` a step may be delayed at any point, so that clock readings are
  as stale as the code allows.
* The unlocked read of a record's expiry in `KVMemory` is a data race with the
  write of a sliding Get; the word read is the old or the new value, which is the
  order of the two steps.
* What PostgreSQL does is taken from how the driver relies on it (header of
  `KVPostgres`). The transactions of the KV Put and Delete lock one row; those of the
  episodic, semantic and graph drivers lock several, and their statements may wait
  for each other in a cycle. PostgreSQL then aborts one of them, which the models allow
  at any statement (`Abort`, `PgFails`; in `GraphStore` a rolled-back Delete leaves what
  one that never goes on leaves); no liveness is stated of those writers.
* Definitions headed "A plausible error" are used only as mutants: each property
  is checked to fail when the definition they imitate is replaced by them.
* `earliest` and `epoch`, `base` (KV), `closes`, `head`, `got`, `replayed`
  (episodic), `answers` (episodic PostgreSQL), `solo`, `removed` (artifact),
  `torn` (graph), `found`, `replaced` (semantic), `granted`, `seen` (sidecar) are
  history: no guard reads them, except that `closes > 0` is "the channels are
  closed" in `EpisodicMemory` and "this driver was closed" in `Sidecar`.
* Bytes are the upload they come from and how many of its chunks; a vector is the
  text it is the embedding of; a sealed value is its key, its place and its
  plaintext; a signature is the key that made it. Corruption and forgery are the
  business of the libraries behind them.
* Reductions in `Artifact`: a crash is modelled only while a Put or a Delete is
  under way (otherwise it changes nothing that the properties see), and the fs
  driver's List is one snapshot. Which ids share a file is a parameter (`MetaName`,
  `TmpName`): distinct ids have distinct metadata files and distinct temporary files, but
  each of these may be another id's data file, as `<id>.json` and `<id>.json.tmp` are.
  Uploaded bytes are taken not to parse as metadata. Ids that begin with two dots, whose
  shard directory is the driver's base (`fs.go:267-272`), are left out.
* Reductions in `Sidecar`: the first file is any configuration; the file is
  edited only while the process is stopped or serving; seconds count only once there is a limiter; a second start follows at
  least one call; a call takes the first free slot, which keeps the answer of its last
  call until then; after a forced stop only the calls that are in a driver go on, and
  nobody receives their answers; the log level is set in the step
  that swaps the engine; a handler's field checks are in the step of the policy
  decision before them (they read only the request); the reload goroutine is left
  out once the process drains, when what it swaps is about to be discarded. `Close` of one
  driver is a step, and what it waits for is in the fairness.

## Runs

| run | instance | checks | states, time |
|---|---|---|---|
| `lease_memory` | 3 calls, 1 key, ttl 1-2, wait 0 or 3, poll 2, clock to 3 | `MutualExclusion`; `OwnerIsInspectable`; `LostHolderNeverReturns`; `EveryAcquireReturns`; the contract | 365 k, 70 s |
| `lease_postgres` | 3 calls, 1 row: ttl 2 failing fast, ttl 1 waiting 2, ttl 2 waiting 3 (renewals 1-2), poll 2, clock to 3 | `MutualExclusion`; `LiveRowsAreIssued`; `EveryAcquireReturns`; the contract | 570 k, 150 s |
| `kv_memory` | 2 keys, 2 Gets, 2 Puts, any Deletes, the sweeper, capacity 1, sliding TTL 1, clock to 3 | `AccessCountExact`; `CapacityHeld`; `ExpiryNeverHitsFreshRecord`; `ExpiredIsReclaimed` | 573 k, 55 s |
| `kv_postgres` | 3 writers of a key, if_version absent, 0 or 1, ttl 0-1, sweeper, clock to 2 | `VersionsAreDistinct`; `CASReplacesVersionChecked`; `EveryWriteEnds` | 373 k, 85 s |
| `episodic_memory` | 3 events, 1 dedup key, 2 tailers with a buffer of 1, Expire with max_rows 1 or 3 | `TailerMissesNothing`; `DetachedFeedIsPrefix`; `ChannelsClosedOnce`; `IndexesAgree`; `TailsEndAfterClose` | 317 k, 90 s |
| `episodic_postgres` | 2 replicas and 2 migrations, 2 appenders, 1 dedup key, 3 transactions, 1 tailer, both kinds of Expire | `TailMissesNothing`; `DedupReplays`; `TailCatchesUp` | 300 k, 90 s |
| `artifact` | each driver; 2 uploads of up to 1 chunk, a malformed id, `ab` and `ab.json` (fs), 1 reader, 1 Delete, 1 crash, disk errors | `DataIsWhole`; `SoloPutIsDescribed`; `EveryPutReturns` | 600 k, 145 s |
| `graph` | each driver; 3 nodes, 2 edge ids with 5 forms (rewired, self loop, valid for a time), 4 writes, 6 reads that differ in direction, depth, filters and budgets | `AdjacencyAgrees`; `SubgraphClosed`; `TraverseReaches` | 910 k, 70 s |
| `semantic` | each driver; 2 sessions, 2 tenants, 2 ids, 3 texts, a cache of 2, 4 calls out of 13 | `VectorIsOfContent`; `CASReplacesChecked`; `SearchIsSound` | 2.15 M, 80 s |
| `sidecar` | 3 configurations (one invalid), the first or the second at first, 5 requests, values that are text or shaped like an envelope, 2 calls at once, 1 edit, 1 reload, 2 starts, 1 second | `ServedIsPermitted`; `RateLimitHolds`; `ReloadIsWhole`; `SignalledIsLoaded`; `ReadsRoundTrip`; `ClosedOnceAfterCalls`; `ShutdownCompletes` | 283 k, 180 s |

Each module also has a type invariant `TypeOK` (`Sidecar` excepted, whose records are
described by `Types` in `SidecarProofs`). Where a module has theorems it is proved, so the
runs do not spend time on it.

What the runs of the larger modules show:

* `episodic_postgres`: the increment of the counter row locks it to the end of the
  transaction, so cursors become visible in order and a tail that polls after its
  last cursor skips nothing, although Appends abort, lose their answer and are
  retried. A dedup key answers with one stored event throughout, also when the
  event of the first Append is swept between the conflict and the re-read.
* `artifact`: a broken stream reaches the driver as an error, never as an end of
  file, so nothing partial is stored. Handler and pump never wait for each other,
  thanks to the error channel's buffer. An upload that no other call meets, on its id or on a
  file of its id, is described by its own metadata, also after the process restarts; where
  two ids share a file, one Put undoes the other.
* `graph`: the statements of a PostgreSQL read see different states; it still
  returns only edges whose two nodes it also returns.
* `semantic`: answers that arrive in another order, hits and misses mixed in one
  batch, evictions between two Embed calls: a record carries the vector of its own
  content. The fused list is compared with the definition of the fusion's order
  (`FusionRespects`), and a tenant's search never fetches the row that another
  tenant has under the same id.
* `sidecar`: whatever swaps happen between a call's authentication and its policy
  decision, it was admitted by one verifier and one policy that were in force; a
  reload with any invalid part changes nothing. Values sealed before a restart that
  turns encryption on are read back by their tenant or refused, as configured, and
  an encrypted namespace never serves an envelope as a value.
  Boot that fails at any stage closes each driver of the registries it had built, and
  none of them twice, although registries are closed both explicitly and by defer; the
  drivers of the registry whose build failed stay open. The instance's ASSUME
  `TokensRoundTrip` compares issuers and verifiers of both token kinds over all key
  sets and clocks.

Why the bounds are enough for the cases that matter:

* Leases: a third caller is needed for a late release of one client to hit the
  lease of a second and let a third in. Ttl 1 and 2 within three or four
  ticks let a lease expire, be taken over and expire again; poll 2 with wait 3
  makes the last sleep shorter than the interval. Keys do not interact; one key
  is the worst case.
* KV memory: with capacity 1 every Put of the second key evicts; two Gets are
  needed for one to slide what the other saw expired, and the sweeper is a third
  actor. Two Puts replace a record while Gets hold the old pointer.
* KV PostgreSQL: three writers let one change the row between the SELECT and the
  lock of a second while a third inserts or deletes. if_version 0 and 1 reach the
  creation and the replacement.
* Episodic, memory: three events overflow a buffer of one; a hard delete of one of
  three shifts positions; two tailers see different detachments.
* Episodic, PostgreSQL: two open transactions are the least that can commit out of
  order; the third begins after one of them ended, is a retry, or meets a sweep.
* Artifact: two uploads of one id with one chunk each pass each other at every
  file system call; the crash and the Delete come at any of them. With the fs driver the id
  of either upload may be the one whose data file is the other's metadata file.
* Graph: three nodes make paths of two hops and a cycle; an edge id with several
  forms is stored again between the statements of a read. Searches have budgets that
  suffice, that are spent, and a fan-out cap that a self loop exceeds.
* Semantic: three texts in a cache of two evict; a batch of two records mixes a hit
  with a miss, and one names a record twice; both tenants use id 1.
* Sidecar: two calls are between each other's steps; one edit and one reload are
  a swap under them, and the second start reads what the first stored under another
  configuration: encryption is turned on with the migration flag, or, when the second
  file comes first, off. The latter part has calls to the kv block only, and no time
  passes in it. Calls run one at a time there, while the file is the invalid one, and
  while a value shaped like an envelope is stored (`Bounds`); seconds pass between calls or
  while calls wait for a limiter (`SecondsBetween`). With a burst of 1 the second Put of a bucket is the one that a
  limiter made twice would let through, and one second refills it.

Runs that exhibit a disagreement between the code and what it says of itself:

| run | shows |
|---|---|
| `kv_create_race` | Two Puts with if_version 0 of an absent key both succeed, the second over the first (no other if_version is in the instance). `kv_postgres` shows that this is the only case: for versions above 0 the swap is atomic, and the versions returned still differ |
| `artifact_shared_tmp` | Two Puts of one id on the file-system driver share the file `<id>.json.tmp`. The rename of the slower one fails because the other has renamed the file away, and its error path removes the data file, which belongs to the upload already acknowledged. No disk fault is involved |

### Known disagreements

Five more properties are kept as definitions that the code does not have. Check one
alone, as an INVARIANT or PROPERTY of the module's instance (of the first three, with two
calls, Gets or events), and TLC shows the behaviour:

* `LeaseMemory!ReleaseEndsALiveLease`: Release compares only the holder and answers
  success for the caller's own expired entry (`internal/lease/drivers/memory/memory.go:139`);
  `internal/lease/driver.go:13-15` documents ErrNotHeld for an expired lease. Harmless
  for exclusion.
* `KVMemory!SlidRecordIsKept`: a Get, or the sweeper, that found a record expired
  removes it after another Get has extended its expiry; only the pointer is
  compared again under the lock (`internal/kv/drivers/memory/memory.go:148`), while
  `internal/kv/driver.go:36-37` says that each Get extends the expiry.
* `EpisodicMemory!LaggedTailReturnsError`: a tailer detached for lagging may end
  with nil, because `select` may choose the closed event channel before the pending
  error (`internal/episodic/drivers/memory/memory.go:370`, against lines 4-5).
* `Semantic!BatchCASHonoured`: the in-memory Upsert checks the whole batch before it stores
  any of it, so a record that the batch names twice with one `if_version` is replaced twice,
  the second time over the version the first made
  (`internal/semantic/drivers/memory/memory.go:77`); `internal/semantic/driver.go:48-49` says
  that it fails unless `if_version` is the current version. The PostgreSQL transaction sees
  its own write and refuses the batch. `CASReplacesChecked` says what holds otherwise.
* `Artifact!ReadsAreUploads`: the fs driver's `paths` (`internal/artifact/drivers/fs/fs.go:260-275`)
  gives the metadata of `ab` the file that holds the bytes of `ab.json`, a valid id. A Put of
  `ab` that follows one of `ab.json` replaces its bytes, and a Get of `ab.json` returns JSON
  that nobody uploaded; in the other order the metadata of `ab` are lost. `ab.json.tmp`, the
  temporary file of `ab`'s metadata, is a valid id too.

Seen while modelling, with no property of their own: a client of the PostgreSQL lease
driver that renews with a shorter ttl and gets an error
(`internal/lease/drivers/postgres/postgres.go:179-181`)
may hold the shorter lease, so that one that goes on trusting its last answer is not
exclusive. A registry build that fails on a later backend or namespace
(`cmd/mindd/main.go:391-412`, `554-596`) drops the drivers it had opened without closing them.
A boot that fails with a listener up does not stop the gRPC server, so its deferred closes
may wait for a call that streams to a client that stands still
(`internal/kv/drivers/postgres/postgres.go:98`, pgxpool's Close). Once encryption is turned off
for a namespace its reads serve the stored envelopes with OK (`main.go:426-430`). A stored
plaintext that is long enough and begins with the version byte fails to open under
`allow_plaintext_reads` (`internal/encryption/encryption.go:127-129`). The PostgreSQL Expire of the
semantic block with an empty filter marshals null and affects only records stored with null metadata
(`internal/semantic/drivers/postgres/postgres.go:576`), where `internal/semantic/driver.go:132` says
that an empty filter matches every record. Policy decides Artifact/Put
with an empty namespace, since the request's is nested in its first message
(`internal/interceptor/policy.go`, `namespaceFromRequest`); with tenant isolation the
counts of ListNamespaces are asked under the unqualified name
(`internal/kv/registry.go:71`); the gateway dials its own server in plaintext even
when TLS is on (`internal/server/http_gateway.go:45`); the semantic namespaces
`a-b` and `a_b` share a table (`internal/semantic/drivers/postgres/postgres.go:97`);
a numeric predicate matches "1e3" in memory and not in SQL (line 654).

### Fairness

`LeaseMemory`, `LeasePostgres`: time passes, and an Acquire that can take a step
takes one - the Go runtime schedules goroutines and fires timers, the database
executes what it is sent. `KVMemory`: time passes and the sweeper's ticker fires
until Close. `KVPostgres`: a call whose next statement can proceed proceeds.
`EpisodicMemory`: a running tailer keeps running as long as its consumer takes
what is yielded. `EpisodicPostgres`: the ticker of every Tail fires again and
again. `Artifact`: the goroutines of an upload are scheduled, and its client sends,
ends or is disconnected. `Sidecar`: the main goroutine and the shutdown timer are
scheduled, except that closing
waits (`HeldUp`) for a call that holds a registry's lock, as the counts of admin do, or a connection
of the pool being closed; and once the timeout has forced Stop, calls, whose context
and statements it cancels, end. Otherwise calls and clients may stand still for ever.
`ShutdownCompletes` leaves out the one case in which nothing cancels such a call: a boot that
failed with a listener already up. Nobody
is assumed to start, renew, release, cancel, append, delete or close anything, and
no failure is assumed to happen. `GraphStore` and `Semantic` state no liveness.

All runs say `CHECK_DEADLOCK FALSE`: clients may stop calling, and a behaviour
ends when its calls and its clock are used up. That nobody is left waiting is
what the liveness properties say.

## Proofs

Every theorem holds for any value of the constants that the named ASSUMEs of its module
admit: any keys, calls, configurations, requests, graphs, buffers and bounds.

| module | theorem | states |
|---|---|---|
| `LeaseMemoryProofs`, `LeasePostgresProofs` | `TypeCorrect` | `Spec => []TypeOK` |
| both | `LeaseMutualExclusion` | `Spec => []MutualExclusion` |
| both | `RefinesContract` | `Spec => ImplementsContract` |
| memory | `OwnersInspectable`, `SleepsAreBounded`, `Fencing` | `OwnerIsInspectable`; `NeverSleepsPastDeadline`; `LostHolderNeverReturns` |
| PostgreSQL | `RowsIssued` | `LiveRowsAreIssued` |
| `KVProofs`, memory | `TypeCorrect`, `ExpirySpares`, `AccessesCounted`, `CapacityKept` | `TypeOK`; `ExpiryNeverHitsFreshRecord`; `AccessCountExact`; `CapacityHeld` |
| PostgreSQL | `PgTypeCorrect`, `CompareAndSwap`, `NoIncrementLost` | `PgTypeOK`; `CASReplacesVersionChecked`; `VersionsAreDistinct` |
| `EpisodicProofs`, memory | `TypeCorrect`, `ClosedOnce`, `TailersMissNothing`, `FeedIsPrefix`, `IndexesHold` | `TypeOK`; `ChannelsClosedOnce`; `TailerMissesNothing`; `DetachedFeedIsPrefix`; `IndexesAgree` |
| PostgreSQL | `PgTypeCorrect`, `Deduplication`, `TailLosesNoEvent` | `PgTypeOK`; `DedupReplays`; `TailMissesNothing` |
| `GraphStoreProofs` | `TypeCorrect`, `AdjacencyHolds`, `ResultsClosed`, `SearchReaches` | `TypeOK`; `AdjacencyAgrees`; `SubgraphClosed`; `TraverseReaches` |
| `ArtifactProofs` | `TypeCorrect`, `StoredDataIsWhole`, `SoloPutsAreDescribed` | `TypeOK`; `DataIsWhole`; `SoloPutIsDescribed` |
| `SemanticProofs` | `TypeCorrect`, `VectorsAreOfContent`, `ConditionalWritesReplaceChecked`, `SearchesAreSound` | `TypeOK`; `VectorIsOfContent`; `CASReplacesChecked`; `SearchIsSound` |
| `SidecarProofs` | `SignalsHeeded`, `ReloadsWhole`, `CallsPermitted`, `RateLimited`, `DriversClosedOnce`, `ValuesRoundTrip` | `SignalledIsLoaded`; `ReloadIsWhole`; `ServedIsPermitted`; `RateLimitHolds`; `ClosedOnceAfterCalls`; `ReadsRoundTrip` |

### The inductive invariants

Hardly any of these properties is inductive. Each proof module starts from the named
parts of a strengthening, shows that every action keeps them, and derives the property;
TLC checked each strengthening on the module's instance as well.

* Leases. A state in which a client holds an unexpired handle that the table does not
  know satisfies mutual exclusion, and the next grant breaks it. `HandleInv`: the
  call of an unexpired handle is the holder stored for its key and was granted it; in memory
  the stored expiry is the handle, in PostgreSQL it is no earlier, since an unanswered
  Renew may have moved it. A key has one stored lease, so two unexpired handles
  of one key belong to one call. PostgreSQL needs the converse too (`RowInv`: the
  holder of a row was granted that row, and a live one lasts until the handle at least), since the
  DELETE of a Release comes after a probe that may be out of date; `AskedInv`: a client
  counts on no more than the Renew under way asked for, and on nothing once it has called
  Release, so that statements executed without an answer leave it behind the row, never ahead;
  and `SentInv`: the expiry of a statement under way was computed from some reading of the clock.
* KV, memory. A Get works on the record it found, not on the key. `GetInv` says what its
  pointer still guarantees after each unlock, `ExpiryInv` that whoever is about to expire
  a record saw a time at which it was due, `CountInv` that a record's counter is the
  number of Gets past their increment, `CapacityInv` that only a Put under way may be one
  over capacity.
* KV, PostgreSQL. `LockInv`: a lock held after the SELECT alone is held because the SELECT
  found a row. `CheckedInv`: a row that a transaction selected is locked by it and is the
  row it compared, until it writes. `LifeInv`: in the life that the row is in, the row has
  the highest version returned so far; a pending put continues that life by one version
  or begins a new one.
* Episodic, memory. `LogInv`: the log is in cursor order, through soft and hard deletes,
  and holds no cursor not yet given out. `FeedInv`: the live cursors of a tailer follow one
  another from where its history ends, up to the last one given out while it is registered.
  `PastInv`: its history, replayed or not, lies before that, in order.
* Episodic, PostgreSQL. `CursorInv`: cursors of open transactions lie above all committed
  ones and only the holder of the counter row has one. `KeyInv`: a dedup key names one
  stored event. `TailInv`: a tail has sent nothing yet, or only cursors that are
  committed.
* Graph. `QueryInv`: an edge still to be visited touches a node that the result already
  has; the result is finite and within budget. `ReachInv`, for a search that no write has
  torn: frontier and result are the nodes within `hop` hops and those of the next level
  found so far, and unless something was cut off the neighbours of every node that is
  spent are in the result or on the list being visited. The levels are the recursive
  definition of reachability, for any depth.
* Artifact. `PutInv`: the pump has sent at most one chunk more than the driver has read, and
  the driver gets past its copy only after an end of file that the pump sent for a complete
  stream. `EntryInv`: in memory bytes and metadata come and go together. `OpenIsWhole`:
  what a reader of the memory driver holds is whole before it is returned. `SoloInv`: while no
  other call meets an upload on its id or on one of its three files, the bytes,
  the temporary metadata file and the record to be
  written are its own, at each step of the write and of the later patch.
* Semantic. `CacheInv`: an entry's vector is that of its key, and keys are distinct.
  `VectorsOf`, in each session: an answer is the vector of its text, or missing and asked for;
  the vectors placed line up with the records that need one. `LockInv`: one batch
  at a time under the mutex, and row locks of two transactions are disjoint.
  `CheckedInv`: the `if_version`s of a batch that are still to be used are the versions of
  the rows, and the version that a transaction compared last is that of a row it has
  locked. `StoreInv`: stored vectors are of their content, and in memory `order` lists
  the stored keys once each, which a Delete and an Expire in the middle keep.
* Semantic, searches. `SearchInv`: the stored records and the locks of a transaction are
  finitely many, so that a lane, which is cut off a list of candidates, is one; a lane that a
  PostgreSQL search carries from one statement to the next lists ids without repetition, and a
  fused list it carries respects the lanes it came from (`FusionRespects`). That fusing does
  so rests on arithmetic: comparing sums of `1 / (60 + rank)` is a total order up to the
  ids (`ByScoreOrders`), and being ahead in one lane and not behind in the other makes the
  greater sum (`PlusGreater`). A list sorted by a total order holds each element once,
  at the place its predecessors leave (`Listing`).
* Sidecar. `Types`; `SeenInv`: a file older than the last signal is read only while
  another signal is pending. `WholeInv`: what each boot stage and each swap of a reload left
  in force belongs together. `CallInv`: what a call has been through, judged by the
  configurations it read (`LetOn`: no rule before the one it is at stopped it).
  `RateInv`, `HoldInv`: a limiter's tokens plus what it granted are within burst and refill,
  and a call at a limiter refers to the last one made for its key. `DriversInv`: a
  driver is closed exactly if its registry has let go of it and its turn has come; those of a block
  whose build failed are in no registry. `BuiltInv`: a registry owns each of its drivers once,
  every namespace of a built block is served by an owned one, and whatever is owned when the
  process closes is on the list to be closed. `UseInv`: a call in its driver uses an owned one
  until the process closes. `ReadInv`: a row in a tenant's own namespace was written by that
  tenant, a sealed one is sealed for its place only, and every answer was possible under the
  configuration in force.

### Assumptions and form

* The assumptions are the ASSUMEs of the modules, which TLC evaluates on every instance:
  parameters are natural numbers; identifiers differ from the no-value constants; ttls and
  poll intervals are positive; in `Artifact` metadata and temporary files are named injectively
  and never alike; in `GraphStore` edges join nodes, and a traversal's depth is
  positive, as the service clamps it; in `Semantic` requests have the fields of their
  messages, with positive limits, the cache has room for a text, ids are ordered and a text has
  finitely many terms; in `Sidecar` every configuration has the fields that
  the code reads and clients call services that exist. Finiteness (of stored edges, results,
  committed calls, records) is never assumed: it is part of the invariants.
* The library's induction theorems take an operator as a parameter, out of the
  provers' reach. Where a proof needs induction (that a recursive function exists, or what
  holds of each of its values) it takes the least counterexample of a set of naturals
  (`LeastNatural`, from the well-foundedness of `<`): `TablesExist`, `LevelsExist`, `BindAllOk`.
* Because the prover cannot unfold them, the models fold a batch or the namespaces of a
  block with recursive functions (`PutEdges`, `bindAll`) rather than library folds, select
  from a log, an order or a cache by ordered positions (`InOrder`, `Selection`, `Keep`) rather
  than with `SelectSeq`, rank by counting predecessors (`Listed`) rather than with
  `SetToSortSeq`, and extend functions by explicit construction.

### Only model-checked

* The liveness properties (`EveryAcquireReturns`, `ExpiredIsReclaimed`, `EveryWriteEnds`,
  `TailsEndAfterClose`, `TailCatchesUp`, `EveryPutReturns`, `ShutdownCompletes`): they rest on
  fairness, which the prover does not handle.
* The comparison of the token kinds with a reference over bounded inputs (`TokensRoundTrip`).

Every safety invariant that a passing run checks is also proved.

## Plan

A contract of gap-free feeds that both episodic drivers implement, as both lease
drivers implement theirs.

## Not modelled

* `mindctl`: turns flags, or tool calls on its standard input, into single RPCs.
* Generated messages, SDKs and the conformance suites: encodings, clients and tests.
  Of the generated code only the service descriptors and the gateway's routes decide
  anything; they are in `Services`.
* Instruments and exporters of metrics and traces: they report, nothing depends on
  them. Their set-up is a boot stage that may fail.
* Vector arithmetic (floating point), text search inside PostgreSQL, the recall of the
  approximate index, token and cipher cryptography, HTTP to embedding services and the
  object store's protocol: libraries and services, modelled by how the code uses
  their results.
* MultiGet, Scan and Range of the KV and episodic memory drivers: reads of one
  snapshot that change nothing.
