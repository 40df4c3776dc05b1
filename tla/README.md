# A TLA+ verification of the x402 Stellar facilitator

The facilitator (`src/src`) is a Fastify service that verifies and settles x402
payments on Stellar. This directory models the parts of it that keep state or go
through concurrent, fallible steps, checks the models with TLC on small
instances, and proves with TLAPS, for every instance, each safety property that a
passing run checks. Liveness is model-checked only.

`PROJECT.json` ties each definition to the source lines it stands for, and lists
the runs, the mutants that show each property can fail, the findings, the
hazards and the theorems.

## 1. Inventory

Paths are relative to `src/src`, but for the retention job's.

| Component | State it keeps | Operations | Hard behaviours | What makes it correct |
|---|---|---|---|---|
| Settle endpoint (`app.js`) | one request: claim, `requestState.submitted`, timer | get, save, begin, `settleOnce` in a `Promise.race` with the timer, catch | the race cancels nothing, so an answered request's worker goes on; every `await` is an interleaving point | success answered only for an executed transaction; every request is answered |
| Routes and their gates (`app.js`, `auth*.js`, `ip.js`, `trust-proxy.js`) | the key ring; a request's identity | address, credential, body, limits, work, cataloging, reads | forwarded headers, keys that expire while the process runs, the order of the checks | a refused request used up nothing; a caller reads its own records |
| Settlement store (`store/`, `eventstore/`) | event log and projection per key, in Postgres and in memory; replica | save, updateState, settleAndEnqueue, get, listUnknown, getConsistent, rebuild | degrade to memory, replica lag, writers of one record in any order, a repair during writes, a read of several awaits | a `settled` record names an executed transaction and has its outbox row; the row is the fold of its log |
| Idempotency store (`idempotency.js`) | one row per key: claimed or completed | begin, complete, fail | claim races, crash with the claim, degrade | one owner of a key; an unknown outcome is never claimable |
| Distributed lock (`distributed-lock.js`) | a key per payment on Redis masters, a chain of waiting calls per process | withLock, acquire, extend, release, degrade | TTL passes under the holder, a pod loses its masters while one of its calls holds | one worker per payment as long as Redis is there; every call ends |
| Pact scheme (`pact-scheme.js`) | none (the chain's) | verify, settle, submit | other transactions land between its awaits; a call may throw after it reached the network | the sponsor only pays the fee; success is on the ledger |
| Reconciliation (`store/reconciliation.js`) | none | sweep: list unknown, poll, write verdict | writes to a record that moved on since it was listed | landed unknown records are resolved |
| Outbox (`outbox/`) | `outbox_events` | insertEvent, claimBatch, markPublished, markFailed; poll cycle | cycles overlap, leases expire, crashes between publish and mark | published rows were accepted, nothing is lost, budget kept |
| Dead letters (`dlq/`) | `dead_letters`, alert flag per process | insert, claimDue, redelivery, replay, discard, purge, depth alert | replay does not claim; marks go by id | resolved letters were accepted; every letter ends |
| Webhooks (`webhooks/`) | jobs, topic offset, credential cache, pools | enqueue, publish, consume, authenticate, attempt, give up, stop | broker down, crash of the consumer, certificate rotated during a load | what is given up can be found, where there is a dead-letter store; no pool of a rotated certificate |
| Circuit breaker (`rpc-retry.js`) | breaker per host | gate, record success and failure | half-open probe among concurrent calls | a host that recovered is dialled again |
| Rate limiting (`rate-limit*.js`, `redis-rate-limit.js`) | windows per caller | check, record, shed, degrade, recover | check and record are apart; the store goes away in between | limits are passed by no more than what was in flight; fees are forgotten only where the memory's map sheds them |
| CRDT store (`crdt-rate-limit-store.js`) | counts per region, shared row | increment, shed, get, sync, merge | an increment during a sync's await; syncs overlap | the merged count grows and counts nothing twice |
| Projection worker (`settlement-cqrs.js`, `eventstore/projection-worker.js`) | offset, checkpoint, read table | poll, project, checkpoint | one offset for per-key sequences; crash between writes | the longest log is caught up with |
| Key manager (`key-manager.js`) | generations with leases | refresh, install, grace, purge | rotation during a settlement | a generation in use is not purged, a rotation is followed |
| Multi-signer (`multi-signer.js`) | envelopes | create, ask, add signature, expire, assemble | replies late, twice, from any endpoint | nothing partly signed is submitted |
| Vault credentials (`vault/`) | cached lease, pool options, token | fetch, refresh window, boot, stop | fetches fail or are slow, the token is revoked | the pool's credentials are not over |
| Catalog (`catalog/memory.js`, `catalog/postgres.js`) | resources, vectors, rows written behind | upsert, delete, expire, embed, hydrate | statements in any order, late vectors, writes before hydration | a vector is of the text it ranks |
| Search cache (`catalog/cache.js`) | two tiers, version, floor, loads in flight | search, invalidate, broadcast | a load that ends after an invalidation; versions per process | own writes are found |
| Retention job (`src/scripts/data_retention_job.js`) | archive | select, archive, delete, close | the service goes on writing between SELECT and DELETE | only due rows go |
| MCP server (`mcp/`) | lines, queue of writes, session spend | receive, run batch, pay, write, drain | batch members run concurrently; back pressure | answers in order, once; overspend bounded |
| Process (`server.js`, `process-handlers.js`, `readiness.js`) | listeners, requests in flight, readiness cache | boot, probe, drain, deadline, exit | two signals; a probe under way when the drain begins | nothing closed under a request; the process exits |
| Horizon client, failover health, catalog validation, asset cache, configuration, metrics, SDK | caches at most | see section 6 | none of their own | not modelled |

How they interact. The settle handler calls, in this order, the gates, the rate
limiter, the settlement store, the idempotency store, the lock, the scheme and
then the settlement store again, whose transaction also writes the outbox row.
The outbox worker publishes the row through the webhook dispatcher and hands a
row it gives up to the dead-letter queue, whose own worker and operators
redeliver it. The reconciliation sweep writes the same settlement records as the
handler; the projection worker reads their log into a table of its own. A
settled or verified request catalogs its resource, which the search cache
answers from. The breaker sits under every RPC call and is where
`requestState.submitted` is set, which the handler's timer reads. The key manager
decides which signers a scheme has, Vault which credentials the pools have. The
process's drain closes all of them.

## 2. Modules

| Module | Content | Instance |
|---|---|---|
| `Settle` | the settle endpoint with its stores, claims, lock, chain, sweep and faults | `MCSettle` |
| `Outbox` | the outbox | `MCOutbox` |
| `RpcBreaker` | the retrying fetch with its circuit breaker | `MCCalls` |
| `DeadLetter` | the dead-letter queue | `MCDelivery`, `MCLoops` (the alert) |
| `Webhook` | the dispatcher, its consumer group and its client certificates | `MCDelivery` |
| `KeyRing` | key generations and the settlements that sign with them | `MCDelivery` |
| `MultiSigner` | co-signed envelopes | `MCDelivery` |
| `VaultLease` | database credentials with leases | `MCDelivery` |
| `DistributedLock` | the lock of one payment over its masters, and the mutex behind it | `MCCalls` |
| `CrdtCounter`, `SharedCount` | the regions' count, and what it promises | `MCLoops` |
| `Projection` | the projection worker | `MCLoops` |
| `Mcp` | an agent's stdio session with paid calls | `MCLoops` |
| `Lifecycle` | boot, readiness, drain, exit | `MCLoops` |
| `RateLimit` | limits over three stores | `MCRecords` |
| `EventStore` | the event log, its projection and their copies | `MCRecords` |
| `CatalogCache`, `Catalog` | the search cache; the catalog stores | `MCRecords` |
| `Retention` | the retention job | `MCRecords` |
| `Gate` | the checks and the work of every route, in order | `MCRecords` |
| `Pact` | the pact scheme | `MCRecords` |
| `SettleProofs`, `SettleSafety` | theorems of `Settle` (section 5) | |
| `OutboxProofs`, `RpcBreakerProofs`, `RateLimitProofs` | theorems of the module in the name | |
| `DeliveryProofs`, `LoopsProofs`, `RecordsProofs` | theorems of the components that `MCDelivery`, `MCLoops` and `MCRecords` hold (but for the limits), and of the lock | |

`MCCalls`, `MCDelivery`, `MCLoops` and `MCRecords` hold several components. Those share no
state, so their variable `part` picks the one a behaviour moves, while the others
keep their first state: interleaving them would multiply the states and show
nothing. An action is what the code does between two awaits, in every module.

### Settle

A request is two processes. `hpc[r]` is its handler:

    new -> get -> save -> begin [-> insert [-> poll]] -> race -> release -> record -> done

`wpc[r]` is its `settleOnce` worker:

    off [-> lock | mutex] -> build -> confirm -> settled -> catalog -> complete -> returned
                           \-> failed  -> complete            (or threw)

An action ends at an `await`, as JavaScript runs to the next one without
interruption. `Respond`, `Rethrow` and `Timeout` are the three ends of
`Promise.race`; after `Timeout` the worker's actions stay enabled.

- Settlement records: `db` is the projection table on the primary, `replica`
  what the replica has of it, `mem[p]` the store's own memory (which a Postgres
  store writes too). `Applied` is the fold of one more event: a given column
  wins, NULL keeps the old value. The event log itself is not kept: the
  projection is all that the modelled operations read.
- Claims: `row` is `idempotency_keys`, `imem[p]` the memory fallback,
  `claim[r]` which of the two holds the request's claim. Postgres' `begin` is
  three actions, as its SELECT, its INSERT and the loser's poll are apart.
- Faults: `Degrade` (any failed query, at any moment, for good), `Crash` (a
  process with everything in it), `LoseLock` (a failed extension), `Replicate`
  whenever it likes. Each is bounded by a constant.
- The chain: `Include` executes a payment's transfer once, as its authorisation
  nonce can be consumed once; `Drop` is a failed or expired transaction.

What the abstraction decides. A payment stands for its transaction hash as well:
the hash a client may send along (`paymentPayload.transaction`) is taken to be
its payment's, as in `src/test/timeouts.test.js`. The scheme throws only
before it broadcasts, which `pact-scheme.js` guarantees by turning later errors
into a failure result. Cataloging changes the catalog and not the
settlement; the webhook secret is configured. The outbox is a set of (key,
transaction), as the event ids are random. At SERIALIZABLE isolation a lost race
for the claim may raise a serialization error instead of inserting nothing; that
path is `Degrade` followed by `BeginMemory` from "insert". A payment's lock
is its holder at each `Guard`: the Redis masters, and the mutex of every pod, which
a pod turns to for good when its acquire window runs out and it sees no node ready
(`LockDegrade`; `LockTimeout` is the refusal while it sees one). `LoseLock` is a failed
extension, bounded. How masters come and go is in `DistributedLock`. One sweep runs at
a time in a process. The retention job deletes old `idempotency_keys` and
`settlement_events` by age whatever their state; that is in `Retention` and not here.

### Outbox

A `Worker` is one poll cycle in flight: the interval does not wait for the cycle
before it, and every pod has its own. `rows[e]` has the status, the attempts and
whether the lease is over; `batch[w]` and `cur[w]` are the rows as `RETURNING`
gave them, so their attempts may be stale. `Publish` may throw although the sink
accepted.

### DeadLetter

`attemptRedelivery` is shared by retry cycles and operator replays
(`Attempter`). A cycle claims, redelivers one by one, counts and sets the alert
flag of its process (`Host`). Replays read the row without a claim. `due` and
`lease` are `next_retry_at` and `claimed_at + leaseMs` against `NOW()`; the
backlog is taken to fit a batch.

### RpcBreaker

The breaker of one host (`breakers` are keyed by host and share nothing) and the
`retryingFetch` calls in flight to it. `Start` is the gate, which a call passes
once; `StartProtected` is a `sendTransaction`, which is never gated; a call then
dials up to `Attempts` times (`Answered`, `FailedDial`, `Wake`), so its report may
reach a breaker in another state than the one that admitted it. `OtherError` is a
dial that ends outside `RETRYABLE`, the deadline's own abort included: the breaker
is not told. A refused call throws and changes nothing, so it is no action.

`fails` counts up to `Threshold`, as the code only asks whether that is reached;
`cooled` is `Date.now() - openedAt >= cooldownMs`. `probe` and `lost` are history
variables: which call was made the half-open probe, and whether it ended without
a word to the breaker. Lengths of backoffs are left out, so a call may run out of
its deadline after any dial or sleep.

### Webhook

`job[m]` is a message on its way: handed over (`Hand`), at the broker, queued, at
authentication, sending, done. `BrokerAck` and `BrokerFail` are the two ends of
`producer.send`; a failure makes `enqueue` deliver directly and `publish` throw,
for the outbox to try again. `group.offset` is committed after `EachMessage`, so a
crash redelivers. `cached`, `loading` and `pools` are the credential cache, the
shared load and the connection pools of `mtls.js`; certificates are known by their
generation in the vault. `dropped` is history: what a crash of a path without a
log, or a failed dead-letter insert, lost.

`hasDlq` is whether the deployment has Postgres: without `DATABASE_URL` no
dead-letter store is built (`server.js`), a message given up just ends, and there is
no outbox to publish from. `NowhereMsg` are messages with nothing to deliver to: no
url, which ends `enqueue`, the broker's fallback and `EachMessage` without a word
(`Direct`, `SkipMessage`) and makes `publish` throw, or something on the topic that
is no record (`ForeignMessage`). `HookKept` names all the ways in which a message may
end without a trace (`Excused`) and says that there is no other.

### KeyRing, MultiSigner, VaultLease

`gens` is the key manager's map: a generation's keys, its leases and whether its
grace is over. A refresh compares key ids, `Installed` retires the rest, takes
the scheme's lease and purges. `using[s]` is the generation a settlement began
with. An envelope of `MultiSigner` has an id; replies carry only that, so one
asked for an earlier envelope of the id may arrive at a later one. `late` stands
for the clock. `VaultLease` counts ticks: `MustFetch` is `ensureFresh`, `fetches`
the requests under way, `poolLease` what the pool will connect with;
`PoolCredentialsValid` is stated for refresh windows and leases that are no shorter
than a poll and a fetch together, and holds again one lease after the last failure.

### DistributedLock

`granted[n]` is the caller that master `n`'s key names, `reach[p]` the masters
whose client is ready in pod `p`. Redlock is a library: an acquisition sets the
key where it is free and reached, and needs a majority. `AcquireTimeout` is the end
of the attempts: refused while some client is ready, otherwise the pod degrades
for good and the call chains itself behind `tails[p]`. `KeyExpires` takes a key that
nobody extends, `Network`, `PauseProcess` and `LockCrash` are the troubles.
`aborted` has the calls whose cancel signal fired, `exposed` is history: who held
through a pause or a lost majority.

### CrdtCounter and SharedCount

One bucket. A sync is `SyncStart`, which asks whether the region is degraded, then
`SyncUpsert` and `SyncApply` as often as it meets the bucket in the map, and `SyncEnd`,
which is `_recover`; `SyncRun` of them overlap. `SyncApply` overwrites the local count
with the answer, whatever was counted since. `CrdtDegrade` is any other failing
statement, `SyncFails` one of the sync: a degraded region starts no sync, so it recovers
only through one already under way. `Shed` is the map's size limit: an entry set again
is the map's last, and a sync under way meets it (`ahead`). `Read` is `get`, by which a
request is refused.
`SharedCount` is what such a counter promises: a published count that never
shrinks and never passes what was admitted, and regions that decide by their own
counting or by something once published. `CrdtIsCounter` is the refinement
(`INSTANCE SharedCount WITH admitted <- admissions, published <- row,
view <- local`), with a bound on `Read`.

### Projection

A settlement is the number of its events; `readModel` says how many its row
reflects. `Batches` are the answers the ordered SELECT with LIMIT may give, ties in
any order. `FetchEvents` and `WriteProjection` are the two awaits for one event,
between which its settlement may move on. A worker that fails in a batch leaves its
offset; one that crashes starts from the checkpoint.

### Mcp

A line is a request or a batch; readline hands over the next one while the
transport works one at a time. `member[i][p]` is where a request of a batch is:
a paid one asks the caps, pays and records in separate steps. `writeQueue`,
`parked` and `pipe` are the transport's back pressure; `StdinEnds` and
`Disconnect` end it.

### Lifecycle

`Steps` are the awaits of the drain in order; `Throws` is the one whose chained
`.catch` is a TypeError, which ends the drain. Two signals start two drains.
A request ends when it is answered: the handler of a client that has gone may still run
after `app.close`, which is left out. The
probe asks its dependencies one at a time, takes the cached result when it is
fresh, and reads `isShuttingDown` when it arrives and before it answers.

### RateLimit

The buckets of one owner, and what other owners do to them. A slot checks its buckets one await at a time, works,
and records them one await at a time. `LoseStore`, `RegainStore` and `RecoverRedis`
are the shared store's fate: checks fail closed on Postgres, Redis falls back to
memory. `Roll` ends a window. `spent` is history: the fees sponsored in a day.
`MemoryStore` has one map for all owners and drops, when that is full, the bucket that
resets first, in the order of insertion among equals. The other owners are what may be in
the way at any time: `Shed` drops, of this owner's buckets, one that resets no later than
its others (any of them in the last minute of the day, when all windows end together),
and `ShedByOthers` does so at another owner's request. `feesShed` counts how often the
fees were shed in a day, bounded with the outages and the ended windows.

### EventStore

`Settle` keeps a settlement's row; here the log is kept too. `WriteEvent` appends
and updates the projection in one statement, `Acknowledge` is the pod learning
of it and writing its own copy, `GoOffline` a pod degrading. `RebuildRead` and
`RebuildWrite` are a repair, with `raced` remembering an event that came between
them. `RestartPod` empties a pod's memory. `getConsistent` is followed await by await:
`ReadOwn` (the pod's own copy, all that a degraded pod has), `ReadReplica` (its row, or
on to the primary when replicaLagMs are over, the replica refuses, or there is none),
`ReadPrimary` and `ReadFails`. One read is followed at a time, as reads change nothing but
the mode of a pod whose primary fails; any step may come between its awaits. `kept`
and `still` in `lookup`, and `author`, are history: whether the row has been there since
the read began, whether anything that it looks at changed since, and whose write the row is.

### CatalogCache and Catalog

A cached result is the process life that computed it and how many of that store's
writes it reflects. Keys hold the version, which each process counts from zero.
`bus` has the invalidations on their way. In `Catalog`, `resources` is memory,
`table` the rows; `statements` are written behind and executed in any order;
`embedding` holds entry objects whose vector is computing, also ones an upsert has
replaced. An embedding service is configured at every boot. `Hydrate` reads the rows back into a memory that may have been written.

### Retention, Gate, Pact

A row of `Retention` is what a WHERE clause tells of it; DELETE selects again.
`Gate` has one request at a time and goes through its route's list of checks in
the code's order; it keeps in `done` what was used up on the way. Addresses are
resolved through the proxies of a deployment (`Sites`), with what the caller
forged in front. A payload of `Pact` is a good transaction with up to
`MaxDeviations` fields that are not; `fate` is the sponsored transaction's, which
goes on after the handler gave up; the scheme's refusals are `answer`.

## 3. Runs

| Run | Instance | Shows |
|---|---|---|
| `settle` | 2 requests of one key, Postgres, 1 degrade, 1 crash | durable settled records are announced, a key has one owner, an unknown claim is never given away |
| `settle_replica` | 2 requests, replica, lock with 1 loss and a pod that may give Redis up | stale reads never report a settlement that is not on chain; `OneWorkerPerPayment`: one worker per payment until an extension fails or the pod gives Redis up (that a pod then has two at most, and several pods, are the theorem's) |
| `settle_live` | 2 requests, lock, fairness | every request is answered; an unknown record whose hash landed is resolved |
| `outbox` | 2 events, 2 cycles, batch of 2, 2 attempts, 1 fault, fairness | published rows were accepted, the budget is kept, every row ends |
| `calls` | rpc: 3 calls, 2 outages, 1 uncounted error; lock: 2 pods, 3 masters, 3 calls, 2 troubles; fairness | the breaker trips exactly at its threshold, its probe is pending or lost, an outage trips it, recovery closes it; `LockServes` |
| `delivery` | letters: 1 letter, 2 cycles on 2 processes, an operator, 2 attempts; hooks: 3 messages, one with mTLS and one without a receiver, both kinds, with and without a dead-letter store, 2 attempts, 1 rotation, 1 fault; keys: 5 key sets, 2 rotations; signers: 3 identities on 2 endpoints, threshold 2, 2 envelopes; vault: 26 ticks of a lease of 10, 2 failures; fairness | `ResolvedMeansAccepted`, `DlqBudgetKept`, `EveryLetterEnds`; `HookKept`, `AckedIsDelivered`; `RotationFollowed`; `SubmittedIsSigned`; `PoolCredentialsValid` |
| `loops` | regions: 2 regions, 2 overlapping syncs, 3 increments in all, 1 failure; worker: 2 settlements, 3 events, batch of 2, 1 crash, 1 error; agent: 4 dialogues; process: 2 signals, 3 dependencies, 1 request; alert: 2 letters, 2 cycles of one process; fairness | `CrdtIsCounter`, `CrdtConverges`; `LongestCatchesUp`; `SessionKept`, `EveryLineAnswered`; `DrainKept`, `SignalExits`; `AlertFollowsDepth` |
| `records` | limits: 2 slots, 3 stores, 1 upset (a window's end, an outage or the fees shed); log: 1 key, 2 pods that write and read, 2 events, 1 repair, 1 deleted row, 1 degraded pod, restarts; cache: 2 processes, one restarting, 2 readers; catalog: 2 upserts, 2 boots, 1 fault; retention: 2 rows, every mode; gate: 6 deployments, 2 keys, 2 tokens; pact: 2 deviations | `LimitsKept`; `ProjectionIsFold`, `NoFalseMiss`; `OwnWritesFound`; `DenseIsHonest`; `OnlyDueDeleted`; `GateKept`; `PactKept` |

Four further runs show where the code does other than a comment or the operator's
guide says; each stops at a violation that a finding explains:

- `settle_overwritten`: a timed-out request overwrites `settled` with `failed`;
- `outbox_letter`: two overlapping cycles both miss that a row is exhausted, and
  it ends failed without a dead letter;
- `breaker_wedged`: a probe that ends in an error outside `RETRYABLE` leaves the
  breaker half-open for good, and ordinary calls to the healthy host are refused;
- `drain_audit`: `rateLimiter.close().catch` throws in every drain, and the audit
  sink is never flushed.

The bounds. Every hazard in the list is about two actors: two requests of one
key, a request and its own abandoned worker, a request and the sweep, two cycles,
a cycle and an operator, two regions, a repair and a write, a load and an
invalidation, two drains. One fault of a kind lets it fall at any step. Two
attempts make the last one differ from the first. The breaker has three calls, so
that a probe, a late report and an ungated broadcast meet, and two outages, so
that it trips again after it has closed. Two rotations make a generation retired
that is neither current nor the one before. Vault's 26 ticks are two leases and a
failure. Three events of two settlements in batches of two make one offset pass
the other's events. Requests, slots, pods, readers and rows are symmetric in the safety runs. TLC's
instances of `Settle` have one pod with Postgres; the other combinations are covered by
the theorems, which state the same properties for any number of pods and every
configuration. The last minute of the day is looked at for the memory's limits only, the
one store whose shedding it bears on, and a consumer group without an offset only where
there is a topic. Deadlock is not checked
in the runs whose bounded systems come to rest.

Fairness. `FairSpec` of `Settle` assumes that the handler's own steps are taken
(database calls return or fail, the timer fires), that the sweep's interval
fires, that its RPC call does not fail every time it is made (strong fairness of
`PollRecord`), and that the replica catches up. Nothing is assumed of the
worker, the lock or the chain, because `Promise.race` exists for the case that
they hang. `FairSpec` of `Outbox` assumes that the interval starts cycles, that
statements and publishes come back one way or the other, and that time passes;
`LettersFair` and `AlertFair` the same of retry cycles; operators owe nothing.
`RpcFair` assumes that dials end, which undici's own timeouts and
the deadline give, that sleeps and cooldowns pass, and that ordinary calls keep
coming (health checks and sweeps make them); nothing is assumed of the host or of
settlements. `HooksFair`: awaited calls return, the consumer polls, a process that
died is started again; nobody owes a further message. `KeysFair`: the poll timer fires and a fetch ends.
`LockFair`: attempts end at their deadline at the latest, and so does the wrapped
settlement; nothing is assumed of extensions, keys or the network. `RegionsFair`: the sync interval fires and each sync's statements return. `WorkerFair`: the
worker's loop goes on and its process is restarted. `AgentFair`: promises settle,
as every fetch has a deadline, and a connected client reads its pipe; it owes no
further line. `ProcessFair`: the event loop runs its timers and what is ready; a
request in flight may never be answered. The fairness of a component in an
instance of several is that of `part = "x" /\ Action`.

## 4. What the code does not do

Each of these formulas stands in its module as a comment of the code or of its
documentation states it, with that quotation; TLC refutes it, and it is in no run.
A run that checks it in place of its own properties finds a counterexample under
that run's own configuration, unless another instance is named.

| Formula | Module | What happens |
|---|---|---|
| `ReleasedNotSubmitted` | `Settle` | the claim is released and the worker broadcasts after it (`settle`) |
| `UnknownResolves` | `Settle` | an unknown record with an empty hash is never resolved (`settle_live` with requests that carry no hash) |
| `AckedIsAhead` | `Webhook` | a group that joins for the first time starts after what the broker acknowledged before |
| `RetiredIsPurged` | `KeyRing` | the lease `onRefresh` takes is never given back, so no generation is purged |
| `SignaturesCoverTx` | `MultiSigner` | a late reply is taken for the envelope that has the id now |
| `CancelledWhenLost` | `DistributedLock` | `settleOnce` does not take the cancel signal |
| `InProcessSerial` | `DistributedLock` | the mutex knows nothing of an operation that Redlock let in before the pod degraded |
| `ReadIsMerged` | `CrdtCounter` | `get` compares a BIGINT, which node-pg gives as a string, with a number by `===`, so a region with an entry of its own never merges on read |
| `CrdtConservative` | `CrdtCounter` | the maximum of two regions' counts is less than their sum |
| `DegradedRecovers` | `CrdtCounter` | `_sync` returns at once while degraded, so a region with no sync under way stays local for good |
| `EveryoneCatchesUp` | `Projection` | the offset of a long settlement passes the first events of a new one |
| `SessionCapKept` | `Mcp` | the members of a batch all ask before the first of them records |
| `HandedOverIsWritten` | `Mcp` | at the end of stdin a parked queue drops its frames |
| `FeeCeiling` | `RateLimit` | the memory's map sheds the day's fees, and Redis counts one whatever the fee (for Redis alone one slot, fee limit 3, other limits 9, fee 2, no upsets) |
| `OwnWriteServed` | `EventStore` | updating a record does nothing to the memory of a pod that did not save it, so the pod that settles it is answered by the lagging replica's row of before |
| `ReadsAreCurrent` | `EventStore` | a pod that saved a record answers its own copy for as long as it lives, also after another pod's retry or sweep has moved the record on, with no replica at all |
| `RetiredNotServed` | `CatalogCache` | a load that began before a broadcast caches its result after it |
| `NoStaleGeneration` | `CatalogCache` | versions are counted per process and the second tier is shared (both processes searched, one reader, one write and one life each) |
| `SettledIsDurable`, `StaysDeleted` | `Catalog` | statements arrive in another order than they were sent |
| `CountsInLockstep` | `Catalog` | an upsert before hydration is counted again by it |
| `DeletedIsArchived` | `Retention` | S3's one upload comes after the deletions; a file's batch may differ from the deleted one |

Four more behaviours are visible in the models: a duplicate of an in-flight
request is answered with the claim's NULL status (`BeginSelect`), a lost lock does
not stop its worker (`LoseLock`), a cycle that outlived its lease marks the row of
the cycle that claimed it since (`MarkFailed` of `Outbox`), and a late failure
revives a discarded or resolved letter (`MarkRetryFailed` of `DeadLetter`).

## 5. Proofs

Assumptions: only those on the constants, named in the module that declares them
and evaluated by TLC in every run of it. They are types, and special values apart
from ordinary ones, but for these:

- `ConstantsAssumption` (`Settle`): a replica only with a primary.
- `DeadLetterAssumption`, `LockAssumption`, `RateAssumption`: finitely many letters,
  masters and slots, as these are counted.
- `OutboxAssumption`, `DeadLetterAssumption`, `BreakerAssumption`: at least one
  attempt; `BreakerAssumption`: a threshold of at least one.
- `MultiAssumption`: a list has at least as many signers as the threshold, which
  `createEnvelope` refuses otherwise.
- `VaultAssumption`: `MinWindow <= MaxWindow`, as the service's two constants are.
- `GateAssumption`: no caller is itself a proxy of the deployment.
- `McpAssumption`: a line that is not a batch is one request.

Requests, keys, payments, pods, events, cycles, calls, masters, regions, letters and
listings may be any number, logs and dialogues of any length, and every configuration
(Postgres, replica, lock, limiter's store, retention mode) is covered.

- `SettleProofs!TypeCorrect`: `TypeOK`, inductive by itself.
- `SettleSafety!SuccessMeansLandedTheorem`, `SettledMeansLandedTheorem`: not
  inductive alone, since a reply may come from the worker's result, a record, a
  record's stored response, an idempotency response or a reconciled record.
  `LandedInv` says of each of these places that success in it is evidence of an
  executed transaction; the ledger only grows, so evidence stays valid.
- `SettledNotifiedTheorem`: with `TypeOK` and `LandedInv`. A record becomes
  settled only in `SettleAndEnqueue`, and any other write leaves that state.
- `ClaimExclusiveTheorem`: `ClaimInv` adds that a claim is backed by its table's
  row, that a memory claim is of the request's own pod, and that a handler which
  may still release owns a claim. Without backing, `BeginInsert` could take a key
  that is owned.
- `UnknownClaimHeldTheorem`: an action property from `ClaimInv`; the only step
  that removes a row is the release of another owner, which exclusiveness rules out.
- `OneWorkerTheorem`: `LockInv` says that a worker past the lock is its payment's
  holder on the masters or at its own pod's mutex, and the latter only in a pod that has
  given Redis up; it holds while no extension has failed. Two workers of one payment are
  then at different guards, so one of them is at a mutex, and a third in the same pod
  would share a guard with one of the others.
- `OutboxProofs`: `OutboxTypeCorrect`; `PublishedMeansAcceptedTheorem` with
  `PublishedInv` (who is about to mark has delivered); `BudgetKeptTheorem` with
  `BudgetInv` (no attempts before the insert).
- `RpcBreakerProofs`: `TripsExactlyTheorem` and `ProbePendingTheorem` from
  `BreakerInv`, their conjunction with `TypeOK`: that the probe is still in its
  first dial needs that a failed one has opened the breaker.

`DeliveryProofs`:

- `DeadLetterTypeCorrect`, `ResolvedMeansAcceptedTheorem` (`ResolvedInv`) and
  `DlqBudgetKeptTheorem` (`DlqBudgetInv`): as for the outbox.
- `LockExclusiveTheorem`, the safety half of `LockServes`: two holders prove nothing
  about each other, but `LockInv` says that a holder who was never paused or cut off
  has the key on a majority of the masters its pod reaches, and two majorities share
  a master, whose key names one caller.
- `SubmittedIsSignedTheorem`: the code counts entries, the property signers.
  `MultiInv` says that an envelope has at most one entry of a signer, all listed, so
  the two counts agree (`SignersCounted`).
- `GenerationsKeptTheorem`, the safety half of `RotationFollowed`: `RingInv` says
  that the scheme signs with the newest generation and that every generation has a
  lease. The latter is stronger than wanted, and is what the code does: the lease
  `onRefresh` takes is never given back (`RetiredIsPurged`, section 4).
- `HookKeptTheorem`: `HookInv`, nearly inductive by itself once the parts of a job are
  typed and it is known that a delivery given up was tried and that a message without a
  receiver is never delivered; most of the proof is that each of the ways a job ends is
  accounted for.
- `PoolCredentialsValidTheorem`: `Covered` says that while the pool is up, its lease
  outlives the next poll and the fetch that poll starts, or a fetch is under way that
  returns in time, or one failed so lately that no poll, or none that has its answer
  yet, came after it.

`RecordsProofs`:

- `ProjectionIsFoldTheorem`: `RepairCurrent` adds that what a repair has folded is the
  fold of the log unless an event came since. `Fold` is a recursive function on logs
  of any length; that it satisfies its equation (`FoldEquation`), and that one more
  event is one more step of it (`FoldAppend`), is shown by a least counterexample
  among the lengths, as no induction rule can be instantiated.
- `NoFalseMissTheorem`: `Awaited` says that while a read awaits the replica or the
  primary, the row that was there when it began is there, unless it was deleted since;
  every other action keeps this through `Disturb` (`DisturbKeeps`), since no write and no
  repair makes a row vanish, and the answer of each await is not empty where it is final.
- `OnlyDueDeletedTheorem`: an action property; DELETE's second WHERE is what makes it hold.
- `DenseIsHonestTheorem`: `CatInv` says that every entry in memory, in the table, in
  a statement or with an embed under way has no vector or that of its own text, and
  that entries of one id have one text, so a late vector finds its text or nothing.
- `OwnWritesFoundTheorem`: `CacheInv` says that a result which a process's present life
  computed, under a key of version v, reflects at least v of its writes: in either
  tier and in every search under way.
- `PactKeptTheorem`: `PactInv` says what each stage of the handler has established
  about the payload when the next begins.
- `GateKeptTheorem`: `GateInv` has the forwarded chain's shape (what was forged, the
  caller, the proxies), from which `clientIp` is computed for any number of proxies;
  what the credential's check established; and `OnItsWay`: each route's list puts
  whatever may refuse before whatever uses something up.

`RateLimitProofs`:

- `LimitsKeptTheorem`: check and record are apart, so a count says nothing of the
  requests between them. `RateInv` calls a slot armed for a bucket from its passed
  check to its record, and bounds the live count plus what the armed slots will add;
  while Redis is away both stores keep room for every slot. What was spent is
  counted, owed by an armed slot, lost with a store, whose part each outage bounds, or
  forgotten with a shed fee bucket, whose count was at most the ceiling each time.

`LoopsProofs`:

- `CrdtIsCounterTheorem`: the refinement. `CrdtInv` says that every count anywhere,
  answers of syncs still to be applied included, is at most `admissions`, and that
  an answer is at most the row, degraded or not, so a sync that recovers a region brings
  nothing new. Each step is then a step of `SharedCount` or a stutter.
- `DrainKeptTheorem`: `DrainInv` says that a drain past its second step, or anything
  closed that requests use, means that the app is closed, and then no request is in
  flight and none is accepted; `ProbeInv` that a probe which arrived after a signal
  is told no, and that each fatal dependency down throughout a check is still to be
  asked or was seen.
- `SessionKeptTheorem`: `McpInv` has the order (lines in turn, frames written,
  queued, then to come) and `RoomFor`, a count: what is recorded and what the calls
  under way may still cost (a call cap each, or for one of them its quote) is within
  the session cap plus one call cap for each other member of a batch.

Only model-checked: liveness (`EveryRequestAnswered`, `UnknownLandedResolves`,
`EveryEventEnds`, `EveryLetterEnds`, `AlertFollowsDepth`, `OutageTrips`,
`Recovers`, `AckedIsDelivered`, `CrdtConverges`, `LongestCatchesUp`,
`EveryLineAnswered`, `SignalExits`, the second halves of `RotationFollowed`
and `LockServes`), which is out of the prover's reach; and every violation.

## 6. Not modelled, and the plan

Components with status `not_modelled` or `partly` in `PROJECT.json` give their
reason. In short:

- Horizon client: keep-alive pooling, and a breaker per origin that is the opossum
  library's.
- Failover health: `reportLocalHealth` has no caller, so the local status stays healthy;
  `/readyz` reports the regions and nothing in the service acts on them.
- Asset cache: a read-through cache of metadata that does not change.
- Catalog validation, embeddings and ranking, configuration, transport helpers, the
  SDK: text and number processing of one input, without shared state.
- Metrics, tracing, audit records: output only; closing the audit sink is a step of
  `Lifecycle`.
- Of modelled components: the rate limiter's bypasses, the JWKS cache, CORS, the SSE transport of the MCP server,
  the ETag cache beyond its place in `Gate`, the audit export, certificate parsing.

What would come next: the composition of `Settle`, `Outbox` and `DeadLetter` for
the path of a notification from settlement to operator, with what the three modules
promise proved of the whole; and, as far as safety goes, the steps of the liveness
arguments (what a fair action leaves no later action can undo).
