# Ironside: specifications, model checking and proofs

Ironside ingests LLM traces over HTTP, keeps every raw batch in object storage,
derives queryable rows in ClickHouse, and lets evaluators, exports, forwards and
webhooks follow a durable feed of trace versions in PostgreSQL. This directory
holds TLA+ modules for the parts whose correctness depends on the order of steps
across those stores, the TLC runs that check them on small instances, and proofs
that TLAPS checks for every instance.

    tlasany M.tla                      parse a module
    tlc -config X.cfg MC.tla           model-check
    tlapm XProofs.tla                  check the proofs

## The system

State lives in four stores and no transaction spans two of them.

| Store | State the protocols use |
|---|---|
| Object storage | immutable raw batches, pending intents (`pending/`), quarantine diagnostics (`failed/`), the recovery cursor |
| Redis / BullMQ | one job per batch id: waiting, active, completed, failed; attempts and stalls |
| ClickHouse | trace, observation and score rows; raw references (`applied` 0 pending, 1 applied, 2 tombstone); expired-trace markers |
| PostgreSQL | evaluator feed, activities and watermarks; score receipts; raw-retention intents; import checkpoints and staged snapshots; rules and their feed positions; advisory locks |

Processes: API replicas (stateless), worker replicas (four concurrent BullMQ
processors each, one recovery loop, timers for scheduled work and retention),
the SDK in the user's process, and remote evaluators polling the feed.

| Component | State | Operations | Hard part | What makes it correct |
|---|---|---|---|---|
| Ingest edge (`persist-ingest-batch.ts`) | raw, pending | persist raw, persist intent, enqueue, acknowledge | dies between any two | acknowledged implies durable; an intent never names an absent raw batch |
| Score receipts (`routes/evaluator.ts`, `evaluator-trace-feed.ts`) | receipts | claim, stage, materialise | retries under one receipt race the worker and the reconciler | a staged score is materialised or stays retryable |
| Queue (`packages/queue`) | jobs | add, take, retry, stall, fail, expire | Redis forgets; a paused worker goes on after losing its job | at-least-once, finite automatic attempts |
| Ingest processor (`processors/ingest.ts`) | refs, rows, publications | refs, rows, receipt, publish, apply, delete intent | fails after any store call; repeated | no changed row under the prior version; no reference left pending |
| Recovery (`recovery/*.ts`) | cursor | bounded pass, reconcile one intent | replicas share the cursor; judges a job whose state moves on | every intent is settled in the end |
| Raw retention (`retention/raw-retention-*.ts`) | retention intents | prepare, execute, sweep | irreversible deletion from evidence in four stores | deleted only when nothing can need it; a crash resumes |
| Row retention (`retention-runner.ts`) | cutoffs, markers | cutoffs, partitions, rows, children, prune | races imports and publications | children never outlive a parent; the feed keeps no orphan |
| Evaluator feed (`routes/evaluator.ts`, `evaluator-lifecycle-fence.ts`) | feed, cursors | publish, bootstrap page, live page, exact detail | three stores read in any order | every settled version reaches every consumer |
| Imports (`importers/*.ts`) | checkpoints, staged snapshots | lease, stage, materialise, publish, recover | takeover of an expired lease | the newest snapshot is published once, an expired one never |
| Import windows (`langfuse-importer.ts`, `langsmith-importer.ts`) | position, run lease | claim, list a page, stage, save | runs end early, fail or die; equal timestamps over pages | no trace before the position is missing |
| LangFuse merge (`langfuse-merge.ts`, `moved-rows.ts`) | stored row, field times | fold, merge, write, delete moved rows | batches in any order, jobs that fail halfway, rows under other days | each field as its last sender left it; one row |
| Environment registry (`environments.ts`) | registry, rebuild | observe, hide, rebuild | rebuild against live observations under a cap | what a written trace names is listed; hidden stays hidden |
| Destinations (`exporters`, `forwarders`, `webhooks`, `scheduler.ts`) | rules, positions, delivery claims | claim rule, read page, send, record | a slow run claimed twice; a crash after sending | positions never move back nor pass what was not sent |
| SDK batcher (`packages/sdk/src/batcher.ts`) | buffer, send chain | enqueue, flush, retry, close | timer, limit and shutdown interleave | every event is sent or reported, once |
| SDK wrappers (`packages/sdk/src/wrappers`) | one generation | wrap a call, patch its stream | streams read, left, split, or read twice | a generation ends once, with what was read |
| Owner account (`owner-auth.ts`) | owner, codes, sessions | issue, set up, log in, recover, log out | requests hash passwords between read and write | one owner; a code is used once; recovery ends sessions |
| Machine credentials (`machine-credentials.ts`) | row, cached resolution | create, resolve, revoke | a cache in another store than the row | a revoked credential is refused |
| Media (`routes/media.ts`, `media-assets.ts`) | object, row | upload, read | two stores, crossed uploads | a reference is served |
| Lifecycle plan (`lifecycle-plan.ts`) | none | list, count, classify | limits and a moving world | protected is never called unprotected |
| Connection pools (`evaluator-lifecycle-fence.ts`, `langfuse-field-provenance.ts`, `raw-retention-intents.ts`) | clients, advisory locks | lock, query inside, unlock | locks nest and hold clients of bounded pools | no set of jobs waits for itself |
| Query API (`queries.ts`, `routes/traces.ts`) | none | page by cursor or number | the list changes between pages | an unchanged trace is given once |

The full list, with the parts that are not modelled and why, is `components` in
`PROJECT.json`; `hazards` lists, line by line, what is hard to test, and which
property would catch it.

## The modules

### DurableBatch: what the ingest path promises

One variable per batch, `status`: *unseen*, *intended*, *materialized*,
*quarantined*, *retired*, and the set `acked` of batches whose client was told
they are safe. A status only moves forward along those arrows, and a client is
only told so when the batch is no longer unseen. An acknowledged batch can thus
never become unseen again: it ends materialised, or quarantined with a
diagnostic, or deliberately retired.

### IngestRecovery: how it keeps them

Every store call of a request, of a worker and of a reconciler is one action, so
that anything may happen between two of them.

| Variables | Code |
|---|---|
| `raw`, `pending`, `failedDiag` | the object keys `rawEventObjectKey`, `pendingIngestObjectKey`, `failedIngestObjectKey` |
| `job`, `owner`, `attempts`, `stalls` | the BullMQ job with id `batchId`; `owner` is the holder of its lock |
| `ref` | `raw_event_refs.applied` of the batch's traces, -1 when absent; the table keeps the highest version (`MergeRef`) |
| `rows`, `done` | visible domain rows; `done` is history: rows were written once |
| `published`, `staged`, `materialized` | `evaluator_trace_feed_activities`, the two timestamps of `evaluator_score_receipts`; `pruned` is history: retention deleted the publication, and the batch was not published again |
| `intent`, `lock` | `raw_retention_intents.state`, and the advisory lock of `withRawRetentionObjectLock` |
| `req`, `wpc`/`wbatch`, `rpc`/`rbatch`, `hooks` | where each request, processor and reconciler stands; failed jobs whose `worker.on("failed")` hook has not run |

* *Requests* (`ClaimReceipt` ... `EnqueueAndAck`, `RequestDies`): raw batch, intent,
  for scores the receipt, then the job. A retry of a score uses the receipt's
  batch, which is what `ReqBatch` says by mapping two requests to one batch.
* *Queue* (`RedisLoss`, `RemoveCompleted`, `LoseJobLock`, `Stalled`): what BullMQ and
  Redis do on their own. A worker that lost its job goes on; BullMQ refuses its
  completion (`WFinish`).
* *Worker* (`Take`, `WLock`, `WCheck`, ..., `WUnlock`, `WFinish`, `WFail`, `WCrash`):
  `processIngestBatch`. `TakeLock` takes the object lock for the batches of `Coordinated`, those of
  a processor and a recovery loop with `retentionExecutionEnabled`, which `index.ts:45-48` and `:82` set whatever the
  environment says. The option may be left out (`ingest.ts:367`, `recovery-loop.ts:48`): other batches go without lock and guard,
  and no executor is beside them, which is what the comment at `index.ts:45` demands. `WFail` is an exception after any step, `WCrash` the end of the
  process, which also ends the lock's session. `attempts` counts on when a job is retried beyond its last.
* *Reconciler* (`Examine`, `CLock`, ..., `CUnlock`, `CFail`): `reconcileIntent` and
  `recoverTerminalEvaluatorTraceRefs`.
* *Retention* (`Retention...`): the steps raw and row retention take as far as
  this module can see, with one guard (`Retirable`) for the evidence the
  executor gathers. `RawRetention` has their detail. `RetentionPrunesFeed` is the prune at the end of
  every row retention pass, which deletes the publication of a trace without a root: one that
  is gone, or one of which only observations were written. That is why `UnpublishedRowsBlockFeed`
  excepts a batch whose publication was `pruned`; `EvaluatorFeed` has the prune statement by
  statement, and `evaluator_blocked` what follows from it.

### RawRetention: why one guard is enough

The sweeps of the worker replicas, one object at a time, over the variables of
`IngestRecovery`. `Prepare` is `prepareRawRetentionIntents`: the pending intent, the
diagnostic, the job, the references and the visible rows are read one after the
other and without a lock, and a prepared intent remembers the classification
found. `Execute` is `sweepProject` handing an intent to `executeRawRetentionIntents`;
`TryLock` to `NoVisibleRows` is `executeOne` reading all of it again under the object
lock, `Claim` the irreversible boundary, `RecordMarkers` to `Complete` what follows it,
`Converge` the resumption after the raw object is gone. `Mishap` is a store error, the
end of the process or a veto by the policy or by PostgreSQL's dead-letter rows at
any step. `marker`, `class` and `execLock` are `raw_event_trace_retention`, the intent's
`classification` and the cross-replica execution lock; `seen` is what a sweep
remembers (the classification it found, or the state the intent had when it was read).

`ImplementsIngest` is the refinement: with prepared intents taken for none and the
sweeps' object locks for free ones, every step of the composition is a step of
`IngestRecovery`, whose `Retirable` looks at everything at once. So everything proved of
`IngestRecovery` holds next to real sweeps.

### RecoveryCursor: that every intent is looked at

The recovery loop examines at most `batchSize` intents per pass and stores how
far it came. The module has the pass of each replica, step by step: read the
cursor (`ReadCursor`, `DiscardCursor`), list what follows it (`List`), the loop
(`Reconcile`, `BudgetSpent`, `AfterCycle`, `Exhausted`) and what is stored in the end
(`SaveCursor`, `Wrap`, `NothingPending`, `PassFails`). Passes overlap, fail and lose
the cursor any number of times. Intents `1..OldKeys` are older
than any cycle; `LatestKey` is the newest of a stream without end, so that one key
stands for all intents accepted while a cycle runs: `outdated` has the cycles that
began before it, and `Gone` is a listed one that was deleted before it was read.
`owed` is history: the old intents a cycle found pending and has not examined.
Times are abstracted to that order; a replica whose clock is behind the stored
cycle discards the cursor like an invalid one.

### EvaluatorFeed: what a version of a trace means

A composition of six modules over the rows, the references, the feed, the staged
snapshots and the fence, which `TraceStore` declares with the operations on them.

* `TraceStore`: a ClickHouse table read with FINAL is a function from a row's key to its
  newest version (`Put`, `Tombstone`); `TraceVersion` is the stored activity of
  `trace_version`; `Pending` is what the raw and the import guards report; `Publish` and
  `DeleteFeedEntries` are the two transactions on the feed; `TakeShared`,
  `DropShared`, `TakeExclusive` the fence. A row remembers who wrote it (`by`), so that
  two trees can be told apart.
* `TraceIngest`: the inside of the ingest processor, a finer view of what `IngestRecovery`
  calls rows, publication and references: stale rows are left out before the fence
  is taken (`ResolveRows`), then `MarkPending`, `WriteTable` for the concurrent inserts,
  `PublishBatch`, `ApplyRefs`. A failed attempt runs again (`FailJob`) beside its failure
  hook (`SettlePublished`).
* `TraceRetention`: one pass with the exclusive side: the cutoff (`BeginPass`), the markers,
  roots before observations by partition or row, the children of marked traces, and the
  prune in two statements (`ListOrphans`, `PruneFeed`).
* `ImportRuns`: `Claim` to `FinishRun` of each process over the checkpoint's lease; `Restage` is
  the upsert of `stageEvaluatorImportTraces`, `BeginSnapshot` to `PublishImport`
  `materializeEvaluatorImportSnapshot`, with the paths of an expired trace
  (`TombstoneExpired`, `Discard`) and of a score-only change (`PublishScores`). Every statement
  that names the run token checks it (`Holds`, `StillOurs`) and throws otherwise.
* `EvaluatorReaders`: each request step by step, for every store read in the order the
  code awaits it and in any order where it does not. `ListSettled` to `RespondScan` is a
  bootstrap page, `ListLive` to `ReadTraceAgain` a live page with its second look at what
  seems removed, `AskDetail` to `Respond` the seqlock of the exact-version read.
* `EvaluatorFeed` puts them together, and keeps `fixed`: the tree that was stored when a
  version could first be served. `VersionNamesOneTree` and `ReadsWhole` compare with it.

`Kept` excludes a trace past the retention cutoff: what is being removed is gone tree by
tree, and the violation `evaluator_torn` shows that a reader may see it. `ReadsWhole` promises
nothing of a version that never was servable. Without that condition TLC finds an answer that
is not whole: a trace without a publication is published and pruned again between the two
publication reads of one request, both of which then find none. Nobody was ever told of the
version asked for, so the property excludes it and the hazard is listed.

Operators marked *seeded bug* are wrong versions of an action, each a plausible
mistake in the code it stands for; they are not part of the specification and
show that each property can fail.

### RecordMerge: what a record is after its batches

One record of ClickHouse, keyed by day, and the ingest jobs of its batches. A batch is its
number, which is also its `receivedAt` and row version, and the value of a field is the number of
the batch that sent it. `Incoming` folds a batch (`foldLangfuseRows`), `StoredSentAt` and
`Merged` are `mergeByRecency` (`FieldByField`) with the cost rules of `mergeObservationByRecency` (`CostRules`), `Enriched` the
derived cost; `Merge` to `RecordTimes` the steps of a job under the merge locks, `Resolve` the
decision of `resolveMovedRows` for whole rows, `WriteRow` and `DeleteMoved` what both do
then, `Fail` a job that stops between any two of them, `Purge` the retention of field times.
`past` is history: jobs that overlapped, field times that were implied, purges.
`LatestOfEachField` is the reference definition: for each field, the value the last
batch that sent it gave it, and a cost derived only when no later one was sent.

### SettledFeed and Destinations: exports, OTLP forwarding, webhooks

`SettledFeed` is the trace feed from a distance: traces are marked pending, written, moved
to its end, removed. `Destinations` adds one rule over it, which replicas claim
when it is due (`ClaimRule`), so that a slow run and the next overlap. `ReadPage` to
`LookAgain` is `readSettledTraceFeed` with its store reads apart; `PassEntry`, `BeginDelivery`
to `MarkFailed` are a webhook run with its delivery claims, `LoadObservations` and `ForwardEntry`
an OTLP run, `StageEntry` to `Upload` the two passes of an export, `RecordRun` the
compare-and-set of the position. `Mode`, `ScannerStatus` and `Release` are the handoff from
the deliveries of before migration 0006. `dest` and `history` are what the destination saw.

`PassedIsSent` says what the positions promise, and excepts three things the code does not promise:
overlapped export runs may leave an older file, with older scores, in place of a newer one; overlapped
OTLP runs may send an older revision after a newer one; an entry an endpoint rejected
for good counts as passed. `SentOnce` excepts a delivery whose claim was lost without an outcome (the
worker died, or its claim went stale).

### EventBatcher and Instrumentation: the SDK

JavaScript runs what is between two awaits without interruption, so the synchronous pieces of the
batcher are functions of its queue (`Pushed`, `ClaimBuffer`, `Report`) and the actions are what
happens between them: a call of the application, the timer, an answer or failure of the request, the
end of a wait or of a timeout. The error hook may record an event of its own within any
piece (`HookRecords`). Event n is the n-th version of one trace and carries what the versions before
it set, so that `server.last` tells whether a retry put an older version in place of a newer.

`Instrumentation` is one wrapped `create()` call: what the provider returns (`Shapes`), the iterators
patched into it (`Layers`), and what the caller does with it: reads on, leaves, splits it,
or starts over.

### EnvironmentRegistry: a bounded list beside its source

Writers store a trace and observe its environment afterwards; the rebuild scans the traces in chunks
under a lease, and swaps. `Observe` has the lock-free refresh and the locked admission of a new
name, `SetHidden` the operator, `ClaimRebuild` to `Swap` the rebuild with its checkpoint.
`unobserved` has the traces whose writers are not done.

### ImportWindows: how an import walks a provider

The page loop of both importers: `ClaimWindow`, `FetchWindow`, `StageWindow`, `NextWindow` or
`Progress`, `StoreWindow`, `FinishWindow`. LangFuse walks a fixed window by page number, LangSmith
by a cursor that is not stored, with the anchor moving to what was seen. The provider is
`upstream`, whose traces appear at any time, in its order after those of the same timestamp. A
staged page has landed: `ImportRuns` and its recovery are about what happens to it then. A
trace that appears with a timestamp before the stored anchor is never listed again and is
excluded (`Appear`), as `spec/langfuse-importer-v1.md` says under *Known limits*.

### OwnerAccount, MachineCredentials, MediaStore, LifecyclePlan, TracePages

* `OwnerAccount`: a form is matched with an open code (`Match`), the password is hashed, and the
  claim reads the code again under the advisory lock (`ClaimSetup`, `ClaimRecovery`). A login
  verified before a recovery gets its session after it: `RecoveryRevokes` speaks of the sessions
  there were. `auditLog` is the program's own.
* `MachineCredentials`: a resolution reads the cache, then the row, then stores with SET NX; a revocation
  holds the row's lock, writes the sentinel and commits. `SentinelLapses` assumes that no
  request spends the sentinel's minute between its read and its store, and no revocation
  between sentinel and commit: nothing in the code bounds either.
* `MediaStore`: object first, row second, without a lock. First uploads that cross may leave the
  object with the content type of the one that stored last and the row with that of the one that
  inserted first (`crossed`).
* `LifecyclePlan`: limited listings of three prefixes and a count, beside batches that are applied,
  quarantined, acknowledged and swept. A batch a listing did not reach is not passed for
  unprotected: its coverage flag is false. Batches are given no second pending marker: that a retried score
  request stores the marker of an indexed batch again while a plan is being made is left out.
* `TracePages`: a walk by the cursor (timestamp, id) or by page numbers, over a list that changes.
  The rows of a numbered page and the count of the traces are two queries sent at once
  (`ReadRows`, `CountRows`), and the list may change between them.

### ConnectionPools: who may wait for whom

The advisory locks of a worker process, each in a session and so on a client of a pool. `Steps` is
what each part of the process takes, in order and nested: an ingest job the object lock (a client of
the main pool), the merge locks (of their own pool) and the shared fence (of its own); recovery an
object lock; the sweep the execution lock and an object lock, both tried and not waited for; row
retention the exclusive fence; an import the shared one. `Enter`, `Grant`, `TryFails`
and `Leave` walk along such a plan, up and down; inside any callback `Ask` to
`EndQuery` is a query on the main pool, or the transaction of a publication with the project's feed
lock. `NobodyWaitsForever` says that no set of these parts waits only for what its own members
hold. It holds because the merge locks and the fence have pools of their own, the buckets are sorted,
and the main pool has a client more than the object and execution locks can hold (`PoolAssumption`): the
worker leaves pg's default of 10 clients beside 4 jobs, 1 of recovery and 2 of the sweep. Nothing in the code
ties the two numbers; with 7 jobs and 10 clients the locks could hold every client. Whether PostgreSQL's own
connection limit allows three pools of 10 per replica is a matter of deployment.

### IngestRecoveryProofs, RawRetentionProofs, EvaluatorProofs, DestinationProofs, WorkerProofs, ApiProofs, SdkProofs, RecordProofs

The inductive invariants and the theorems; see *Proofs*.

## The runs

| Run | Instance | Shows |
|---|---|---|
| `ingest_paths` | one trace batch under the object lock with one request, 2 workers, 2 reconcilers, 2 attempts, 1 stall, 3 faults of any kind; or one trace batch without the lock, 2 workers and 1 fault, or one score batch with 2 requests, one worker at a time and 2 faults, both with one reconciler at a time | queued or intended work finds its raw batch; unpublished rows whose publication was not pruned are behind a pending reference; a retired batch stays gone; `DurableBatch` is implemented |
| `raw_retention` | one trace batch, 1 attempt, 1 worker, 1 reconciler, 2 sweeps, 2 faults of any kind, 1 mishap | an object is gone only with its tombstones; `IngestRecovery` is implemented |
| `retention_live` | one trace batch, 2 workers, 1 reconciler, 1 sweep, 2 errors or crashes, 2 mishaps, fair | every intent drains, every pending reference is settled, what crossed the boundary is completed |
| `evaluator_ingest` | 2 traces (stored before the feed when a scan looks), of which one is written by 2 batches and expires, 1 observation, a clock of 2, page size 1, 2 mishaps (failures and partition passes; 1 under a scan), one reader of each kind | a version names one tree; exact reads are whole; no cursor passes a version unseen; the prune takes only what is gone |
| `evaluator_import` | 1 trace with 2 trees and 2 score sets, 2 processes, a clock of 2, 3 mishaps of any kinds, repeated or not: failure, edit, lease running out, row-level pass | nothing of an older tree survives; whatever is stored and at rest was announced as it is stored |
| `components` | a record of 3 batches with 1 failure and 1 purge; a rule over 2 traces with 2 changes, 2 workers, 1 trouble, pages of 1 or 2; 2 browsers, 2 passwords, 3 codes, 2 sessions; 2 requests and 2 revocations of a credential; 3 uploads and a viewer; a plan of 3 batches of 2 projects with 1 internal key and a limit of 2; a walk over 4 traces of 2 timestamps with 2 changes | each field as its last sender left it, in one row; nothing passed that was not sent, nothing sent twice, no position back; codes used once; revoked is refused; references are served; the plan holds; pages give everything once |
| `services` | 2 old intents and a stream of new ones, budget 1, 2 replicas whose passes overlap, fail and lose the cursor at will; 3 events in batches of 2, a queue of 2, 1 retry, 1 given-up request at a time on its way; 3 chunks of 2 parts; 2 names under a cap of 1, 2 slots, 1 rebuild, 1 lapse; 3 traces of 2 timestamps in pages of 1, runs of 2 pages, 2 pullers, 1 setback; 2 jobs with recovery and the sweep, or with row retention and an import, on pools of 6; fair | the cursor skips nothing, and starves nothing but for the two named exceptions; every event once; a generation once; the registry lists what was written; an import passes nothing; nobody waits for what only the waiting hold; everything comes to rest |
| `evaluator_blocked` | as `evaluator_ingest`, nothing expires, no failure, live reader | violates `NewerIsBeingPublished` |
| `evaluator_torn` | as `evaluator_import`, 1 process, partition pass | violates `ReadsComplete` |
| `ingest_score_lost` | one score batch, 2 requests, 1 worker, 1 reconciler | violates `StagedScoreRetryable` |
| `ingest_late_worker` | one trace batch, 2 workers, 1 attempt, 3 faults of any kind | violates `NoStrandedTrace` |
| `merge_order` | a create and an update of one record, one failure | violates `OrderDoesNotMatter` |

`components` and `services` check components that share no state side by side: a variable
`focus` says which one a behaviour is of, and the others stand still, so that the run has the
sum of their states and not the product. `ingest_paths` chooses the batch of a behaviour the same way.

**Bounds.** Batches only meet through BullMQ's concurrency and the locks, and no
lock or job spans two batches, so one batch exercises every interleaving on its
own state; two workers and two reconcilers are what it takes for a stale actor
to meet its successor. `MaxAttempts` 2 has a first, a last and (through
`job.retry`) a beyond-last attempt; `MaxStalls` 1 has a tolerated and a fatal
stall. `MaxFaults` bounds injected faults only; two faults allow a fault during
the recovery from another one, and the third lets a job reach its last attempt
with a fault to spare. A batch without the lock, and a score, where more steps interleave, have
one reconciler at a time, the first one fault, a score two faults and one worker at a time. Two sweeps are what the execution lock and the unlocked
preparation need to meet; `MaxMishaps` 1 interrupts a sweep anywhere, and 2, in the
liveness run, interrupts the resumption as well. In `EvaluatorFeed`, writers of different traces
share only the fence, the watermark and the page, so one written trace and a still one are
enough for page order, and two batches or two trees for an overwrite. The clock has a
before and an after of the cutoff (`ExpiresAt`); `MaxMishaps` counts mishaps, each of any kind in `MishapKinds`: three are enough for a
tree to be staged, edited and staged again before and after it was announced, by a run that loses its lease; a scan, which begins with older traces too, is followed through one less
(`FeedNext`). The lease
may run out at every step, within the fence too, where it meets the second process's takeover.
`Quiet` 0 is the hardest case: a longer quiet period only delays entries. Readers write nothing,
so a behaviour follows one of them. `PrunesOnlyGone` and `NothingSkipped` are not asked
of imports: the batches of `evaluator_ingest` reach the same prune and the same pages. Batches of
one trace are assumed to be received in different milliseconds (`DistinctReceipts`): equal ones
make the winner of two rows a matter of insertion order. Deadlock is not checked: a settled system is at
rest.

In `components`, three batches are what a stored row, a failed writer and a later one need; two
workers overlap once, and a page of one or two entries ends before or after the run's budgets; two
old codes let a claim meet a newer code and another claim; a second revocation waits for the first one's
lock; a third upload meets two that crossed; four traces in pages of two put three of one timestamp around
a page's end; a limit of two covers an internal key and one marker, or one project's raw batches and nothing of
the next. In `services`, a queue of two is full while its only batch is under way, and the third event
is refused; a cap of one makes every second name overflow; pages of one split two traces of one timestamp,
and runs of two pages end between them; two jobs, about one object or two, have the same records in opposite orders, and
pools of six are the smallest that `PoolAssumption` allows for them (with five, TLC finds the jobs, recovery and the
sweep waiting for a client to query with). `MaxTroubles`, `MaxLapses`, `MaxLosses`, `MaxSetbacks`,
`MaxFailures` are each one: the second mishap of these components starts from a state the first one
reaches anyway, a lost claim or a run that ended.

**Fairness** (`Fairness`). A processor, the queue and the recovery loop go on:
weak fairness for a worker's and a reconciler's own steps, for BullMQ handing
out a waiting job and for its stalled-job check. Strong fairness for taking the
object lock, which PostgreSQL grants in queue order though others hold it in
between, and for `Examine`: the recovery loop passes over the whole pending
prefix again and again, which is `NoStarvation` of `RecoveryCursor`: `retention_live` is about the
behaviours in which neither of its exceptions goes on for ever. No fairness is assumed for requests, which may be
abandoned, for faults, or for retention.

In `RawRetention` an execution goes on, and every interval of the sweep starts with
the intents that are executing, in rotation (strong fairness of `Execute`, since
another replica may hold the execution lock); the fairness of the ingest path is
added because the executor's try-lock gives up while a processor holds the object.
Nothing makes a sweep prepare, and a prepared intent may be vetoed for ever: its
classification is as old as the preparation.

In `RecoveryCursor`, passes go on and are started again (weak fairness, the timer
of `recovery-loop.ts`), and nothing else is assumed. `NoStarvation` says what then holds: an intent that stays is
examined again and again, although passes overlap, unless one of two things never stops. Either passes fail
(`Interrupted`). Or a new intent vanishes between its listing and its GET (`Vanished`): it counts as
examined and moves the cursor, where an intent that is read would end the cycle. Without the
second exception TLC finds a schedule of one replica in which an old intent is never examined, which contradicts the comment at
`pending-ingest-reconciler.ts:60`, "continuous new ingestion cannot postpone a wrap forever": it can, as
long as the workers win that race at every pass. The property
states the exceptions, so that the disagreement is in its text. The safety
property `NothingSkipped` has no exception. `services` asks a little less of the timer
than the module's own `Spec`: that some replica's pass goes on, not each one's.

In `services` the component that runs makes progress (`ServicesProgress`, weak fairness): a request of the
batcher is begun, its waits and its timeout end and a cancelled fetch rejects (`BatcherProgress`), because
timers fire; a claimed rebuild goes on and its lease is taken over (`EnvProgress`), because the
worker asks at every tick; an import is claimed and pulled (`WindowsProgress`), because the scheduler
does; nothing is asked of the pools but safety. An answer of the server is never assumed: `close()` returns without one. `components` is checked
for safety only.

`EvaluatorFeed` is checked for safety only and assumes no fairness.

**What the five violations mean.** (1) A score request stages its receipt without
the object lock. The reconciler may have read the receipt, unstaged, just before
(`ingest.ts:102`), and then quarantines the batch and deletes its intent; the
request is acknowledged, and since the receipt is staged no later retry stores
the batch again. It takes one slow request and a job that failed for good, both
of which the comment at `ingest.ts:299` has in mind. (2) A worker whose job was
lost (Redis) or stalled (a pause) waits for the object lock while the reconciler
finds the job failed and the references absent, and quarantines. The worker then
writes its pending reference; if it dies before applying it, no intent and no
job is left, and the project's evaluator feed stops at that trace. `FeedUnblocks` of
`retention_live`, where workers never outlive their claim on the job, shows that it takes such a worker. (3) An
observation may be stored before its trace. Its publication, whose source activity is the
time it was received, is pruned by any retention pass in between, for there is no root. The root's
batch, received earlier and processed later (a retry, a recovery), then publishes with the
earlier time, while the stored activity is the later one. The live feed and the exports
take that for a publication in progress and wait, until something else is written to that trace.
(4) An imported trace past the cutoff, whose partition still stands, has a new score. It is staged
with `publish_required` false, which no reader's guard reports; materializing it finds the cutoff
and tombstones root and observations in two statements. An exact read between the two is answered
with the root alone. (5) An update of a LangFuse record is processed before its create, which is
supposed not to matter: its row is written, and the job fails before the times of its fields are
recorded. The create is merged next and finds no times: every field of the row, its placeholder start time
included, is then taken for sent by the later batch, and the create's own start time is dropped. The
retry of the update records times, and the placeholder stays. `MergedAsReceived` is the same promise
without this case (`past.implied`).

## Proofs

`IngestRecoveryProofs.tla` proves, for every set of batches, requests, workers
and reconcilers, with the object lock or without it, and every bound:

* `TypeCorrect`: `Spec => []TypeOK`;
* `RawBehindWork`: `Spec => []WorkHasRaw`;
* `UnpublishedRowsBlock`: `Spec => []UnpublishedRowsBlockFeed`;
* `NoResurrection`: `Spec => []RetiredStaysGone`;
* `Refinement`: `Spec => NeverForgotten`, the refinement of `DurableBatch`.

They rest on the assumptions `BatchAssumption` (a request's batch is a batch;
`Nobody` is none of them; workers and reconcilers differ) and `BoundAssumption`,
which TLC evaluates in every run. None of the invariants is inductive: that a retired batch
stays gone depends on who holds the lock while a worker stands between its check
and its writes. `IInv` therefore adds what the code relies on silently: who is
inside the critical section holds the lock, so at most one is; a worker beyond
its check knows that the retention state was open and that the raw batch was
there, and retention moves neither while the lock is held; a batch without the lock has no retention intent
at all; a reconciler about to
quarantine has seen the job failed; a request beyond its first store call has
stored the raw batch. `Inductive` is proved by the lemmas `RequestKeeps`,
`BatchKeeps`, `WorkerKeeps` and `ReconKeeps`, one case per action, and
`StepKeeps` puts them together. The theorems then follow from `IInv`, and
`Refinement` shows that each step of the four kinds maps to a step of
`DurableBatch` or changes neither of its variables.

`WorkerProofs.tla` proves `CursorSkipsNothing`, `Spec => []NothingSkipped` of `RecoveryCursor`, for
every number of old intents, replicas, failures and overlapping passes and every budget, from
`CursorAssumption`. The property alone is not inductive: that examining the
smallest listed key leaves everything owed beyond the cursor needs to know that what is
owed is listed. `OwedInv` says so: what a cycle owes is still pending, and once
the pass has listed, is on its page.

It also proves `NoDeadlock`, `PoolsSpec => []NobodyWaitsForever`, and `PoolsTypeCorrect`, for every cast of
jobs, buckets and other parts and any sizes of the pools, from `PoolAssumption` (a pool has more clients than there are
jobs, and three more). `PoolInv` says that everybody keeps to a plan, and that no pool lends more than it
has. The rest is an argument about a set of actors that wait only for one another. A pool is never full of waiters,
so they wait for locks. The holders of a fence have nothing left to take, and those that wait for an object hold
nothing yet, or hold it as tries that do not wait. That leaves merge buckets, which each job takes in ascending order: whoever
waits for the greatest bucket waited for would wait for one that waits for a greater. Induction over finite sets is
beyond the provers; `SmallestMember` (a family of subsets of a finite set has a smallest) stands in for it, in `GreatestOf` and
in `AscendingIs`, which shows that the sorted list of buckets exists.

And it proves `ImportSkipsNothing`, `WindowsSpec => []NothingPassed`, for any runs, pages, budgets and traces, from
`WindowAssumption`. Ranks shift when the window moves, so `WindowInv` relates three positions to what has landed: the stored one,
the one of each run, and the newest trace a run has seen, where the next window will begin. `Behind` says that
nothing before a position is missing, `Reached` that the position is not beyond the traces there are, which is why a
new trace, last of all, cannot slip in before it. `IsPage` is what a run may rely on after the answer has grown old:
the page is a first part of what follows the position, and full unless it was the last.

Of `EnvironmentRegistry` it proves `SettledAreListed`, `EnvSpec => []ListedWithItsSpan`, and `HiddenStaysHidden`,
`EnvSpec => HiddenKept`, for any replicas, names, traces, cap and page of the scan, from `RegistryAssumption`. `EnvInv` says
what a rebuild relies on while rows go on being written and observed. `Scanned`: of what is settled from the cursor on, the name
has been found, or there are too many, or the name was observed since the rebuild began, which the list remembers (`SeenSince`).
A checkpoint hands that on to whichever replica claims the rebuild next, and `RebuildsNumbered` keeps a chunk of an earlier rebuild
from storing over a later one. Under the lock nobody observes, so the list the swap read is still the list (`LockedList`),
and statistics read under it have the spans of all candidates and of all names seen since (`StatsOf`).

`EvaluatorProofs.tla` proves `FenceHolds` and `PrunesWhatIsGone`, `Spec => PrunesOnlyGone`, for every
set of traces, batches, processes and readers and every bound on mishaps, from `StoreAssumption` (no batch is a process, a
batch's rows are rows, traces and observations are finitely many). The prune lists what is gone in one statement and deletes in another; that nothing has come
back in between is the fence's doing. `FenceExcludes` says so: retention is at work exactly while it holds the exclusive
side, and then nobody holds the shared side; a job that writes or has just published, and an import
run inside a snapshot, hold it. `ListedAreGone` is the fact that needs it: what was listed is gone until the prune.
The lemmas `IngestFence`, `RetentionFence`, `ImportFence` and `ReadersWriteNothing` are the four parts of `Next`.

Of the imports it proves `NoChangeIsSilent`, `Spec => []NoSilentChange`, for every set of traces, trees and
scores, any number of processes, edits and other mishaps, from `StoreAssumption` and `ImportAssumption`. The property says of every imported trace
that is kept and that nobody is publishing any more, that it was announced, and as it is stored. A change of
scores alone leaves the feed as it is, so staging it over a tree that was never published would hide that tree for
good. What prevents it is spread over two functions: a run completes every snapshot that is pending before it
fetches a page, and the lease lets no other run stage in between. `LeaseCovers` states it: whoever
holds the lease has every pending snapshot on its queue or in its hands, and nothing is pending by the time it
stages. A run that lost its lease goes on, and must do no harm: `SnapshotKnown` says that what it took is the staged
snapshot or an older generation of it, and `Announced` relates what was announced last to what is staged.
Each step of a run is a lemma; `Grows`, `Covers` and `Moved` are what a step owes to the other runs.
`LeastOf` (a nonempty set of numbers has a least) is proved from the well-founded order of strict subsets.

Of the feed and its readers it proves `VersionsNameOneTree`, `Spec => []VersionNamesOneTree`, `ReadsAreWhole`,
`Spec => []ReadsWhole`, `NothingIsSkipped`, `Spec => []NothingSkipped`, and `LegacyIsOffered`, `Spec => []LegacyOffered`, under `OnlyBatches`, which says what the run `evaluator_ingest` chooses: no process imports, two batches
of one trace have different times, and no observation expires before its trace. Traces, batches, failures, retention
passes and readers are any. `IngestInv` is about the writers: a retry of a batch whose rows a later one has
replaced must write nothing, so a row is `Done` for a batch once one at least as new is stored and live, and whoever has published, or has
marked its reference applied, has all its rows done (`AllDone`). Kept traces only gain rows, which `AllChange` states as the
contract of every step: rows of a kept trace change only while a batch of it is `InFlight`, in flight it stays until the feed has a version
above the old watermark, and the feed loses a trace only when it is gone. From there `FixedInv` follows: the tree that was first
servable as a version is the present one as long as the version is, or a batch is in flight. `DetailInv` is the reader's part:
between its two looks at the guards, what it has read of the tree is the tree, or its second look will refuse (`GuardedAgain`).
`FollowInv` is the consumer's. A page is a first part of what lies behind the cursor, in order (`PageOfIs`, by counting what precedes an
entry), and publications only move beyond the watermark, so between the cursor and an entry of the page nothing can appear that is not on the
page (`NoneBetween`). What looks removed is passed over because it was read while no batch was in flight and none is now (`AgainKnown`);
if it is to be served again, it is under a later version (`LivePassed`). The scan is about traces that are `Old`: stored before the feed, not
published and not being written since, whose rows and position are therefore still those the page was cut from (`ScanPage`).

Of the imports it also proves `ImportsAreExact`, `Spec => []ImportedTreeExact`, under `OnlyImports`, which is what the run
`evaluator_import` chooses: no batches, no traces older than the feed, and no observation that expires before its trace. Replacing a tree takes three
statements over two tables, and a run that lost its lease goes on with its own snapshot beside the one that took over. `ExactInv` says why that does
no harm. Every statement writes with the generation of its snapshot and the newest row of a key wins, so what a run removed or wrote stays
removed or written for its generation and all later ones (`ReplacedSoFar`), and once a later snapshot is staged, or this one is published,
the rest of a late run is without effect (`ReplacedAlready`). A row with the generation of the staged snapshot is live only if it is of its tree
(`RowKnown`); so when the run that completes the snapshot publishes it, what is live is the tree, and stays so (`Exact`). It rests on the assumption
`TreeObs \in [Trees -> SUBSET Obs]` that a tree is a set of observations.

Last it proves the types, `EvaluatorTypesHold`, `Spec => []TypeOK`, for all writers and readers together and every value of the constants.
`TypeOK` also says that the shared side of the fence is held by exactly the batches and runs between taking and giving it back, which rests
on `FenceInv`, and what a run writes is of its type because `ImportInv` knows its snapshot, late or not. `TypeInv` adds two
facts: the generation of a snapshot and the one a run is about to stage are positive, so there is a version just before each (`Times`),
and a request that walks its page has an entry before it (`Requests`).

`RawRetentionProofs.tla` proves `RawGoneWithEvidence`, `RetentionSpec => []GoneWithEvidence`, and `SweepTypesHold`, for
every set of batches, requests, workers, reconcilers and sweeps and every bound on faults and mishaps, from the
assumptions of `IngestRecovery` and `SweepAssumption` (a sweep is none of the others). `EvidenceInv` adds who
is inside an object's lock, that only the holder of the execution lock moves an intent it has read
(`SweepKnows`: at the boundary the rows are gone and the object is there; behind it, marker, tombstones
and diagnostic are settled in that order), that ingest beyond its own check has seen the object open
(`IngestKnows`), and that behind the boundary there are no rows (`IntentKnows`). Most checks of a sweep can only
veto; `VetoEvidence` treats them at once, and `LeaveEvidence` every way to give an object up.

`ApiProofs.tla` proves, of `MachineCredentials`, `CredTypeCorrect` and `RevocationImmediate`,
`CredSpec => []RevokedIsRefused`, for every number of requests, revocations and failures, from
`CredAssumption` (the mark of a free lock is no revocation). The strengthening is where the code's
argument hides: `LockInv` (the row is live until the one that holds its lock commits), and
`CacheInv`, that after a commit the cache has the sentinel, or nothing while nobody who read the live
row is about to store, or the credential has expired as well. The last case is real: a request that finds
an expired resolution deletes whatever is cached by then, the sentinel too, and only the
expiry keeps what is stored next from being accepted. `SentinelLapses` carries the module's named bound
into the theorem.

Of `MediaStore` it proves `MediaTypeCorrect` and `UploadsShareOneAsset`, `MediaSpec => []OneAsset`, for every
number of uploads, viewers and types, from `MediaAssumption` ("none" is no upload and no type). `ObjectFirst` says
that the object comes before the row and the row before any reference, `OneStores` that without crossed
first uploads the one that stores finds no row, and inserts one for the object it stored.

Of `OwnerAccount` it proves `OneOwnerOneUse`, `OwnerSpec => []CodesRedeemedOnce`, for any number of browsers, codes and
sessions: each request stands at a point of its transaction at which it has seen what it checks, and the row lock or the unique
index keeps the others from changing it in between. Of `LifecyclePlan` it proves `PlanStaysTrue`,
`PlanSpec => []PlanHolds`, for any finite sets of batches, projects and bookkeeping keys (`PlanAssumption`). Listings are
read while workers and sweeps go on. They only ever take away from what a listing must find, and `SoFar`, that a
listing has found whatever is still there up to where it is, survives that. That a count stays a lower bound
needs that nothing indexed when the plan began is indexed anew: it had no marker then, and no marker comes back.

Of `TracePages` it proves `EachGivenOnce`, `PagesSpec => []GivenOnce`, for any traces and timestamps and any page size, from
`PagesAssumption`. By the cursor, whatever the reader has passed was given (`PassedOnce`), since a page is a first part of
what follows (`PageDown`, from `FirstPlaces` about the places in any order of a finite set). By page numbers,
the places read so far were given and the count is beyond the place of whatever stays (`PlacedOnce`); an edit at
the end of the list moves no other trace (`EditKeeps`), which is where `Stable` is needed.

`SdkProofs.tla` proves `EachCallRecordedOnce`, `SdkSpec => []RecordedOnce`, for streams of any length, and
of `EventBatcher` `EventsKeptOnce` (`EachEventOnce`) and `VersionsMoveForward` (`LaterVersionStays`), for any
number of events, any batch size and limit, with an error hook that records or not. Between two awaits the batcher's code runs through,
so each step is a function of the queue, and the lemmas are about these functions: each keeps
`QueueInv` (the queued, the dropped and the sent events are in order, each event is in one place, and what
counts against the limit is what waits), and each `Keeps` what a caller of flush or close waits for. `CallsOk` and
`Covered` relate the calls that wait to the events they cover; `LastOk` relates the version the server has to
what is yet to arrive. A request that the client gave up may still reach the server behind its retry or a later batch
(`ArrivesLate`); that step alone may replace a later version, for nothing in the SDK can call the request back.

`RawRetentionProofs.tla` proves further `SweepsImplementRetention`, `RetentionSpec => ImplementsIngest`: with the sweeps in
detail, every step maps to a step of `IngestRecovery` or changes nothing that it sees. Two facts carry it beyond
`EvidenceInv`: what the abstract step requires of the intent, the execution lock keeps as the sweep read it, and
`ReadsInv` says which reads of a sweep are still true when it writes. With it, the theorems about
`IngestRecovery` hold of the sweeps' behaviours (`SweepsForgetNothing`, `SweepsLeaveWorkItsRaw`, `ClaimedStaysGone`).

`RecordProofs.tla` proves `MergedAsTheyCame`, `MergeSpec => []MergedAsReceived`, and `OneRowIsLeft`,
`MergeSpec => []OneRow`, for any number of batches, any days and contents and any number of failures and purges,
from `MergeAssumption` and `ContentAssumption`. `MergedRows` is about the days of a merged record: the lock keeps a merge
alone from its read to its last write, and some visible row is none older than all the other rows and tombstones
(`Freshest`). A merge writes at that version or later, so its row takes its place even where a tombstone lies.
`MergedFields` is about its fields. The obvious invariant, that the row holds what the done batches sent last,
is false: an attempt that fails after its write leaves a row with fields of a batch that is not done,
and the times recorded do not know of it. `Fine` says what is true then, that no done batch sent the field
later, and `TimesOk` that the times tell of every batch to come whether it is newer than the done ones; the retry
finds its own values and takes them again. When all are done the two leave one value, the last. A cost is either sent or
derived from the usage of the same row, which `FineCost` carries through the cost rules (`CostRulesGive`, case by
case). `WholeRows` follows the newest batch of a whole row: once written, its row outranks what the others
write, and only an overlapped job can leave another beside it.

`DestinationProofs.tla` proves `EachVersionSentOnce`, `DestSpec => []SentOnce`, and `PositionsMoveForward`,
`DestSpec => PositionForward`, for every set of traces, workers and kinds of rule, any pages and budgets and any number of
troubles, from `SettledFeedAssumption` and `DestinationAssumption`. `GoodRun` says that what a run has of the feed lies
after its position and in order, so that its position never falls behind the one it started from, which is all
the stored position is compared with. `ClaimsInv` is about the deliveries. A claim is held by the run at its place in
`deliver`, or by the scanner; until it is lost, it is held once and its delivery is pending. From there the
outcome of a claim is known to be its holder's: what was answered is marked delivered, or its holder is about
to. In the handoff window a version has two keys, and a run may send it only while it holds the activity, or the activity is
covered, or, after the window, when the scanner never answered it (`MaySend`, `ScannerKept`). The lemmas `TakeClaims`,
`StayClaims`, `MarkClaims`, `AnsweredClaims` and `AsideClaims` are the five things a step of a run can do to the claims.

On top of both it proves `PassedWasSent`, `DestSpec => []PassedIsSent`, assuming that a page holds at least one
entry and that there are finitely many traces (`SettledFeedAssumption`). `SentInv` adds, for each run, what
its position stands for (`RunSent`: every trace at rest up to it was sent, or is in the hands of the run) and what it
still knows of the feed (`RunKnows`). The second is where the order of reads matters. A trace whose row changes moves beyond every
position given out (`FeedOk`, `Moves`), so what a run read of an entry, of a page, of the sets of pending
and deleted traces or of the rows it loaded (`Known`, `EntriesFull`, `PageFull`, `Looked`, `Loaded`) is
either still so, or of a trace that is no longer at rest before the position. A full page has nothing missing
between its entries, for `readSettledTraceFeed` reads in the order of the positions, and a page with room is the end of what is
settled. `StagedFine` and `StagedFull` say this of what an export has put aside for its file, `ScoresListed` of
the scores it adds. `Alone` carries the two excepted overlaps: without one, nobody else can put an older file or revision in place of
what the run sent.

Only model-checked: what the invariants of the feed and the readers of `EvaluatorFeed` say of projects
with pull imports; `ComponentsTypeOK` and `ServicesTypeOK` as wholes (each module's part is proved where a theorem needs it); `NoIntentStarves`, `NoStrandedTrace` (its proof needs that a worker never
outlives its claim on the job, a restriction on `FaultKinds`), and liveness under
fairness, which the prover does not support.

## Not modelled

An executor of raw retention beside a processor created without `retentionExecutionEnabled`, which the worker never creates. Contents of batches (but for the merge of a record), the conversions of the mappers, wording of
responses, metrics, rate limits, capabilities, the SSRF guard, file formats, aggregates, the observation tree
of a trace, and the web application, which is a view of the API. Two traces of one batch share the fate
of the batch in `IngestRecovery`: refs, rows and publication are written for all of them by one call each. In
the modules of `EvaluatorFeed`, scores appear only as the content of an import, an import is one page of one
source, and the shorter retention of a project is all or nothing. There, the
maximum of a partition and its drop are one step, and the code's day of grace is not modelled. Nor
are observations that expire before their trace (`StrayObservations` FALSE in the runs): with
them and row-level deletion, TLC finds that an observation tombstoned at retention's own
clock stays hidden when a later import stores the same tree again. `RecordMerge` has one record, which is
either merged or written whole, never both; where the ClickHouse server's time zone is not UTC, moved rows
are left alone (`utc`) and nothing is promised of them. Edits and deletion of rules,
sources and projects while they run are left out. An upload's retry with another content type, and
two owners' hosts, do not occur. `LifecyclePlan` leaves out what a limit of the pending listing
does to the report's text: such a project is marked incomplete. The advisory
lock is assumed to last as long as its session and the session as long as its
holder; a session that PostgreSQL ends early is not detected by the code. `ConnectionPools` leaves out row locks and
the parts that hold no lock, which give a client back after each query.

## Plan

Done: the ingest path and its proofs, raw retention, the recovery cursor, the evaluator feed with ingest,
imports, retention and readers, the merge of records, the destinations, the SDK, the environment registry,
the import windows, the connection pools, and the account, credential, media, plan and paging modules. Next, in this order:

1. Proofs: the feed's invariants where pull imports write too; `NoStrandedTrace` without late workers.
2. The observation tree and the aggregates of the query API as operators against reference definitions.
3. Edits of rules and sources under a running claim.
