--------------------------- MODULE IngestRecovery ---------------------------
(***************************************************************************)
(* The durable ingest path: an API request stores the raw batch and a      *)
(* pending intent in object storage before it enqueues a BullMQ job; a     *)
(* worker materialises the batch and deletes the intent last; a reconciler *)
(* rebuilds queue work from the intents that are left.                     *)
(*                                                                         *)
(*   apps/api/src/lib/persist-ingest-batch.ts      the request             *)
(*   apps/api/src/routes/evaluator.ts              score receipts          *)
(*   packages/queue/src/index.ts                   the job                 *)
(*   apps/worker/src/processors/ingest.ts          the worker              *)
(*   apps/worker/src/recovery/*.ts                 the reconciler          *)
(*                                                                         *)
(* Object storage is raw, pending and failedDiag; ClickHouse is ref and    *)
(* rows; PostgreSQL is published, staged, materialized, intent and the     *)
(* advisory locks.  A batch stands for its projectId, batchId and object   *)
(* key, which determine each other.  intent is the raw-retention state of  *)
(* the batch's object; the Retention actions say when it may change,       *)
(* and RawRetention.tla details them and shows that it implements this     *)
(* module.                                                                 *)
(***************************************************************************)
EXTENDS Integers, FiniteSets

CONSTANTS
    Batches,       \* ingest batch ids
    ScoreBatches,  \* those created by POST /evaluator/scores
    Requests,      \* HTTP requests
    ReqBatch,      \* the batch a request persists; score retries share one
    Coordinated,   \* those handled with retentionExecutionEnabled set
    Workers,       \* concurrent BullMQ processors
    Recons,        \* reconcilers, one per worker replica
    Nobody,        \* no owner, no batch
    MaxAttempts,   \* createIngestQueue: attempts
    MaxStalls,     \* BullMQ's maxStalledCount
    FaultKinds,    \* which faults may happen
    MaxFaults      \* bound on injected faults

ASSUME BatchAssumption ==
    /\ ScoreBatches \subseteq Batches /\ Coordinated \subseteq Batches
    /\ ReqBatch \in [Requests -> Batches]
    /\ Nobody \notin Batches \cup Workers \cup Recons
    /\ Workers \cap Recons = {}

ASSUME BoundAssumption ==
    /\ MaxAttempts \in Nat \ {0} /\ MaxStalls \in Nat /\ MaxFaults \in Nat
    /\ FaultKinds \subseteq {"error", "crash", "redisLoss", "pause"}

VARIABLES
    raw, pending, failedDiag,             \* object storage
    job, owner, attempts, stalls,         \* BullMQ
    ref, rows,                            \* ClickHouse
    published, staged, materialized,      \* PostgreSQL
    intent, lock,                         \* raw retention state, object locks
    req, wpc, wbatch, hooks, rpc, rbatch, \* process states
    done, pruned,                         \* history: batches materialised once,
                                          \* and those whose publication is pruned
    faults                                \* faults injected so far

storageVars == <<raw, pending, failedDiag>>
queueVars   == <<job, owner, attempts, stalls>>
clickVars   == <<ref, rows, done>>
pgVars      == <<published, pruned, staged, materialized>>
workerVars  == <<wpc, wbatch>>
reconVars   == <<rpc, rbatch>>
ingestVars  == <<storageVars, queueVars, clickVars, pgVars, lock, req,
                 workerVars, hooks, reconVars, faults>>
vars        == <<ingestVars, intent>>

SnapshotBatches == Batches \ ScoreBatches

\* An intent in one of these states has crossed the irreversible boundary.
Blocked(b) == intent[b] \in {"executing", "complete"}

\* ReplacingMergeTree keeps the row with the highest `applied` version.
MergeRef(b, applied) == IF ref[b] > applied THEN ref[b] ELSE applied

Fault(kind) == kind \in FaultKinds /\ faults < MaxFaults /\ faults' = faults + 1

\* The steps between taking and releasing the lock, and around them.
WorkerInside == {"check", "refs", "rows", "receipt", "publish", "apply",
                 "delete", "unlock"}
ReconInside  == {"check", "getJob", "enqueue", "clean", "settle", "receipt",
                 "refs", "retry", "diag", "delete", "unlock"}
WorkerSteps  == WorkerInside \cup {"idle", "lock", "finish"}
ReconSteps   == ReconInside \cup {"idle", "lock"}

\* An owner is at work on the job it owns, and an idle worker owns none.
TypeOK ==
    /\ raw \subseteq Batches /\ pending \subseteq Batches
    /\ failedDiag \subseteq Batches
    /\ job \in [Batches -> {"absent", "waiting", "active", "completed", "failed"}]
    /\ owner \in [Batches -> Workers \cup {Nobody}]
    /\ \A b \in Batches :
           owner[b] # Nobody => job[b] = "active" /\ wbatch[owner[b]] = b
    /\ attempts \in [Batches -> Nat]
    /\ stalls \in [Batches -> 0..MaxStalls]
    /\ ref \in [Batches -> -1..2]
    /\ rows \subseteq Batches
    /\ published \subseteq Batches /\ pruned \subseteq Batches
    /\ staged \subseteq Batches /\ materialized \subseteq Batches
    /\ lock \in [Batches -> Workers \cup Recons \cup {Nobody}]
    /\ intent \in [Batches -> {"none", "executing", "complete"}]
    /\ req \in [Requests -> {"idle", "claimed", "raw", "intent", "staged",
                             "acked", "dead"}]
    /\ wpc \in [Workers -> WorkerSteps]
    /\ wbatch \in [Workers -> Batches \cup {Nobody}]
    /\ \A w \in Workers : wpc[w] = "idle" => wbatch[w] = Nobody
    /\ rpc \in [Recons -> ReconSteps]
    /\ rbatch \in [Recons -> Batches \cup {Nobody}]
    /\ hooks \subseteq Batches
    /\ done \subseteq Batches
    /\ faults \in Nat

Init ==
    /\ raw = {} /\ pending = {} /\ failedDiag = {}
    /\ job = [b \in Batches |-> "absent"]
    /\ owner = [b \in Batches |-> Nobody]
    /\ attempts = [b \in Batches |-> 0]
    /\ stalls = [b \in Batches |-> 0]
    /\ ref = [b \in Batches |-> -1]
    /\ rows = {}
    /\ published = {} /\ pruned = {} /\ staged = {} /\ materialized = {}
    /\ intent = [b \in Batches |-> "none"]
    /\ lock = [b \in Batches |-> Nobody]
    /\ req = [r \in Requests |-> "idle"]
    /\ wpc = [w \in Workers |-> "idle"]
    /\ wbatch = [w \in Workers |-> Nobody]
    /\ rpc = [c \in Recons |-> "idle"]
    /\ rbatch = [c \in Recons |-> Nobody]
    /\ hooks = {} /\ done = {} /\ faults = 0

-----------------------------------------------------------------------------
(* BullMQ, as packages/queue and the two loops use it.                     *)

\* queue.add with jobId = batchId: a no-op while a job with that id exists.
Enqueue(b) ==
    /\ job' = IF job[b] = "absent" THEN [job EXCEPT ![b] = "waiting"] ELSE job
    /\ UNCHANGED <<owner, attempts, stalls>>

\* Redis loses the job, possibly under a worker that goes on with it.
RedisLoss(b) ==
    /\ Fault("redisLoss") /\ job[b] # "absent"
    /\ job' = [job EXCEPT ![b] = "absent"]
    /\ owner' = [owner EXCEPT ![b] = Nobody]
    /\ attempts' = [attempts EXCEPT ![b] = 0]
    /\ stalls' = [stalls EXCEPT ![b] = 0]
    /\ UNCHANGED <<storageVars, clickVars, pgVars, intent, lock, req,
                   workerVars, hooks, reconVars>>

\* removeOnComplete drops a completed job after an hour.
RemoveCompleted(b) ==
    /\ job[b] = "completed"
    /\ job' = [job EXCEPT ![b] = "absent"]
    /\ attempts' = [attempts EXCEPT ![b] = 0]
    /\ stalls' = [stalls EXCEPT ![b] = 0]
    /\ UNCHANGED <<owner, storageVars, clickVars, pgVars, intent, lock, req,
                   workerVars, hooks, reconVars, faults>>

\* A live worker that was paused loses its BullMQ lock but then goes on.
LoseJobLock(b) ==
    /\ Fault("pause") /\ owner[b] # Nobody
    /\ owner' = [owner EXCEPT ![b] = Nobody]
    /\ UNCHANGED <<job, attempts, stalls, storageVars, clickVars, pgVars, intent,
                   lock, req, workerVars, hooks, reconVars>>

\* The stalled-job check returns a job nobody owns to the queue, or fails it
\* when it stalled too often; a failed job runs the failure hook.
Stalled(b) ==
    /\ job[b] = "active" /\ owner[b] = Nobody
    /\ \/ /\ stalls[b] < MaxStalls
          /\ stalls' = [stalls EXCEPT ![b] = @ + 1]
          /\ job' = [job EXCEPT ![b] = "waiting"]
          /\ UNCHANGED hooks
       \/ /\ stalls[b] = MaxStalls
          /\ job' = [job EXCEPT ![b] = "failed"]
          /\ hooks' = hooks \cup {b}
          /\ UNCHANGED stalls
    /\ UNCHANGED <<owner, attempts, storageVars, clickVars, pgVars, intent,
                   lock, req, workerVars, reconVars, faults>>

QueueNext(b) ==
    RedisLoss(b) \/ RemoveCompleted(b) \/ LoseJobLock(b) \/ Stalled(b)

-----------------------------------------------------------------------------
(* The API request.                                                        *)

ReqStep(r, from, to) == req[r] = from /\ req' = [req EXCEPT ![r] = to]

apiUnchanged == <<failedDiag, clickVars, published, pruned, materialized,
                  intent, lock, workerVars, hooks, reconVars, faults>>

\* A score request claims its receipt; one already staged is acknowledged.
ClaimReceipt(r) ==
    /\ ReqBatch[r] \in ScoreBatches
    /\ ReqStep(r, "idle", IF ReqBatch[r] \in staged THEN "acked" ELSE "claimed")
    /\ UNCHANGED <<raw, pending, queueVars, staged, apiUnchanged>>

\* Seeded bug: the failure of the raw write goes unnoticed.
PutRawUnnoticed(r) ==
    /\ ReqStep(r, IF ReqBatch[r] \in ScoreBatches THEN "claimed" ELSE "idle", "raw")
    /\ raw' \in {raw, raw \cup {ReqBatch[r]}}
    /\ UNCHANGED <<pending, queueVars, staged, apiUnchanged>>

PutRaw(r) ==
    /\ ReqStep(r, IF ReqBatch[r] \in ScoreBatches THEN "claimed" ELSE "idle", "raw")
    /\ raw' = raw \cup {ReqBatch[r]}
    /\ UNCHANGED <<pending, queueVars, staged, apiUnchanged>>

PutPending(r) ==
    /\ ReqStep(r, "raw", "intent")
    /\ pending' = pending \cup {ReqBatch[r]}
    /\ UNCHANGED <<raw, queueVars, staged, apiUnchanged>>

MarkStaged(r) ==
    /\ ReqBatch[r] \in ScoreBatches
    /\ ReqStep(r, "intent", "staged")
    /\ staged' = staged \cup {ReqBatch[r]}
    /\ UNCHANGED <<raw, pending, queueVars, apiUnchanged>>

EnqueueAndAck(r) ==
    /\ ReqStep(r, IF ReqBatch[r] \in ScoreBatches THEN "staged" ELSE "intent", "acked")
    /\ Enqueue(ReqBatch[r])
    /\ UNCHANGED <<raw, pending, staged, apiUnchanged>>

\* A store call fails or the API process dies: no success response is sent.
RequestDies(r) ==
    /\ req[r] \in {"claimed", "raw", "intent", "staged"}
    /\ req' = [req EXCEPT ![r] = "dead"]
    /\ UNCHANGED <<raw, pending, queueVars, staged, apiUnchanged>>

RequestNext(r) ==
    \/ ClaimReceipt(r) \/ PutRaw(r) \/ PutPending(r) \/ MarkStaged(r)
    \/ EnqueueAndAck(r) \/ RequestDies(r)

-----------------------------------------------------------------------------
(* The worker: processIngestBatch.                                         *)

\* The raw object's advisory lock.  The processor and the reconciler take it,
\* and look at the retention state, when retentionExecutionEnabled is set, as
\* the worker's index.ts always does.  Without it they may only run where
\* nothing executes retention, and the state they do not read is "none".
TakeLock(p, b) ==
    IF b \in Coordinated
    THEN lock[b] = Nobody /\ lock' = [lock EXCEPT ![b] = p]
    ELSE UNCHANGED lock

workerUnchanged == <<raw, failedDiag, attempts, stalls, intent, req, reconVars>>

Take(w, b) ==
    /\ wpc[w] = "idle" /\ job[b] = "waiting"
    /\ job' = [job EXCEPT ![b] = "active"]
    /\ owner' = [owner EXCEPT ![b] = w]
    /\ wpc' = [wpc EXCEPT ![w] = "lock"]
    /\ wbatch' = [wbatch EXCEPT ![w] = b]
    /\ UNCHANGED <<workerUnchanged, pending, clickVars, pgVars, lock, hooks, faults>>

WStep(w, from, to) ==
    /\ wpc[w] = from /\ wpc' = [wpc EXCEPT ![w] = to]
    /\ UNCHANGED <<workerUnchanged, wbatch, hooks, faults>>

\* Seeded bug: the retention guard is read without the lock.
WLockless(w) ==
    /\ WStep(w, "lock", "check")
    /\ UNCHANGED <<pending, job, owner, clickVars, pgVars, lock>>

WLock(w) ==
    /\ WStep(w, "lock", "check")
    /\ TakeLock(w, wbatch[w])
    /\ UNCHANGED <<pending, job, owner, clickVars, pgVars>>

\* Seeded bug: no retention guard.
WCheckRawOnly(w) ==
    /\ WStep(w, "check", "refs")
    /\ wbatch[w] \in raw
    /\ UNCHANGED <<pending, job, owner, clickVars, pgVars, lock>>

\* The retention guard; then the raw batch is fetched, and must be there.
WCheck(w) ==
    /\ \/ WStep(w, "check", "delete") /\ Blocked(wbatch[w])
       \/ /\ WStep(w, "check", "refs")
          /\ ~ Blocked(wbatch[w]) /\ wbatch[w] \in raw
    /\ UNCHANGED <<pending, job, owner, clickVars, pgVars, lock>>

\* Seeded bug: every reference starts applied.
WRefsApplied(w) ==
    /\ WStep(w, "refs", "rows")
    /\ ref' = [ref EXCEPT ![wbatch[w]] = MergeRef(wbatch[w], 1)]
    /\ UNCHANGED <<pending, job, owner, rows, done, pgVars, lock>>

\* Snapshot references start pending; annotation-only ones start applied.
WRefs(w) ==
    /\ WStep(w, "refs", "rows")
    /\ ref' = [ref EXCEPT ![wbatch[w]] =
                 MergeRef(wbatch[w], IF wbatch[w] \in ScoreBatches THEN 1 ELSE 0)]
    /\ UNCHANGED <<pending, job, owner, rows, done, pgVars, lock>>

WRows(w) ==
    /\ WStep(w, "rows", IF wbatch[w] \in ScoreBatches THEN "receipt" ELSE "publish")
    /\ rows' = rows \cup {wbatch[w]}
    /\ done' = done \cup {wbatch[w]}
    /\ UNCHANGED <<pending, job, owner, ref, pgVars, lock>>

\* Only a staged receipt is marked; a batch without snapshot traces has no
\* publication and no reference left to apply.
WReceipt(w) ==
    /\ WStep(w, "receipt", "delete")
    /\ materialized' = materialized \cup ({wbatch[w]} \cap staged)
    /\ UNCHANGED <<pending, job, owner, clickVars, published, pruned, staged, lock>>

WPublish(w) ==
    /\ WStep(w, "publish", "apply")
    /\ published' = published \cup {wbatch[w]}
    /\ pruned' = pruned \ {wbatch[w]}
    /\ UNCHANGED <<pending, job, owner, clickVars, staged, materialized, lock>>

WApply(w) ==
    /\ WStep(w, "apply", "delete")
    /\ ref' = [ref EXCEPT ![wbatch[w]] = MergeRef(wbatch[w], 1)]
    /\ UNCHANGED <<pending, job, owner, rows, done, pgVars, lock>>

WDelete(w) ==
    /\ WStep(w, "delete", "unlock")
    /\ pending' = pending \ {wbatch[w]}
    /\ UNCHANGED <<job, owner, clickVars, pgVars, lock>>

WUnlock(w) ==
    /\ WStep(w, "unlock", "finish")
    /\ lock' = [lock EXCEPT ![wbatch[w]] = Nobody]
    /\ UNCHANGED <<pending, job, owner, clickVars, pgVars>>

\* Seeded bug: a completion counts whoever reports it.
WFinishAnyway(w) ==
    LET b == wbatch[w] IN
    /\ wpc[w] = "finish"
    /\ job' = [job EXCEPT ![b] = "completed"]
    /\ owner' = IF owner[b] = w THEN [owner EXCEPT ![b] = Nobody] ELSE owner
    /\ wpc' = [wpc EXCEPT ![w] = "idle"]
    /\ wbatch' = [wbatch EXCEPT ![w] = Nobody]
    /\ UNCHANGED <<workerUnchanged, pending, clickVars, pgVars, lock, hooks, faults>>

\* BullMQ refuses a completion by a worker that no longer owns the job.
WFinish(w) ==
    LET b == wbatch[w] IN
    /\ wpc[w] = "finish"
    /\ job' = IF owner[b] = w THEN [job EXCEPT ![b] = "completed"] ELSE job
    /\ owner' = IF owner[b] = w THEN [owner EXCEPT ![b] = Nobody] ELSE owner
    /\ wpc' = [wpc EXCEPT ![w] = "idle"]
    /\ wbatch' = [wbatch EXCEPT ![w] = Nobody]
    /\ UNCHANGED <<workerUnchanged, pending, clickVars, pgVars, lock, hooks, faults>>

\* The processor leaves: its advisory-lock session ends with it.
WLeave(w) ==
    /\ wpc[w] \in WorkerInside \cup {"lock"}
    /\ lock' = IF lock[wbatch[w]] = w THEN [lock EXCEPT ![wbatch[w]] = Nobody] ELSE lock
    /\ wpc' = [wpc EXCEPT ![w] = "idle"]
    /\ wbatch' = [wbatch EXCEPT ![w] = Nobody]
    /\ UNCHANGED <<storageVars, clickVars, pgVars, intent, req, reconVars>>

\* A job the reconciler retries keeps its count, and may be past the last.
LastAttempt(b) == attempts[b] + 1 >= MaxAttempts

\* A store call throws: BullMQ retries the job, or fails it for good after
\* its last attempt and emits "failed".
WFail(w) ==
    LET b == wbatch[w] IN
    /\ Fault("error") /\ WLeave(w)
    /\ \/ /\ owner[b] = w
          /\ job' = [job EXCEPT ![b] = IF LastAttempt(b) THEN "failed" ELSE "waiting"]
          /\ owner' = [owner EXCEPT ![b] = Nobody]
          /\ attempts' = [attempts EXCEPT ![b] = @ + 1]
          /\ hooks' = hooks \cup {b}
          /\ UNCHANGED stalls
       \/ owner[b] # w /\ UNCHANGED <<queueVars, hooks>>

\* The process dies: its job stays active, owned by nobody, until it stalls.
WCrash(w) ==
    LET b == wbatch[w] IN
    /\ Fault("crash") /\ WLeave(w)
    /\ owner' = IF owner[b] = w THEN [owner EXCEPT ![b] = Nobody] ELSE owner
    /\ UNCHANGED <<job, attempts, stalls, hooks>>

\* worker.on("failed"): outside the lock, and only logged when it fails.
SettleHook(b) ==
    /\ b \in hooks
    /\ hooks' = hooks \ {b}
    /\ \/ /\ b \in published /\ b \in raw
          /\ ref' = [ref EXCEPT ![b] = MergeRef(b, 1)]
       \/ UNCHANGED ref
    /\ UNCHANGED <<storageVars, queueVars, rows, done, pgVars, intent, lock, req,
                   workerVars, reconVars, faults>>

WorkerNext(w) ==
    \/ \E b \in Batches : Take(w, b)
    \/ WLock(w) \/ WCheck(w) \/ WRefs(w) \/ WRows(w) \/ WReceipt(w) \/ WPublish(w)
    \/ WApply(w) \/ WDelete(w) \/ WUnlock(w) \/ WFinish(w) \/ WFail(w) \/ WCrash(w)

-----------------------------------------------------------------------------
(* The reconciler: one pending intent at a time, under the same lock.  The *)
(* order of the intents is RecoveryCursor.tla's.                           *)

reconUnchanged == <<raw, owner, attempts, stalls, rows, done, pgVars, intent, req,
                    workerVars, hooks>>

Examine(c, b) ==
    /\ rpc[c] = "idle" /\ b \in pending
    /\ rpc' = [rpc EXCEPT ![c] = "lock"]
    /\ rbatch' = [rbatch EXCEPT ![c] = b]
    /\ UNCHANGED <<reconUnchanged, pending, failedDiag, job, ref, lock, faults>>

CStep(c, from, to) ==
    /\ rpc[c] = from /\ rpc' = [rpc EXCEPT ![c] = to]
    /\ UNCHANGED <<reconUnchanged, rbatch, faults>>

CLock(c) ==
    /\ CStep(c, "lock", "check")
    /\ TakeLock(c, rbatch[c])
    /\ UNCHANGED <<pending, failedDiag, job, ref>>

\* The intent of a retired object is only cleaned.
CCheck(c) ==
    /\ CStep(c, "check", IF Blocked(rbatch[c]) THEN "clean" ELSE "getJob")
    /\ UNCHANGED <<pending, failedDiag, job, ref, lock>>

\* Seeded bug: an active job counts as completed.
CGetJobEagerly(c) ==
    /\ CStep(c, "getJob", CASE job[rbatch[c]] = "absent"                -> "enqueue"
                            [] job[rbatch[c]] \in {"active", "completed"} -> "clean"
                            [] job[rbatch[c]] = "failed"                -> "settle"
                            [] OTHER                                    -> "unlock")
    /\ UNCHANGED <<pending, failedDiag, job, ref, lock>>

\* Seeded bug: a failed job is left alone like a live one.
CGetJobLeavesFailed(c) ==
    /\ CStep(c, "getJob", CASE job[rbatch[c]] = "absent"    -> "enqueue"
                            [] job[rbatch[c]] = "completed" -> "clean"
                            [] OTHER                        -> "unlock")
    /\ UNCHANGED <<pending, failedDiag, job, ref, lock>>

\* What the job's state asks for; a live job is left alone.
CGetJob(c) ==
    /\ CStep(c, "getJob", CASE job[rbatch[c]] = "absent"    -> "enqueue"
                            [] job[rbatch[c]] = "completed" -> "clean"
                            [] job[rbatch[c]] = "failed"    -> "settle"
                            [] OTHER                        -> "unlock")
    /\ UNCHANGED <<pending, failedDiag, job, ref, lock>>

CEnqueue(c) ==
    /\ CStep(c, "enqueue", "unlock")
    /\ job' = IF job[rbatch[c]] = "absent"
              THEN [job EXCEPT ![rbatch[c]] = "waiting"] ELSE job
    /\ UNCHANGED <<pending, failedDiag, ref, lock>>

CClean(c) ==
    /\ CStep(c, "clean", "unlock")
    /\ pending' = pending \ {rbatch[c]}
    /\ UNCHANGED <<failedDiag, job, ref, lock>>

\* recoverTerminalEvaluatorTraceRefs, one store call per step: a published
\* batch gets its references applied, from the traces in its raw object.
CSettle(c) ==
    LET b == rbatch[c] IN
    /\ \/ /\ CStep(c, "settle", "diag")
          /\ b \in published /\ b \in raw
          /\ ref' = [ref EXCEPT ![b] = MergeRef(b, 1)]
       \/ /\ CStep(c, "settle", "receipt")
          /\ b \notin published /\ UNCHANGED ref
    /\ UNCHANGED <<pending, failedDiag, job, lock>>

UnmaterializedReceipt(b) == b \in staged /\ b \notin materialized

CReceipt(c) ==
    /\ CStep(c, "receipt", IF UnmaterializedReceipt(rbatch[c]) THEN "retry" ELSE "refs")
    /\ UNCHANGED <<pending, failedDiag, job, ref, lock>>

\* Seeded bug: every unpublished batch is quarantined.
CRefsQuarantine(c) ==
    /\ CStep(c, "refs", "diag")
    /\ UNCHANGED <<pending, failedDiag, job, ref, lock>>

CRefs(c) ==
    /\ CStep(c, "refs", IF ref[rbatch[c]] = 0 THEN "retry" ELSE "diag")
    /\ UNCHANGED <<pending, failedDiag, job, ref, lock>>

\* job.retry("failed") throws for a job that is no longer failed.
CRetry(c) ==
    /\ CStep(c, "retry", "unlock")
    /\ job[rbatch[c]] = "failed"
    /\ job' = [job EXCEPT ![rbatch[c]] = "waiting"]
    /\ UNCHANGED <<pending, failedDiag, ref, lock>>

\* Seeded bug: the diagnostic is not written before the intent goes.
CDiagSkipped(c) ==
    /\ CStep(c, "diag", "delete")
    /\ UNCHANGED <<pending, failedDiag, job, ref, lock>>

CDiag(c) ==
    /\ CStep(c, "diag", "delete")
    /\ failedDiag' = failedDiag \cup {rbatch[c]}
    /\ UNCHANGED <<pending, job, ref, lock>>

CDelete(c) ==
    /\ CStep(c, "delete", "unlock")
    /\ pending' = pending \ {rbatch[c]}
    /\ UNCHANGED <<failedDiag, job, ref, lock>>

CLeave(c) ==
    /\ lock' = IF lock[rbatch[c]] = c THEN [lock EXCEPT ![rbatch[c]] = Nobody] ELSE lock
    /\ rpc' = [rpc EXCEPT ![c] = "idle"]
    /\ rbatch' = [rbatch EXCEPT ![c] = Nobody]
    /\ UNCHANGED <<reconUnchanged, pending, failedDiag, job, ref>>

CUnlock(c) ==
    /\ rpc[c] = "unlock" /\ CLeave(c)
    /\ UNCHANGED faults

\* A store call throws or the process dies: the pass ends where it is.
CFail(c) ==
    /\ rpc[c] \in ReconInside \cup {"lock"} /\ CLeave(c)
    /\ \/ Fault("error")
       \/ rpc[c] = "retry" /\ job[rbatch[c]] # "failed" /\ UNCHANGED faults

ReconNext(c) ==
    \/ \E b \in Batches : Examine(c, b)
    \/ CLock(c) \/ CCheck(c) \/ CGetJob(c) \/ CEnqueue(c) \/ CClean(c) \/ CSettle(c)
    \/ CReceipt(c) \/ CRefs(c) \/ CRetry(c) \/ CDiag(c) \/ CDelete(c) \/ CUnlock(c)
    \/ CFail(c)

-----------------------------------------------------------------------------
(* Raw and row retention, reduced to what the ingest path can see.         *)

retentionUnchanged == <<queueVars, staged, materialized, lock, req, workerVars,
                        hooks, reconVars, faults, done, pending>>

\* Row retention has the exclusive side of the lifecycle fence, whose shared
\* side a worker holds from its references to its last write.
FenceFree == \A w \in Workers : wpc[w] \notin {"rows", "receipt", "publish", "apply"}

\* Row retention removes an old row from every read.
RetentionExpiresRows(b) ==
    /\ b \in rows /\ FenceFree
    /\ rows' = rows \ {b}
    /\ UNCHANGED <<retentionUnchanged, published, pruned, raw, failedDiag, ref, intent>>

\* Its last step deletes the publication, and with it the activities, of every
\* trace without a root: one that is gone, or one of which only observations
\* were ever written.
RetentionPrunesFeed(b) ==
    /\ b \in published /\ FenceFree
    /\ published' = published \ {b}
    /\ pruned' = pruned \cup {b}
    /\ UNCHANGED <<retentionUnchanged, rows, raw, failedDiag, ref, intent>>

\* Nothing is in flight for an object old enough to retire: its requests ended
\* days ago, no intent is pending, its job is terminal or forgotten, and it
\* has references, all applied unless it is in quarantine.
Retirable(b) ==
    /\ b \in raw /\ b \notin pending /\ b \notin rows
    /\ \A r \in Requests : ReqBatch[r] = b => req[r] \in {"acked", "dead"}
    /\ job[b] \in {"absent", "completed", "failed"}
    /\ (job[b] = "failed") => b \in failedDiag
    /\ (job[b] = "completed") => b \notin failedDiag
    /\ ref[b] # -1 /\ (b \notin failedDiag => ref[b] = 1)

\* The executor holds the lock when it crosses the irreversible boundary; it
\* may give the object up there, keep its state and come back.  It runs only
\* beside processors that take the lock.
RetentionCrosses(b) ==
    /\ b \in Coordinated /\ lock[b] = Nobody
    /\ intent[b] = "none" /\ Retirable(b)
    /\ intent' = [intent EXCEPT ![b] = "executing"]
    /\ UNCHANGED <<retentionUnchanged, published, pruned, raw, failedDiag, ref, rows>>

\* Tombstone references come first, then the quarantine diagnostic goes, then
\* the raw object, then the intent is closed.
RetentionTombstones(b) ==
    /\ lock[b] = Nobody
    /\ intent[b] = "executing" /\ ref[b] # 2
    /\ ref' = [ref EXCEPT ![b] = MergeRef(b, 2)]
    /\ UNCHANGED <<retentionUnchanged, published, pruned, raw, failedDiag, rows, intent>>

RetentionDropsDiag(b) ==
    /\ lock[b] = Nobody
    /\ intent[b] = "executing" /\ ref[b] = 2 /\ b \in failedDiag
    /\ failedDiag' = failedDiag \ {b}
    /\ UNCHANGED <<retentionUnchanged, published, pruned, raw, ref, rows, intent>>

RetentionDeletesRaw(b) ==
    /\ lock[b] = Nobody
    /\ intent[b] = "executing" /\ ref[b] = 2 /\ b \in raw
    /\ b \notin failedDiag /\ b \notin pending
    /\ job[b] \in {"absent", "completed", "failed"}
    /\ raw' = raw \ {b}
    /\ UNCHANGED <<retentionUnchanged, published, pruned, failedDiag, ref, rows, intent>>

RetentionCompletes(b) ==
    /\ lock[b] = Nobody
    /\ intent[b] = "executing" /\ ref[b] = 2 /\ b \notin raw
    /\ intent' = [intent EXCEPT ![b] = "complete"]
    /\ UNCHANGED <<retentionUnchanged, published, pruned, raw, failedDiag, ref, rows>>

RetentionNext(b) ==
    \/ RetentionExpiresRows(b) \/ RetentionPrunesFeed(b) \/ RetentionCrosses(b)
    \/ RetentionTombstones(b) \/ RetentionDropsDiag(b) \/ RetentionDeletesRaw(b)
    \/ RetentionCompletes(b)

-----------------------------------------------------------------------------

Next ==
    \/ \E r \in Requests : RequestNext(r)
    \/ \E w \in Workers : WorkerNext(w)
    \/ \E c \in Recons : ReconNext(c)
    \/ \E b \in Batches : QueueNext(b) \/ SettleHook(b) \/ RetentionNext(b)

Spec == Init /\ [][Next]_vars

-----------------------------------------------------------------------------
(* What the ingest path promises.                                          *)

\* "an acknowledged queue job must never refer to an absent raw object": work
\* that is queued or still intended finds its raw batch, unless retention
\* retired it, which the worker notices before it reads the object.
WorkHasRaw ==
    \A b \in Batches :
        (b \in pending \/ job[b] \in {"waiting", "active", "failed"})
            => b \in raw \/ Blocked(b)

\* Exact evaluator reads cannot observe changed ClickHouse rows under the
\* prior snapshot version: until the batch is published, its visible rows are
\* covered by a pending reference, whatever attempts failed in between.  A
\* batch whose publication was pruned is excepted: nothing is published of its
\* trace, until the batch is published again.
UnpublishedRowsBlockFeed ==
    \A b \in SnapshotBatches :
        b \in rows /\ b \notin published \cup pruned => ref[b] = 0

\* A pending reference, which blocks the project's evaluator feed, always has
\* somebody left to settle it: the durable intent, or a worker at work.
NoStrandedTrace ==
    \A b \in Batches :
        ref[b] = 0 => \/ b \in pending
                      \/ \E w \in Workers : wbatch[w] = b /\ wpc[w] \in WorkerInside

\* Once retention has crossed its irreversible boundary no delayed or
\* recovered job brings the derived rows back.
RetiredStaysGone ==
    \A b \in Batches : Blocked(b) => b \notin rows

\* The batch as its user sees it, and the promise the whole path implements
\* (DurableBatch.tla): persistAndEnqueueIngestBatch, the worker and the
\* reconciler together never lose a batch whose intent was written.
Status(b) ==
    CASE Blocked(b)      -> "retired"
      [] b \in done /\ ~ Blocked(b) -> "materialized"
      [] b \in failedDiag \ done /\ ~ Blocked(b) -> "quarantined"
      [] b \in pending \ (done \cup failedDiag) /\ ~ Blocked(b) -> "intended"
      [] OTHER           -> "unseen"

Promise == INSTANCE DurableBatch WITH
    status <- [b \in Batches |-> Status(b)],
    acked  <- {ReqBatch[r] : r \in {q \in Requests : req[q] = "acked"}}

NeverForgotten == Promise!Spec

\* "terminal recovery keeps an unmaterialized staged batch retryable".
StagedScoreRetryable ==
    \A b \in staged : b \in done \/ b \in pending \/ Blocked(b)

\* One pass over the pending prefix, the queue and the lock keep serving
\* whoever waits for them; faults are finitely many.
Fairness ==
    /\ \A w \in Workers :
        /\ WF_vars(WCheck(w) \/ WRefs(w) \/ WRows(w) \/ WReceipt(w) \/ WPublish(w)
                     \/ WApply(w) \/ WDelete(w) \/ WUnlock(w) \/ WFinish(w))
        /\ SF_vars(WLock(w))
    /\ \A b \in Batches :
        /\ WF_vars(\E w \in Workers : Take(w, b))
        /\ WF_vars(Stalled(b))
        /\ SF_vars(\E c \in Recons : Examine(c, b))
    /\ \A c \in Recons :
        /\ WF_vars(CCheck(c) \/ CGetJob(c) \/ CEnqueue(c) \/ CClean(c) \/ CSettle(c)
                     \/ CReceipt(c) \/ CRefs(c) \/ CRetry(c) \/ CDiag(c) \/ CDelete(c)
                     \/ CUnlock(c) \/ CFail(c))
        /\ SF_vars(CLock(c))

FairSpec == Spec /\ Fairness

\* Every durable intent is settled in the end, and no trace blocks the
\* evaluator feed forever.
IntentsDrain  == \A b \in Batches : b \in pending ~> b \notin pending
FeedUnblocks  == \A b \in Batches : ref[b] = 0 ~> ref[b] # 0
=============================================================================
