---------------------------- MODULE RawRetention ----------------------------
(***************************************************************************)
(* Raw retention next to the ingest path of IngestRecovery: sweeps on the  *)
(* worker replicas prepare a durable intent for an old raw object, and     *)
(* execute it: evidence from four stores, read one after the other, then   *)
(* the irreversible order of deletions, resumed after a crash.             *)
(*                                                                         *)
(*   apps/worker/src/retention/raw-retention-sweep.ts                      *)
(*   apps/worker/src/retention/raw-retention-intent-preparer.ts            *)
(*   apps/worker/src/retention/raw-retention-intent-executor.ts            *)
(*   packages/db/src/raw-retention-intents.ts                              *)
(*                                                                         *)
(* The module shares every variable of IngestRecovery; its sweeps take the *)
(* place of that module's Retention actions, and implement them.  A sweep  *)
(* handles one object at a time.  PostgreSQL's dead-letter rows and the    *)
(* project's policy can only veto; a veto of theirs is a mishap.           *)
(***************************************************************************)
EXTENDS IngestRecovery

CONSTANTS
    Sweeps,     \* one retention sweep per worker replica
    MaxMishaps  \* bound on sweeps that fail, crash or meet an outside veto

ASSUME SweepAssumption ==
    /\ Sweeps \cap (Batches \cup Workers \cup Recons \cup {Nobody}) = {}
    /\ MaxMishaps \in Nat
    /\ Coordinated = Batches

VARIABLES
    marker,    \* raw_event_trace_retention: traces with an expired object
    class,     \* raw_retention_intents.classification
    execLock,  \* withRawRetentionExecutionLock
    spc, sbatch,  \* where each sweep stands, and the object it handles
    seen,      \* the classification it found, or the state it executes
    mishaps

sweepVars == <<marker, class, execLock, spc, sbatch, seen, mishaps>>
allVars   == <<vars, sweepVars>>

PrepareSteps == {"pPending", "pDiag", "pJob", "pRefs", "pVisible", "pInsert"}
LockedSteps  == {"stat", "pending", "queue", "diag", "refs", "visible", "claim",
                 "markers", "tombstones", "dropDiag", "recheckPending",
                 "recheckQueue", "delete", "complete", "converge", "unlock"}
Classes      == {"applied", "terminal_failed"}

SweepTypeOK ==
    /\ marker \subseteq Batches
    /\ class \in [Batches -> Classes \cup {"none"}]
    /\ execLock \in Sweeps \cup {Nobody}
    /\ spc \in [Sweeps -> PrepareSteps \cup LockedSteps \cup {"idle", "lock"}]
    /\ sbatch \in [Sweeps -> Batches \cup {Nobody}]
    /\ seen \in [Sweeps -> Classes \cup {"none", "prepared", "executing"}]
    /\ \A s \in Sweeps : (spc[s] = "idle") <=> (sbatch[s] = Nobody)
    /\ intent \in [Batches -> {"none", "prepared", "executing", "complete"}]
    /\ lock \in [Batches -> Workers \cup Recons \cup Sweeps \cup {Nobody}]
    /\ mishaps \in 0..MaxMishaps

SweepInit ==
    /\ Init
    /\ marker = {} /\ execLock = Nobody /\ mishaps = 0
    /\ class = [b \in Batches |-> "none"]
    /\ spc = [s \in Sweeps |-> "idle"]
    /\ sbatch = [s \in Sweeps |-> Nobody]
    /\ seen = [s \in Sweeps |-> "none"]

\* The object's UTC day is past the cutoff: its requests ended days ago.
Old(b) == \A r \in Requests : ReqBatch[r] = b => req[r] \in {"acked", "dead"}

\* What no sweep touches.
ingestOnly == <<pending, queueVars, rows, done, pgVars, req, workerVars, hooks,
                reconVars, faults>>
noStore    == <<ingestOnly, raw, failedDiag, ref, intent, marker, class>>

\* The sweep goes on at step `to`, or leaves its object.
SStep(s, from, to) ==
    /\ spc[s] = from
    /\ spc' = [spc EXCEPT ![s] = to]
    /\ UNCHANGED <<sbatch, mishaps>>

Leave(s) ==
    /\ spc' = [spc EXCEPT ![s] = "idle"]
    /\ sbatch' = [sbatch EXCEPT ![s] = Nobody]
    /\ seen' = [seen EXCEPT ![s] = "none"]
    /\ execLock' = IF execLock = s THEN Nobody ELSE execLock
    /\ lock' = [b \in Batches |-> IF lock[b] = s THEN Nobody ELSE lock[b]]

-----------------------------------------------------------------------------
(* prepareRawRetentionIntents: no lock, nothing is changed but the intent. *)

Discover(s, b) ==
    /\ spc[s] = "idle" /\ b \in raw /\ Old(b) /\ intent[b] = "none"
    /\ spc' = [spc EXCEPT ![s] = "pPending"]
    /\ sbatch' = [sbatch EXCEPT ![s] = b]
    /\ UNCHANGED <<noStore, lock, execLock, seen, mishaps>>

\* An uncertain object is skipped and visited again by a later sweep.
Skip(s, from, reason) ==
    /\ spc[s] = from /\ reason
    /\ Leave(s)
    /\ UNCHANGED <<noStore, mishaps>>

Check(s, from, evidence, to) ==
    \/ /\ SStep(s, from, to) /\ evidence
       /\ UNCHANGED <<noStore, lock, execLock, seen>>
    \/ Skip(s, from, ~ evidence)

PPending(s) == Check(s, "pPending", sbatch[s] \notin pending, "pDiag")

PDiag(s) ==
    /\ SStep(s, "pDiag", "pJob")
    /\ seen' = [seen EXCEPT ![s] =
          IF sbatch[s] \in failedDiag THEN "terminal_failed" ELSE "applied"]
    /\ UNCHANGED <<noStore, lock, execLock>>

\* validateQueue, and the preparer's own check of the same.
QueueAgrees(b, c) ==
    /\ job[b] \in {"absent", "completed", "failed"}
    /\ c = "applied" => job[b] # "failed"
    /\ c = "terminal_failed" => job[b] # "completed"

PJob(s) == Check(s, "pJob", QueueAgrees(sbatch[s], seen[s]), "pRefs")

PRefs(s) ==
    Check(s, "pRefs", IF seen[s] = "applied" THEN ref[sbatch[s]] = 1
                                             ELSE ref[sbatch[s]] \in {0, 1}, "pVisible")

PVisible(s) == Check(s, "pVisible", sbatch[s] \notin rows, "pInsert")

\* Object keys are unique: an intent that exists stays as it is.
PInsert(s) ==
    LET b == sbatch[s] IN
    /\ spc[s] = "pInsert"
    /\ IF intent[b] = "none"
       THEN /\ intent' = [intent EXCEPT ![b] = "prepared"]
            /\ class' = [class EXCEPT ![b] = seen[s]]
       ELSE UNCHANGED <<intent, class>>
    /\ Leave(s)
    /\ UNCHANGED <<ingestOnly, raw, failedDiag, ref, marker, mishaps>>

Prepare(s) ==
    \/ \E b \in Batches : Discover(s, b)
    \/ PPending(s) \/ PDiag(s) \/ PJob(s) \/ PRefs(s) \/ PVisible(s) \/ PInsert(s)

-----------------------------------------------------------------------------
(* executeRawRetentionIntents.                                             *)

\* Executing intents are resumed though their raw object may be gone.
Execute(s, b) ==
    /\ spc[s] = "idle" /\ execLock = Nobody
    /\ intent[b] = "executing" \/ (intent[b] = "prepared" /\ b \in raw)
    /\ execLock' = s
    /\ seen' = [seen EXCEPT ![s] = intent[b]]
    /\ spc' = [spc EXCEPT ![s] = "lock"]
    /\ sbatch' = [sbatch EXCEPT ![s] = b]
    /\ UNCHANGED <<noStore, lock, mishaps>>

\* Seeded bug: the result of the try-lock is ignored.
TryLockIgnored(s) ==
    /\ SStep(s, "lock", "stat")
    /\ UNCHANGED <<noStore, lock, execLock, seen>>

\* tryWithRawRetentionObjectLock never waits.
TryLock(s) ==
    \/ /\ SStep(s, "lock", "stat")
       /\ lock[sbatch[s]] = Nobody
       /\ lock' = [lock EXCEPT ![sbatch[s]] = s]
       /\ UNCHANGED <<noStore, execLock, seen>>
    \/ Skip(s, "lock", lock[sbatch[s]] # Nobody)

\* A missing object is a crash after the last delete, or a veto.
Stat(s) ==
    Check(s, "stat", sbatch[s] \in raw \/ seen[s] = "executing",
          IF sbatch[s] \in raw THEN "pending" ELSE "converge")

NoPending(s) == Check(s, "pending", sbatch[s] \notin pending, "queue")

QueueTerminal(s) ==
    Check(s, "queue", QueueAgrees(sbatch[s], class[sbatch[s]]), "diag")

\* Seeded bug: a quarantined batch needs its diagnostic to be resumed.
DiagAgreesAlways(s) ==
    Check(s, "diag", (class[sbatch[s]] = "terminal_failed") <=> (sbatch[s] \in failedDiag),
          "refs")

\* Execution itself drops the diagnostic: a resumed intent may lack it.
DiagAgrees(s) ==
    Check(s, "diag",
          /\ class[sbatch[s]] = "applied" => sbatch[s] \notin failedDiag
          /\ class[sbatch[s]] = "terminal_failed" =>
                sbatch[s] \in failedDiag \/ seen[s] = "executing",
          "refs")

RefsAgree(s) ==
    Check(s, "refs",
          /\ ref[sbatch[s]] # -1
          /\ seen[s] = "prepared" => ref[sbatch[s]] # 2
          /\ seen[s] = "prepared" /\ class[sbatch[s]] = "applied" => ref[sbatch[s]] = 1,
          "visible")

NoVisibleRows(s) == Check(s, "visible", sbatch[s] \notin rows, "claim")

\* claimRawRetentionIntentExecution: from here on ingest treats the batch as
\* retired.
Claim(s) ==
    /\ SStep(s, "claim", "markers")
    /\ intent' = [intent EXCEPT ![sbatch[s]] = "executing"]
    /\ UNCHANGED <<ingestOnly, raw, failedDiag, ref, marker, class, lock, execLock, seen>>

RecordMarkers(s) ==
    /\ SStep(s, "markers", "tombstones")
    /\ marker' = marker \cup {sbatch[s]}
    /\ UNCHANGED <<ingestOnly, raw, failedDiag, ref, intent, class, lock, execLock, seen>>

\* Seeded bug: the insert is not verified.
TombstoneUnverified(s) ==
    /\ SStep(s, "tombstones", "dropDiag")
    /\ ref' \in {ref, [ref EXCEPT ![sbatch[s]] = MergeRef(sbatch[s], 2)]}
    /\ UNCHANGED <<ingestOnly, raw, failedDiag, marker, intent, class, lock, execLock, seen>>

Tombstone(s) ==
    /\ SStep(s, "tombstones", "dropDiag")
    /\ ref' = [ref EXCEPT ![sbatch[s]] = MergeRef(sbatch[s], 2)]
    /\ UNCHANGED <<ingestOnly, raw, failedDiag, marker, intent, class, lock, execLock, seen>>

DropDiag(s) ==
    /\ SStep(s, "dropDiag", "recheckPending")
    /\ failedDiag' = failedDiag \ {sbatch[s]}
    /\ UNCHANGED <<ingestOnly, raw, ref, marker, intent, class, lock, execLock, seen>>

RecheckPending(s) ==
    Check(s, "recheckPending", sbatch[s] \notin pending, "recheckQueue")

RecheckQueue(s) ==
    Check(s, "recheckQueue", QueueAgrees(sbatch[s], class[sbatch[s]]), "delete")

DeleteRaw(s) ==
    /\ SStep(s, "delete", "complete")
    /\ raw' = raw \ {sbatch[s]}
    /\ UNCHANGED <<ingestOnly, failedDiag, ref, marker, intent, class, lock, execLock, seen>>

Complete(s) ==
    /\ SStep(s, "complete", "unlock")
    /\ intent' = [intent EXCEPT ![sbatch[s]] = "complete"]
    /\ UNCHANGED <<ingestOnly, raw, failedDiag, ref, marker, class, lock, execLock, seen>>

\* convergePostDelete: only the tombstones prove that the object was deleted.
Converge(s) ==
    Check(s, "converge", ref[sbatch[s]] = 2 /\ sbatch[s] \in marker, "complete")

\* Seeded bug: the sweep keeps its object.
UnlockKeeps(s) ==
    /\ SStep(s, "unlock", "idle")
    /\ seen' = [seen EXCEPT ![s] = "none"]
    /\ execLock' = Nobody
    /\ lock' = [lock EXCEPT ![sbatch[s]] = Nobody]
    /\ UNCHANGED noStore

Unlock(s) == Skip(s, "unlock", TRUE)

ExecuteStep(s) ==
    \/ TryLock(s) \/ Stat(s) \/ NoPending(s) \/ QueueTerminal(s) \/ DiagAgrees(s)
    \/ RefsAgree(s) \/ NoVisibleRows(s) \/ Claim(s) \/ RecordMarkers(s) \/ Tombstone(s)
    \/ DropDiag(s) \/ RecheckPending(s) \/ RecheckQueue(s) \/ DeleteRaw(s)
    \/ Complete(s) \/ Converge(s) \/ Unlock(s)

\* A store call throws, the process dies, or the policy or a dead-letter row
\* vetoes: the object is left, and both locks end with their session.
Mishap(s) ==
    /\ spc[s] # "idle" /\ Leave(s)
    /\ mishaps < MaxMishaps /\ mishaps' = mishaps + 1
    /\ UNCHANGED noStore

SweepNext(s) ==
    \/ Prepare(s) \/ ExecuteStep(s) \/ Mishap(s)
    \/ \E b \in Batches : Execute(s, b)

-----------------------------------------------------------------------------

IngestNext ==
    /\ \/ \E r \in Requests : RequestNext(r)
       \/ \E w \in Workers : WorkerNext(w)
       \/ \E c \in Recons : ReconNext(c)
       \/ \E b \in Batches : QueueNext(b) \/ SettleHook(b) \/ RetentionExpiresRows(b)
                                \/ RetentionPrunesFeed(b)
    /\ UNCHANGED sweepVars

RetentionSpec ==
    /\ SweepInit
    /\ [][IngestNext \/ \E s \in Sweeps : SweepNext(s)]_allVars

\* A sweep that executes goes on, and every interval starts with the intents
\* that are executing, in rotation.  Nothing makes a sweep prepare.
RetentionFairSpec ==
    /\ RetentionSpec /\ Fairness
    /\ \A s \in Sweeps :
        /\ WF_allVars(ExecuteStep(s))
        /\ \A b \in Batches : SF_allVars(Execute(s, b))

-----------------------------------------------------------------------------

\* To the ingest path, a prepared intent is none and a sweep holds no lock:
\* evidence read store by store, under the object lock and beside requests,
\* hooks and Redis, amounts to one atomic look at all of it (Retirable).
Ingest == INSTANCE IngestRecovery WITH
    intent <- [b \in Batches |-> IF intent[b] = "prepared" THEN "none" ELSE intent[b]],
    lock   <- [b \in Batches |-> IF lock[b] \in Sweeps THEN Nobody ELSE lock[b]]

ImplementsIngest == Ingest!Spec

\* "deleted, with evidence": a raw object is gone only with the tombstones
\* that converge a crash after the delete and tell it from data loss, and what
\* is complete has left nothing behind.
GoneWithEvidence ==
    \A b \in Batches :
        /\ intent[b] = "executing" /\ b \notin raw =>
               ref[b] = 2 /\ b \in marker /\ b \notin failedDiag
        /\ intent[b] = "complete" =>
               /\ b \notin raw /\ b \notin failedDiag /\ b \notin rows
               /\ ref[b] = 2 /\ b \in marker

\* A crash after the irreversible boundary is resumed to the end.
ExecutingConverges ==
    \A b \in Batches : intent[b] = "executing" ~> intent[b] = "complete"
=============================================================================
