----------------------------- MODULE TraceIngest ----------------------------
(***************************************************************************)
(* The ingest processor as a writer of evaluator traces: the part of       *)
(* processIngestBatch between mapping the events and deleting the durable  *)
(* intent (IngestRecovery models what happens around it). A job holds the  *)
(* shared fence while it writes, marks its raw references pending first    *)
(* and applied last, and publishes in between. A failed job runs again,    *)
(* and its failure hook settles a publication already committed.           *)
(***************************************************************************)
EXTENDS TraceStore

CONSTANT
    DistinctReceipts   \* no two batches of one trace share a millisecond

VARIABLES
    job,        \* the attempt in progress of each batch
    received,   \* a batch's receivedAt, 0 before the API accepted it
    hook        \* batches whose failure hook has not run

ingestVars == <<job, received, hook>>

Steps == {"new", "queued", "resolved", "writing", "published", "applied"}

TableOf(k) == IF k[2] = Root THEN Root ELSE "observations"

IngestInit ==
    /\ job = [b \in Batches |-> [pc |-> "new", write |-> {}, todo |-> {}]]
    /\ received = [b \in Batches |-> 0]
    /\ hook = {}

\* The API stamps a batch and queues it; it may wait for as long as it likes.
Accept(b) ==
    /\ job[b].pc = "new"
    /\ DistinctReceipts =>
         \A c \in Batches : TracesOf(b) \cap TracesOf(c) # {} => received[c] # clock
    /\ job' = [job EXCEPT ![b].pc = "queued"]
    /\ received' = [received EXCEPT ![b] = clock]
    /\ UNCHANGED <<storeVars, hook, mishaps>>

\* Leave out the rows a newer stored row has made stale. The keys are read
\* before the fence is taken.
ResolveRows(b) ==
    /\ job[b].pc = "queued"
    /\ LET stale == {k \in BatchKeys[b] : rows[k].live /\ rows[k].ver > At(received[b])}
           write == BatchKeys[b] \ stale
       IN  job' = [job EXCEPT ![b] = [pc |-> "resolved", write |-> write,
                                      todo |-> {TableOf(k) : k \in write}]]
    /\ UNCHANGED <<storeVars, received, hook, mishaps>>

\* Seeded bug: the references are only inserted in the end, as applied.
MarkNothing(b) ==
    /\ job[b].pc = "resolved"
    /\ TakeShared(b)
    /\ job' = [job EXCEPT ![b].pc = "writing"]
    /\ UNCHANGED <<clock, rows, refs, marked, cutoff, feed, acts, watermark, staged,
                   received, hook, mishaps>>

\* Enter the fence and insert the references as not applied; a reference
\* applied by an earlier attempt stays applied.
MarkPending(b) ==
    /\ job[b].pc = "resolved"
    /\ TakeShared(b)
    /\ refs' = [refs EXCEPT ![b] = IF @ = "applied" THEN @ ELSE "pending"]
    /\ job' = [job EXCEPT ![b].pc = "writing"]
    /\ UNCHANGED <<clock, rows, marked, cutoff, feed, acts, watermark, staged,
                   received, hook, mishaps>>

\* insertTraces and insertObservations run concurrently.
WriteTable(b, table) ==
    /\ job[b].pc = "writing" /\ table \in job[b].todo
    /\ rows' = Put({k \in job[b].write : TableOf(k) = table}, At(received[b]), b, TRUE)
    /\ job' = [job EXCEPT ![b].todo = @ \ {table}]
    /\ UNCHANGED <<clock, refs, marked, cutoff, feed, acts, watermark, staged, shared,
                   exclusive, received, hook, mishaps>>

PublishBatch(b) ==
    /\ job[b].pc = "writing" /\ job[b].todo = {}
    /\ Publish(TracesOf(b), received[b], b)
    /\ job' = [job EXCEPT ![b].pc = "published"]
    /\ UNCHANGED <<clock, rows, refs, marked, cutoff, staged, shared, exclusive,
                   received, hook, mishaps>>

\* Only the durable intent is left to be deleted.
ApplyRefs(b) ==
    /\ job[b].pc = "published"
    /\ refs' = [refs EXCEPT ![b] = "applied"]
    /\ DropShared(b)
    /\ job' = [job EXCEPT ![b].pc = "applied"]
    /\ UNCHANGED <<clock, rows, marked, cutoff, feed, acts, watermark, staged,
                   received, hook, mishaps>>

\* Any step fails, or the process dies: the lock session ends and the queue
\* delivers the batch again.
FailJob(b) ==
    /\ Mishap("failure")
    /\ job[b].pc \in {"writing", "published", "applied"}
    /\ job' = [job EXCEPT ![b] = [pc |-> "queued", write |-> {}, todo |-> {}]]
    /\ hook' = hook \cup {b}
    /\ DropShared(b)
    /\ UNCHANGED <<clock, rows, refs, marked, cutoff, feed, acts, watermark, staged,
                   received>>

\* Seeded bug: any publication of the trace counts.
PublishedBefore(b) == \E t \in TracesOf(b) : feed[t].ver # 0

\* Whether the batch's publication was committed.
PublishedBy(b) == \E t \in Traces : <<t, b>> \in acts

\* The failure hook, concurrent with the next attempt: references of the
\* traces already published by this batch become applied.
SettlePublished(b) ==
    /\ b \in hook
    /\ hook' = hook \ {b}
    /\ refs' = [refs EXCEPT ![b] =
                  IF PublishedBy(b) THEN "applied" ELSE @]
    /\ UNCHANGED <<clock, rows, marked, cutoff, feed, acts, watermark, staged, shared,
                   exclusive, job, received, mishaps>>

IngestStep(b) ==
    \/ ResolveRows(b) \/ MarkPending(b) \/ PublishBatch(b) \/ ApplyRefs(b)
    \/ \E table \in Tables : WriteTable(b, table)

IngestNext ==
    \E b \in Batches : Accept(b) \/ IngestStep(b) \/ FailJob(b) \/ SettlePublished(b)

IngestTypeOK ==
    /\ \A b \in Batches :
         /\ job[b].pc \in Steps
         /\ job[b].write \subseteq BatchKeys[b]
         /\ job[b].todo \subseteq Tables
         /\ b \in shared <=> job[b].pc \in {"writing", "published"}
    /\ received \in [Batches -> 0 .. MaxClock]
    /\ hook \subseteq Batches
=============================================================================
