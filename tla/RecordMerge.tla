---------------------------- MODULE RecordMerge ----------------------------
(***************************************************************************)
(* One stored record of apps/worker/src/processors/ingest.ts, written by   *)
(* several batches.  A ClickHouse row is keyed by the day of its time, so  *)
(* a record that moves to another day leaves a row behind which the batch  *)
(* has to delete (moved-rows.ts).  A LangFuse record arrives as a create   *)
(* and partial updates in different batches and is merged field by field   *)
(* with the stored row under a lock (langfuse-merge.ts); a native, OTLP or *)
(* score row is a whole row and is written without one.                    *)
(*                                                                         *)
(* A batch is its number: batches are numbered in the order they were      *)
(* received, so the number is also receivedAt and the row version.  The    *)
(* value of a field is the number of the batch that sent it, 0 for none.   *)
(***************************************************************************)
EXTENDS Integers, FiniteSets

CONSTANTS
    MaxBatches,   \* the batches that write the record
    Days,         \* the days its time can fall on
    Contents,     \* what a batch may send: [sends, day, priced]
    MaxFailures,  \* bound: attempts of a job that fail
    MaxPurges     \* bound: purges of the recorded field times

ASSUME MergeAssumption ==
    /\ MaxBatches \in Nat \ {0}
    /\ MaxFailures \in Nat
    /\ MaxPurges \in Nat

Batches == 1 .. MaxBatches

(* The fields of a record the rules tell apart.  "usage" stands for the    *)
(* usage and the model a cost is derived from, "name" for every other      *)
(* field a client sends.                                                   *)
Fields == {"time", "name", "usage", "cost", "metadata"}

ASSUME ContentAssumption ==
    Contents \subseteq [sends : SUBSET Fields, day : Days, priced : BOOLEAN]

VARIABLES
    record,   \* "merged" (LangFuse) or "whole"
    utc,      \* whether the ClickHouse server's timezone is UTC
    content,  \* what each batch sends
    table,    \* day -> the row or tombstone stored under that key, or NoStored
    sentAt,   \* field -> batch that last sent it (langfuse_field_provenance)
    lock,     \* the batch whose job holds the merge lock, 0 when free
    job,      \* batch -> its ingest job
    past      \* what happened: overlap, implied, legacy, failures, purges

mergeVars == <<record, utc, content, table, sentAt, lock, job, past>>

----------------------------------------------------------------------------
(* Rows. *)

NoStored == [ver |-> 0]
NoTimes == [f \in Fields |-> -1]
NoCost == [from |-> 0, derived |-> FALSE]

Sends(b) == content[b].sends
Sent(b, f) == IF f \in Sends(b) THEN b ELSE 0

(* mapMergedTrace, mapMergedObservation: the row a batch's events make by  *)
(* themselves.  Without a start time it takes the event's timestamp.       *)
Incoming(b) ==
    [day      |-> content[b].day,
     time     |-> b,
     name     |-> Sent(b, "name"),
     usage    |-> Sent(b, "usage"),
     cost     |-> [NoCost EXCEPT !.from = Sent(b, "cost")],
     metadata |-> [from |-> Sent(b, "metadata"), label |-> FALSE]]

(* enrichObservationCost: usage of a priced model and no cost. *)
Enriched(row) ==
    IF row.cost.from = 0 /\ row.usage # 0 /\ content[row.usage].priced
    THEN [row EXCEPT !.cost = [from |-> row.usage, derived |-> TRUE],
                     !.metadata.label = TRUE]
    ELSE row

(* implicitSentAt: every field with a value; empty metadata is a default.  *)
HasValue(row) ==
    {"time"} \union {f \in {"name", "usage"} : row[f] # 0}
             \union {f \in {"cost"} : row.cost.from # 0}
             \union {f \in {"metadata"} : row.metadata.from # 0 \/ row.metadata.label}

(* Seeded bug: a retry takes its own row for one written before field      *)
(* times were recorded.                                                    *)
StoredSentAtOwnToo(b, stored, times) ==
    [f \in Fields |->
        IF times # NoTimes THEN times[f]
        ELSE IF f \in HasValue(stored.row) THEN stored.ver ELSE 0]

(* mergeByRecency: when each field of the stored row was sent. *)
StoredSentAt(b, stored, times) ==
    [f \in Fields |->
        CASE times # NoTimes -> times[f]
          [] times = NoTimes /\ stored.ver = b -> Sent(b, f)
          [] times = NoTimes /\ stored.ver # b ->
                 IF f \in HasValue(stored.row) THEN stored.ver ELSE 0]

Taken(b, storedAt) == {f \in Sends(b) : b >= storedAt[f]}

(* mergeByRecency: each field from the batch if taken, or as stored. *)
FieldByField(old, new, taken) ==
    LET Of(f) == IF f \in taken THEN new[f] ELSE old[f]
    IN [day  |-> IF "time" \in taken THEN new.day ELSE old.day,
        time |-> Of("time"), name |-> Of("name"), usage |-> Of("usage"),
        cost |-> Of("cost"), metadata |-> Of("metadata")]

(* mergeObservationByRecency: the rules of cost and where it came from. *)
CostRules(old, row, times, taken) ==
    LET storedCostWasDerived == old.cost.from # 0 /\ old.metadata.label
    IN IF "cost" \in taken
       THEN [row |-> [row EXCEPT !.metadata.label = FALSE], times |-> times]
       ELSE IF storedCostWasDerived /\ "usage" \in taken
       THEN [row |-> [row EXCEPT !.cost = NoCost, !.metadata.label = FALSE],
             times |-> [times EXCEPT !["cost"] = 0]]
       ELSE IF storedCostWasDerived
       THEN [row |-> [row EXCEPT !.metadata.label = TRUE], times |-> times]
       ELSE [row |-> row, times |-> times]

Merged(b, stored, times) ==
    LET storedAt == StoredSentAt(b, stored, times)
        taken == Taken(b, storedAt)
        at == [f \in Fields |-> IF f \in taken THEN b ELSE storedAt[f]]
    IN CostRules(stored.row, FieldByField(stored.row, Incoming(b), taken), at, taken)

----------------------------------------------------------------------------
(* The table: one key per day, the latest version, the later insert on a   *)
(* tie.  Reads are FINAL and leave tombstones out.                         *)

Put(tab, day, ver, gone, row) ==
    IF ver >= tab[day].ver
    THEN [tab EXCEPT ![day] = [ver |-> ver, gone |-> gone, row |-> row]]
    ELSE tab

Visible == {d \in Days : table[d] # NoStored /\ ~table[d].gone}

(* listTracesByIds, listObservationsByIds: order by version, limit 1.      *)
Newest == {d \in Visible : \A e \in Visible : table[e].ver <= table[d].ver}

(* listStoredRowKeys: each live row, whichever day it sits under.          *)
StoredRowKeys == {[day |-> d, ver |-> table[d].ver] : d \in Visible}

(* Seeded bug: a row of the same version stays.                            *)
OtherDaysOlder(day, ver) ==
    {k.day : k \in {k \in StoredRowKeys : utc /\ k.day # day /\ k.ver < ver}}

(* otherDays of resolveMovedRows: only a UTC server's days are compared.   *)
OtherDays(day, ver) ==
    {k.day : k \in {k \in StoredRowKeys : utc /\ k.day # day /\ k.ver <= ver}}

----------------------------------------------------------------------------
(* The ingest job of a batch. *)

IdleJob == [pc |-> "waiting"]
Running(b) == job[b].pc \notin {"waiting", "done"}
Settled == \A b \in Batches : job[b].pc = "done"

Resolved(b, row, ver, write, drop, times) ==
    [pc |-> "resolved", row |-> Enriched(row), ver |-> ver, write |-> write,
     drop |-> drop, times |-> times]

NewestVersion(b, ver) == IF ver > b THEN ver ELSE b

(* withLangfuseMergeLocks, mergeLangfuseRows, resolveMovedRows and         *)
(* enrichObservationCosts: only lock holders write the record, so the      *)
(* reads under the lock are one step.                                      *)
MergeFirst(b) ==
    /\ Visible = {}
    /\ job' = [job EXCEPT ![b] =
           Resolved(b, Incoming(b), b, TRUE, {}, [f \in Fields |-> Sent(b, f)])]
    /\ UNCHANGED past

MergeStored(b) ==
    \E d \in Newest :
        LET stored == table[d]
            merged == Merged(b, stored, sentAt)
            ver == NewestVersion(b, stored.ver)
        IN /\ job' = [job EXCEPT ![b] =
                  Resolved(b, merged.row, ver, TRUE,
                           OtherDays(merged.row.day, ver), merged.times)]
           /\ past' = [past EXCEPT !.implied =
                  @ \/ (sentAt = NoTimes /\ stored.ver \notin {b, past.legacy})]

Merge(b) ==
    /\ record = "merged" /\ job[b].pc = "waiting" /\ lock = 0
    /\ lock' = b
    /\ MergeFirst(b) \/ MergeStored(b)
    /\ UNCHANGED <<record, utc, content, table, sentAt>>

(* resolveMovedRows for a whole row: nothing is locked. *)
Stale(b) == \E d \in Visible : table[d].ver > b

Replaced(b) ==
    IF Stale(b) THEN {d \in Visible : table[d].ver < b}
    ELSE OtherDays(content[b].day, b)

Resolve(b) ==
    /\ record = "whole" /\ job[b].pc = "waiting"
    /\ job' = [job EXCEPT ![b] =
           Resolved(b, Incoming(b), b, ~Stale(b), Replaced(b), NoTimes)]
    /\ past' = [past EXCEPT !.overlap = @ \/ \E c \in Batches : Running(c)]
    /\ UNCHANGED <<record, utc, content, table, sentAt, lock>>

(* insertTraces, insertObservations, insertScores with rowEventTs. *)
WriteRow(b) ==
    /\ job[b].pc = "resolved"
    /\ table' = IF job[b].write
                THEN Put(table, job[b].row.day, job[b].ver, FALSE, job[b].row)
                ELSE table
    /\ job' = [job EXCEPT ![b].pc = "written"]
    /\ UNCHANGED <<record, utc, content, sentAt, lock, past>>

(* deleteMovedTraceRows, deleteMovedObservationRows, deleteMovedScoreRows  *)
(* with the version of the row that replaces them.                         *)
DeleteMoved(b) ==
    /\ job[b].pc = "written"
    /\ table' = [d \in Days |->
           IF d \in job[b].drop
           THEN Put(table, d, job[b].ver, TRUE, job[b].row)[d] ELSE table[d]]
    /\ job' = [job EXCEPT ![b] =
           IF record = "merged" THEN [@ EXCEPT !.pc = "cleaned"] ELSE [pc |-> "done"]]
    /\ UNCHANGED <<record, utc, content, sentAt, lock, past>>

(* recordLangfuseFieldSentAt, and the lock is released. *)
RecordTimes(b) ==
    /\ job[b].pc = "cleaned"
    /\ sentAt' = job[b].times
    /\ job' = [job EXCEPT ![b] = [pc |-> "done"]]
    /\ lock' = 0
    /\ UNCHANGED <<record, utc, content, table, past>>

(* A step throws or the worker dies: the session lock is gone and the job  *)
(* is tried again.                                                         *)
Fail(b) ==
    /\ Running(b)
    /\ past.failures < MaxFailures
    /\ past' = [past EXCEPT !.failures = @ + 1]
    /\ job' = [job EXCEPT ![b] = IdleJob]
    /\ lock' = IF lock = b THEN 0 ELSE lock
    /\ UNCHANGED <<record, utc, content, table, sentAt>>

(* purgeLangfuseFieldSentAtOlderThan. *)
Purge ==
    /\ sentAt # NoTimes
    /\ past.purges < MaxPurges
    /\ past' = [past EXCEPT !.purges = @ + 1]
    /\ sentAt' = NoTimes
    /\ UNCHANGED <<record, utc, content, table, lock, job>>

----------------------------------------------------------------------------

(* A record starts unstored, or with the row its first batch wrote before  *)
(* field times were recorded ("legacy").                                   *)
MergeInit ==
    /\ record \in {"merged", "whole"}
    /\ utc \in BOOLEAN
    /\ content \in [Batches -> Contents]
    /\ sentAt = NoTimes
    /\ lock = 0
    /\ \E legacy \in {0, 1} :
          /\ past = [overlap |-> FALSE, implied |-> FALSE, legacy |-> legacy,
                     failures |-> 0, purges |-> 0]
          /\ job = [b \in Batches |-> IF b = legacy THEN [pc |-> "done"] ELSE IdleJob]
          /\ table = IF legacy = 1
                     THEN Put([d \in Days |-> NoStored], content[1].day, 1, FALSE,
                              Enriched(Incoming(1)))
                     ELSE [d \in Days |-> NoStored]

MergeNext ==
    \/ \E b \in Batches :
           \/ Merge(b) \/ Resolve(b) \/ WriteRow(b) \/ DeleteMoved(b)
           \/ RecordTimes(b) \/ Fail(b)
    \/ Purge

MergeSpec == MergeInit /\ [][MergeNext]_mergeVars

----------------------------------------------------------------------------
(* Properties. *)

MergeTypeOK ==
    /\ sentAt \in [Fields -> -1 .. MaxBatches]
    /\ lock \in 0 .. MaxBatches
    /\ \A b \in Batches :
          job[b].pc \in {"waiting", "resolved", "written", "cleaned", "done"}
    /\ \A d \in Days : table[d].ver \in 0 .. MaxBatches
    /\ lock # 0 => record = "merged" /\ Running(lock)

Senders(f) == {b \in Batches : f \in Sends(b)}
LatestOf(s) == CHOOSE b \in s : \A c \in s : c <= b
Latest(f) == IF Senders(f) = {} THEN 0 ELSE LatestOf(Senders(f))

(* What a reader of spec/langfuse-compat-v1.md expects of a record all of  *)
(* whose batches are in: every field from the batch that sent it last, and *)
(* the cost derived from exactly the usage that is stored.                 *)
CostAsExpected(row) ==
    IF Senders("cost") # {} THEN row.cost = [from |-> Latest("cost"), derived |-> FALSE]
    ELSE row.cost = IF row.usage # 0 /\ content[row.usage].priced
                    THEN [from |-> row.usage, derived |-> TRUE] ELSE NoCost

LatestOfEachField(row) ==
    /\ Senders("time") # {} => row.time = Latest("time")
    /\ row.name = Latest("name")
    /\ row.usage = Latest("usage")
    /\ row.metadata.from = Latest("metadata")
    /\ row.metadata.label = row.cost.derived
    /\ CostAsExpected(row)

(* Once every batch of a LangFuse record is stored, whatever order and     *)
(* however often their jobs ran, the record holds each field as the last   *)
(* batch that sent it did.  Excepted are field times purged early, and a   *)
(* job that found the row of another batch whose job failed before it      *)
(* recorded the field times (past.implied).                                *)
MergedAsReceived ==
    Settled /\ record = "merged" /\ utc /\ ~past.implied /\ past.purges = 0
        => \A d \in Visible : LatestOfEachField(table[d].row)

(* The same without the exception for a failed job: ingest.ts says of the  *)
(* merges of one record that "their processing order does not matter".     *)
OrderDoesNotMatter ==
    Settled /\ record = "merged" /\ utc /\ past.purges = 0
        => \A d \in Visible : LatestOfEachField(table[d].row)

(* A record is never lost, whatever fails, and once its batches are        *)
(* settled it is not stored twice: on a UTC server it has one visible row, *)
(* unless two whole-row jobs overlapped.  The row a read returns for a     *)
(* whole-row record is the newest batch's even then, though an older batch *)
(* was written, retried or cleaned up after it.                            *)
OneRow ==
    Settled => /\ Visible # {}
               /\ utc /\ ~past.overlap => Cardinality(Visible) = 1
               /\ record = "whole" =>
                      \A d \in Newest : table[d].ver = MaxBatches /\ table[d].row.time = MaxBatches

=============================================================================
