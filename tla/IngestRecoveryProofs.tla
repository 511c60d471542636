------------------------ MODULE IngestRecoveryProofs ------------------------
(***************************************************************************)
(* Proofs about IngestRecovery, for any number of batches, requests,       *)
(* workers, reconcilers, attempts and faults of every kind, with the       *)
(* object's lock and without it.                                           *)
(*                                                                         *)
(* The inductive invariant says what each process knows about the batch it *)
(* holds.  Its backbone is Covered: a batch that any process, job, receipt *)
(* or reference speaks of is intended, done, in quarantine or retired, and *)
(* Covered never becomes false again.                                      *)
(***************************************************************************)
EXTENDS IngestRecovery, TLAPS

Covered(b) == b \in pending \/ b \in done \/ b \in failedDiag \/ Blocked(b)

Ended(b) == b \in done \/ Blocked(b)

\* What a worker knows: the lock, or that nothing executes raw retention,
\* protects everything between the retention guard and the deletion of the
\* intent; the fence protects the publication until the references are applied.
WorkerInv ==
    \A w \in Workers : wpc[w] # "idle" =>
        /\ wbatch[w] \in Batches /\ Covered(wbatch[w])
        /\ wpc[w] \in WorkerInside /\ wbatch[w] \in Coordinated => lock[wbatch[w]] = w
        /\ wpc[w] \in {"refs", "rows", "receipt", "publish", "apply"}
              => ~ Blocked(wbatch[w])
        /\ wpc[w] \in {"rows", "receipt", "publish", "apply"} => ref[wbatch[w]] >= 0
        /\ wpc[w] \in {"receipt", "publish", "apply"} => wbatch[w] \in done
        /\ wpc[w] = "apply" => wbatch[w] \in published
        /\ wpc[w] \in {"delete", "unlock", "finish"} => Ended(wbatch[w])

\* What a reconciler knows.
ReconInv ==
    \A c \in Recons : rpc[c] # "idle" =>
        /\ rbatch[c] \in Batches /\ Covered(rbatch[c])
        /\ rpc[c] = "clean" => Ended(rbatch[c])
        /\ rpc[c] = "delete" => rbatch[c] \in failedDiag \/ Blocked(rbatch[c])

\* What jobs, requests, receipts and references vouch for.
CoverInv ==
    /\ \A b \in Batches : job[b] # "absent" => Covered(b)
    /\ \A b \in Batches : job[b] = "completed" => Ended(b)
    /\ \A b \in Batches : ref[b] >= 0 => Covered(b)
    /\ published \cup staged \subseteq {b \in Batches : Covered(b)}
    /\ \A r \in Requests : req[r] \in {"intent", "staged", "acked"} => Covered(ReqBatch[r])

\* How the stores agree.
StoreInv ==
    /\ \A b \in Batches : Covered(b) => b \in raw \/ Blocked(b)
    /\ \A r \in Requests : req[r] = "raw" => ReqBatch[r] \in raw \/ Blocked(ReqBatch[r])
    /\ \A b \in Batches : Blocked(b) => b \notin rows
    /\ \A b \in rows : ref[b] >= 0
    /\ \A b \in SnapshotBatches : ref[b] >= 1 => b \in published \cup pruned \/ Blocked(b)
    /\ \A b \in Batches \ Coordinated : intent[b] = "none"

IInv == TypeOK /\ WorkerInv /\ ReconInv /\ CoverInv /\ StoreInv

-----------------------------------------------------------------------------

LEMMA InitIInv == Init => IInv
BY BatchAssumption, BoundAssumption
   DEF Init, IInv, TypeOK, WorkerInv, ReconInv, CoverInv, StoreInv, Covered, Ended,
       Blocked, WorkerSteps, ReconSteps, WorkerInside, ReconInside, SnapshotBatches

\* An API request keeps the inductive invariant.
LEMMA RequestKeeps ==
    ASSUME IInv, NEW r \in Requests, RequestNext(r) PROVE IInv'
<1> USE BatchAssumption DEF IInv, TypeOK, WorkerInv, ReconInv, CoverInv, StoreInv, Covered,
       Ended, Blocked, SnapshotBatches, ReqStep, apiUnchanged, queueVars, clickVars,
       workerVars, reconVars, storageVars, pgVars
<1>1. CASE ClaimReceipt(r) BY <1>1 DEF ClaimReceipt
<1>2. CASE PutRaw(r) BY <1>2 DEF PutRaw
<1>3. CASE PutPending(r) BY <1>3 DEF PutPending
<1>4. CASE MarkStaged(r) BY <1>4 DEF MarkStaged
<1>5. CASE EnqueueAndAck(r) BY <1>5 DEF EnqueueAndAck, Enqueue
<1>6. CASE RequestDies(r) BY <1>6 DEF RequestDies
<1>. QED BY <1>1, <1>2, <1>3, <1>4, <1>5, <1>6 DEF RequestNext

\* BullMQ, the failure hook and retention keep it.
LEMMA BatchKeeps ==
    ASSUME IInv, NEW b \in Batches, QueueNext(b) \/ SettleHook(b) \/ RetentionNext(b)
    PROVE IInv'
<1> USE BatchAssumption, BoundAssumption
    DEF IInv, TypeOK, WorkerInv, ReconInv, CoverInv, StoreInv, Covered, Ended, Blocked,
       SnapshotBatches, queueVars, clickVars, workerVars, reconVars, storageVars, pgVars
<1>1. CASE RedisLoss(b) BY <1>1 DEF RedisLoss, Fault
<1>2. CASE RemoveCompleted(b) BY <1>2 DEF RemoveCompleted
<1>3. CASE LoseJobLock(b) BY <1>3 DEF LoseJobLock, Fault
<1>4. CASE Stalled(b) BY <1>4 DEF Stalled
<1>5. CASE SettleHook(b) BY <1>5 DEF SettleHook, MergeRef
<1>6. CASE RetentionExpiresRows(b) BY <1>6 DEF RetentionExpiresRows, retentionUnchanged
<1>12. CASE RetentionPrunesFeed(b)
      BY <1>12 DEF RetentionPrunesFeed, FenceFree, retentionUnchanged
<1>7. CASE RetentionCrosses(b)
      BY <1>7 DEF RetentionCrosses, retentionUnchanged, Retirable, WorkerInside
<1>8. CASE RetentionTombstones(b)
      BY <1>8 DEF RetentionTombstones, retentionUnchanged, MergeRef
<1>9. CASE RetentionDropsDiag(b) BY <1>9 DEF RetentionDropsDiag, retentionUnchanged
<1>10. CASE RetentionDeletesRaw(b) BY <1>10 DEF RetentionDeletesRaw, retentionUnchanged
<1>11. CASE RetentionCompletes(b) BY <1>11 DEF RetentionCompletes, retentionUnchanged
<1>. QED
  BY <1>1, <1>2, <1>3, <1>4, <1>5, <1>6, <1>7, <1>8, <1>9, <1>10, <1>11, <1>12
  DEF QueueNext, RetentionNext

\* A worker keeps it.
LEMMA WorkerKeeps ==
    ASSUME IInv, NEW w \in Workers, WorkerNext(w) PROVE IInv'
<1> USE BatchAssumption, BoundAssumption
    DEF IInv, TypeOK, WorkerInv, ReconInv, CoverInv, StoreInv, Covered, Ended, Blocked,
       SnapshotBatches, WorkerSteps, WorkerInside, WStep, workerUnchanged, queueVars,
       clickVars, reconVars, storageVars, pgVars
<1>1. ASSUME NEW b \in Batches, Take(w, b) PROVE IInv' BY <1>1 DEF Take
<1>2. CASE WLock(w) BY <1>2 DEF WLock, TakeLock
<1>3. CASE WCheck(w) BY <1>3 DEF WCheck
<1>4. CASE WRefs(w) BY <1>4 DEF WRefs, MergeRef
<1>5. CASE WRows(w) BY <1>5 DEF WRows
<1>6. CASE WReceipt(w) BY <1>6 DEF WReceipt
<1>7. CASE WPublish(w) BY <1>7 DEF WPublish
<1>8. CASE WApply(w) BY <1>8 DEF WApply, MergeRef
<1>9. CASE WDelete(w) BY <1>9 DEF WDelete
<1>10. CASE WUnlock(w) BY <1>10 DEF WUnlock
<1>11. CASE WFinish(w) BY <1>11 DEF WFinish
<1>12. CASE WFail(w) BY <1>12 DEF WFail, WLeave, Fault, LastAttempt
<1>13. CASE WCrash(w) BY <1>13 DEF WCrash, WLeave, Fault
<1>. QED
  BY <1>1, <1>2, <1>3, <1>4, <1>5, <1>6, <1>7, <1>8, <1>9, <1>10, <1>11, <1>12, <1>13
  DEF WorkerNext

\* A reconciler keeps it.
LEMMA ReconKeeps ==
    ASSUME IInv, NEW c \in Recons, ReconNext(c) PROVE IInv'
<1> USE BatchAssumption
    DEF IInv, TypeOK, WorkerInv, ReconInv, CoverInv, StoreInv, Covered, Ended, Blocked,
       SnapshotBatches, ReconSteps, ReconInside, CStep, reconUnchanged,
       workerVars, pgVars
<1>1. ASSUME NEW b \in Batches, Examine(c, b) PROVE IInv' BY <1>1 DEF Examine
<1>2. CASE CLock(c) BY <1>2 DEF CLock, TakeLock
<1>3. CASE CCheck(c) BY <1>3 DEF CCheck
<1>4. CASE CGetJob(c) BY <1>4 DEF CGetJob
<1>5. CASE CEnqueue(c) BY <1>5 DEF CEnqueue
<1>6. CASE CClean(c) BY <1>6 DEF CClean
<1>7. CASE CSettle(c)
  <2>1. CASE rbatch[c] \in published BY <1>7, <2>1 DEF CSettle, MergeRef
  <2>2. CASE rbatch[c] \notin published BY <1>7, <2>2 DEF CSettle
  <2>. QED BY <2>1, <2>2
<1>8. CASE CReceipt(c) BY <1>8 DEF CReceipt
<1>9. CASE CRefs(c) BY <1>9 DEF CRefs
<1>10. CASE CRetry(c) BY <1>10 DEF CRetry
<1>11. CASE CDiag(c) BY <1>11 DEF CDiag
<1>12. CASE CDelete(c) BY <1>12 DEF CDelete
<1>13. CASE CUnlock(c) BY <1>13 DEF CUnlock, CLeave
<1>14. CASE CFail(c) BY <1>14 DEF CFail, CLeave, Fault
<1>. QED
  BY <1>1, <1>2, <1>3, <1>4, <1>5, <1>6, <1>7, <1>8, <1>9, <1>10, <1>11, <1>12, <1>13,
     <1>14 DEF ReconNext

LEMMA StepKeeps == ASSUME IInv, [Next]_vars PROVE IInv'
<1>1. CASE Next BY <1>1, RequestKeeps, WorkerKeeps, ReconKeeps, BatchKeeps DEF Next
<1>2. CASE UNCHANGED vars
  BY <1>2 DEF vars, ingestVars, storageVars, queueVars, clickVars, pgVars, workerVars,
     reconVars, IInv, TypeOK, WorkerInv, ReconInv, CoverInv, StoreInv, Covered, Ended,
     Blocked
<1>. QED BY <1>1, <1>2

THEOREM Inductive == Spec => []IInv
BY InitIInv, StepKeeps, PTL DEF Spec

-----------------------------------------------------------------------------

\* Every variable keeps its type, for every instance.
THEOREM TypeCorrect == Spec => []TypeOK
BY Inductive, PTL DEF IInv

\* Queued and intended work always finds its raw batch: no interleaving of
\* requests, retries, workers, reconcilers and retention lets a job outlive
\* the object it names, except one retired on purpose.
THEOREM RawBehindWork == Spec => []WorkHasRaw
<1>1. IInv => WorkHasRaw
  BY DEF IInv, CoverInv, StoreInv, WorkHasRaw, Covered
<1>. QED BY <1>1, Inductive, PTL

\* Rows whose batch is not published are covered by a pending reference, so
\* an evaluator never reads them under the earlier publication, unless
\* retention pruned a publication of the batch and it was not published since.
THEOREM UnpublishedRowsBlock == Spec => []UnpublishedRowsBlockFeed
<1>1. IInv => UnpublishedRowsBlockFeed
  BY DEF IInv, TypeOK, StoreInv, UnpublishedRowsBlockFeed, SnapshotBatches
<1>. QED BY <1>1, Inductive, PTL

\* No delayed or recovered job resurrects the rows of a retired object.
THEOREM NoResurrection == Spec => []RetiredStaysGone
<1>1. IInv => RetiredStaysGone
  BY DEF IInv, StoreInv, RetiredStaysGone
<1>. QED BY <1>1, Inductive, PTL

-----------------------------------------------------------------------------
(* The refinement of DurableBatch.  Acked is what Promise calls acked.     *)

Acked == {ReqBatch[r] : r \in {q \in Requests : req[q] = "acked"}}

Statuses == [b \in Batches |-> Status(b)]

LEMMA InitPromise == Init => Promise!Init
BY BatchAssumption DEF Init, Promise!Init, Status, Blocked

\* A step that changes neither the lists nor the requests is a stutter.
LEMMA Stutter ==
    ASSUME pending' = pending, done' = done, failedDiag' = failedDiag,
           intent' = intent, req' = req
    PROVE  UNCHANGED <<Statuses, Acked>>
BY DEF Statuses, Acked, Status, Blocked

\* A step that changes the status of one batch is a move of the promise.
LEMMA OneMove ==
    ASSUME NEW b \in Batches, NEW from, NEW to, Status(b) \in from, Status(b)' = to,
           \A x \in Batches \ {b} : Status(x)' = Status(x), req' = req
    PROVE  Promise!Move(b, from, to)
<1>1. Statuses' = [Statuses EXCEPT ![b] = to] BY DEF Statuses
<1>2. Statuses[b] \in from BY DEF Statuses
<1>. QED BY <1>1, <1>2 DEF Promise!Move, Statuses

\* A step that only acknowledges a covered batch is an acknowledgement.
LEMMA OneAck ==
    ASSUME IInv, NEW r \in Requests, req' = [req EXCEPT ![r] = "acked"],
           Covered(ReqBatch[r]), UNCHANGED Statuses
    PROVE  Promise!Ack(ReqBatch[r])
<1>1. ReqBatch[r] \in Batches BY BatchAssumption
<1>2. Status(ReqBatch[r]) # "unseen" BY <1>1 DEF Status, Covered
<1>3. Acked' = Acked \cup {ReqBatch[r]} BY DEF Acked, IInv, TypeOK
<1>. QED BY <1>1, <1>2, <1>3 DEF Promise!Ack, Statuses, Acked

\* The requests: the intent is the moment a batch is promised.
LEMMA RequestImplements ==
    ASSUME IInv, NEW r \in Requests, RequestNext(r)
    PROVE  [Promise!Next]_<<Statuses, Acked>>
<1> DEFINE b == ReqBatch[r]
<1>1. b \in Batches BY BatchAssumption
<1>2. CASE ClaimReceipt(r)
  <2>1. UNCHANGED Statuses
    BY <1>2 DEF ClaimReceipt, ReqStep, apiUnchanged, clickVars, Statuses, Status, Blocked
  <2>2. CASE b \in staged
    <3>1. Covered(b) /\ req' = [req EXCEPT ![r] = "acked"]
      BY <1>2, <2>2 DEF ClaimReceipt, ReqStep, IInv, CoverInv
    <3>. QED BY <1>1, <2>1, <3>1, OneAck DEF Promise!Next
  <2>3. CASE b \notin staged
    BY <1>2, <2>1, <2>3 DEF ClaimReceipt, ReqStep, Acked, IInv, TypeOK
  <2>. QED BY <2>2, <2>3
<1>3. CASE EnqueueAndAck(r)
  <2>1. UNCHANGED Statuses
    BY <1>3 DEF EnqueueAndAck, apiUnchanged, clickVars, Statuses, Status, Blocked
  <2>2. Covered(b) /\ req' = [req EXCEPT ![r] = "acked"]
    BY <1>3 DEF EnqueueAndAck, ReqStep, IInv, CoverInv
  <2>. QED BY <1>1, <2>1, <2>2, OneAck DEF Promise!Next
<1>4. CASE PutPending(r)
  <2>1. Acked' = Acked BY <1>4 DEF PutPending, ReqStep, Acked, IInv, TypeOK
  <2>2. \A x \in Batches \ {b} : Status(x)' = Status(x)
    BY <1>4 DEF PutPending, apiUnchanged, clickVars, Status, Blocked
  <2>3. CASE Status(b) = "unseen"
    <3>1. Status(b)' = "intended"
      BY <1>4, <2>3 DEF PutPending, apiUnchanged, clickVars, Status, Blocked
    <3>2. Statuses' = [Statuses EXCEPT ![b] = "intended"] /\ Statuses[b] = "unseen"
      BY <1>1, <2>2, <2>3, <3>1 DEF Statuses
    <3>. QED
      BY <1>1, <2>1, <3>2 DEF Promise!Next, Promise!Intend, Promise!Move, Statuses, Acked
  <2>4. CASE Status(b) # "unseen"
    <3>1. Status(b)' = Status(b)
      BY <1>4, <2>4 DEF PutPending, apiUnchanged, clickVars, Status, Blocked
    <3>. QED BY <2>1, <2>2, <3>1 DEF Statuses
  <2>. QED BY <2>3, <2>4
<1>5. CASE PutRaw(r) \/ MarkStaged(r) \/ RequestDies(r)
  <2>1. UNCHANGED Statuses
    BY <1>5 DEF PutRaw, MarkStaged, RequestDies, apiUnchanged, clickVars, Statuses,
       Status, Blocked
  <2>2. Acked' = Acked
    BY <1>5 DEF PutRaw, MarkStaged, RequestDies, ReqStep, Acked, IInv, TypeOK
  <2>. QED BY <2>1, <2>2
<1>. QED BY <1>2, <1>3, <1>4, <1>5 DEF RequestNext

\* The worker: the rows are the moment a batch is materialised, and the intent
\* goes only after it.
LEMMA WorkerImplements ==
    ASSUME IInv, NEW w \in Workers, WorkerNext(w)
    PROVE  [Promise!Next]_<<Statuses, Acked>>
<1>1. CASE WRows(w)
  <2>1. PICK b \in Batches : b = wbatch[w] /\ Covered(b) /\ ~ Blocked(b)
    BY <1>1 DEF WRows, WStep, IInv, WorkerInv
  <2>2. req' = req BY <1>1 DEF WRows, WStep, workerUnchanged
  <2>3. CASE b \in done
    BY <1>1, <2>1, <2>2, <2>3, Stutter DEF WRows, WStep, workerUnchanged
  <2>4. CASE b \notin done
    <3>1. Status(b) \in {"intended", "quarantined"}
      BY <2>1, <2>4 DEF Status, Covered
    <3>2. Status(b)' = "materialized" /\ \A x \in Batches \ {b} : Status(x)' = Status(x)
      BY <1>1, <2>1 DEF WRows, WStep, workerUnchanged, Status, Blocked
    <3>3. Promise!Move(b, {"intended", "quarantined"}, "materialized")
      BY <2>2, <3>1, <3>2, OneMove
    <3>. QED BY <3>3 DEF Promise!Next, Promise!Materialize
  <2>. QED BY <2>3, <2>4
<1>2. CASE WDelete(w)
  <2>1. UNCHANGED Statuses
    BY <1>2 DEF WDelete, WStep, workerUnchanged, clickVars, Statuses, Status, Blocked,
       Ended, IInv, WorkerInv
  <2>2. UNCHANGED Acked BY <1>2 DEF WDelete, WStep, workerUnchanged, Acked
  <2>. QED BY <2>1, <2>2
<1>3. ASSUME NEW x \in Batches, Take(w, x) PROVE UNCHANGED <<Statuses, Acked>>
  BY <1>3, Stutter DEF Take, workerUnchanged, clickVars
<1>4. CASE WLock(w) \/ WCheck(w) \/ WRefs(w) \/ WReceipt(w) \/ WPublish(w) \/ WApply(w)
             \/ WUnlock(w) \/ WFinish(w) \/ WFail(w) \/ WCrash(w)
  BY <1>4, Stutter DEF WLock, WCheck, WRefs, WReceipt, WPublish, WApply, WUnlock, WFinish,
     WFail, WCrash, WLeave, WStep, workerUnchanged, clickVars, storageVars
<1>. QED BY <1>1, <1>2, <1>3, <1>4 DEF WorkerNext

\* The reconciler: the diagnostic is the moment a batch is quarantined, and the
\* intent goes only after it.
LEMMA ReconImplements ==
    ASSUME IInv, NEW c \in Recons, ReconNext(c)
    PROVE  [Promise!Next]_<<Statuses, Acked>>
<1>1. CASE CDiag(c)
  <2>1. PICK b \in Batches : b = rbatch[c] /\ Covered(b)
    BY <1>1 DEF CDiag, CStep, IInv, ReconInv
  <2>2. req' = req BY <1>1 DEF CDiag, CStep, reconUnchanged
  <2>3. CASE Status(b) = "intended"
    <3>1. Status(b)' = "quarantined" /\ \A x \in Batches \ {b} : Status(x)' = Status(x)
      BY <1>1, <2>1, <2>3 DEF CDiag, CStep, reconUnchanged, Status, Blocked
    <3>2. Promise!Move(b, {"intended"}, "quarantined")
      BY <2>2, <2>3, <3>1, OneMove
    <3>. QED BY <3>2 DEF Promise!Next, Promise!Quarantine
  <2>4. CASE Status(b) # "intended"
    <3>1. \A x \in Batches : Status(x)' = Status(x)
      BY <1>1, <2>1, <2>4 DEF CDiag, CStep, reconUnchanged, Status, Blocked, Covered
    <3>. QED BY <2>2, <3>1 DEF Statuses, Acked
  <2>. QED BY <2>3, <2>4
<1>2. CASE CClean(c) \/ CDelete(c)
  <2>1. PICK b \in Batches : b = rbatch[c] /\ (Ended(b) \/ b \in failedDiag)
    BY <1>2 DEF CClean, CDelete, CStep, IInv, ReconInv, Ended
  <2>2. pending' = pending \ {b} BY <1>2, <2>1 DEF CClean, CDelete
  <2>3. \A x \in Batches : Status(x)' = Status(x)
    BY <1>2, <2>1, <2>2 DEF CClean, CDelete, CStep, reconUnchanged, Status, Blocked, Ended
  <2>4. req' = req BY <1>2 DEF CClean, CDelete, CStep, reconUnchanged
  <2>. QED BY <2>3, <2>4 DEF Statuses, Acked
<1>3. ASSUME NEW x \in Batches, Examine(c, x) PROVE UNCHANGED <<Statuses, Acked>>
  BY <1>3, Stutter DEF Examine, reconUnchanged
<1>4. CASE CLock(c) \/ CCheck(c) \/ CGetJob(c) \/ CEnqueue(c) \/ CSettle(c) \/ CReceipt(c)
             \/ CRefs(c) \/ CRetry(c) \/ CUnlock(c) \/ CFail(c)
  BY <1>4, Stutter DEF CLock, CCheck, CGetJob, CEnqueue, CSettle, CReceipt, CRefs, CRetry,
     CUnlock, CFail, CLeave, CStep, reconUnchanged
<1>. QED BY <1>1, <1>2, <1>3, <1>4 DEF ReconNext

\* The queue only moves work; retention retires only what ended.
LEMMA BatchImplements ==
    ASSUME IInv, NEW b \in Batches, QueueNext(b) \/ SettleHook(b) \/ RetentionNext(b)
    PROVE  [Promise!Next]_<<Statuses, Acked>>
<1>1. CASE RetentionCrosses(b)
  <2>1. Status(b) \in {"materialized", "quarantined"}
    BY <1>1 DEF RetentionCrosses, Retirable, Status, Blocked, IInv, CoverInv, Covered
  <2>2. Status(b)' = "retired" /\ \A x \in Batches \ {b} : Status(x)' = Status(x)
    BY <1>1 DEF RetentionCrosses, retentionUnchanged, Status, Blocked, IInv, TypeOK
  <2>3. req' = req BY <1>1 DEF RetentionCrosses, retentionUnchanged
  <2>4. Promise!Move(b, {"materialized", "quarantined"}, "retired")
    BY <2>1, <2>2, <2>3, OneMove
  <2>. QED BY <2>4 DEF Promise!Next, Promise!Retire
<1>2. CASE RetentionDropsDiag(b) \/ RetentionCompletes(b)
  <2>1. \A x \in Batches : Status(x)' = Status(x)
    BY <1>2 DEF RetentionDropsDiag, RetentionCompletes, retentionUnchanged, Status,
       Blocked, IInv, TypeOK
  <2>2. req' = req
    BY <1>2 DEF RetentionDropsDiag, RetentionCompletes, retentionUnchanged
  <2>. QED BY <2>1, <2>2 DEF Statuses, Acked
<1>3. CASE QueueNext(b) \/ SettleHook(b) \/ RetentionExpiresRows(b)
             \/ RetentionPrunesFeed(b) \/ RetentionTombstones(b) \/ RetentionDeletesRaw(b)
  BY <1>3, Stutter DEF QueueNext, RedisLoss, RemoveCompleted, LoseJobLock, Stalled,
     SettleHook, RetentionExpiresRows, RetentionPrunesFeed, RetentionTombstones,
     RetentionDeletesRaw, retentionUnchanged,
     storageVars, clickVars
<1>. QED BY <1>1, <1>2, <1>3 DEF RetentionNext

\* The whole ingest path, whatever is lost, retried, paused or killed, never
\* forgets a batch whose intent was written, and acknowledges no other.
THEOREM Refinement == Spec => NeverForgotten
<1>1. IInv /\ [Next]_vars => [Promise!Next]_<<Statuses, Acked>>
  <2> SUFFICES ASSUME IInv, [Next]_vars PROVE [Promise!Next]_<<Statuses, Acked>>
    OBVIOUS
  <2>1. CASE Next
    BY <2>1, RequestImplements, WorkerImplements, ReconImplements, BatchImplements DEF Next
  <2>2. CASE UNCHANGED vars
    BY <2>2, Stutter DEF vars, ingestVars, storageVars, clickVars
  <2>. QED BY <2>1, <2>2
<1>2. Init /\ [][Next]_vars /\ []IInv => Promise!Init /\ [][Promise!Next]_<<Statuses, Acked>>
  BY <1>1, InitPromise, PTL
<1>. QED
  BY <1>2, Inductive, PTL DEF Spec, NeverForgotten, Promise!Spec, Statuses, Acked
=============================================================================
