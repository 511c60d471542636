-------------------------- MODULE RawRetentionProofs --------------------------
(***************************************************************************)
(* Proofs about RawRetention, for any number of batches, requests,         *)
(* workers, reconcilers and sweeps, any bounds, and faults and mishaps of  *)
(* every kind.                                                             *)
(***************************************************************************)
EXTENDS RawRetention, TLAPS

-----------------------------------------------------------------------------
(* The inductive invariant.                                                *)

\* TypeOK, with the lock and the states that retention adds.
IngestTypes ==
    /\ raw \subseteq Batches /\ pending \subseteq Batches
    /\ failedDiag \subseteq Batches
    /\ job \in [Batches -> {"absent", "waiting", "active", "completed", "failed"}]
    /\ owner \in [Batches -> Workers \cup {Nobody}]
    /\ attempts \in [Batches -> Nat]
    /\ stalls \in [Batches -> 0..MaxStalls]
    /\ ref \in [Batches -> -1..2]
    /\ rows \subseteq Batches
    /\ req \in [Requests -> {"idle", "claimed", "raw", "intent", "staged", "acked", "dead"}]
    /\ wpc \in [Workers -> WorkerSteps]
    /\ wbatch \in [Workers -> Batches \cup {Nobody}]
    /\ rpc \in [Recons -> ReconSteps]
    /\ rbatch \in [Recons -> Batches \cup {Nobody}]
    /\ hooks \subseteq Batches

\* Ingest is inside the object's lock, and has seen it open.
IngestKnows ==
    /\ \A w \in Workers : wpc[w] # "idle" =>
         /\ wbatch[w] \in Batches
         /\ wpc[w] \in WorkerInside => lock[wbatch[w]] = w
         /\ wpc[w] \in {"refs", "rows", "receipt", "publish", "apply"} => ~ Blocked(wbatch[w])
    /\ \A c \in Recons : rpc[c] # "idle" =>
         /\ rbatch[c] \in Batches
         /\ rpc[c] \in ReconInside => lock[rbatch[c]] = c
         /\ rpc[c] \in {"getJob", "enqueue", "settle", "receipt", "refs", "retry", "diag"} =>
              ~ Blocked(rbatch[c])

\* One sweep executes at a time, and only it moves an intent it has read.
Executing(s) == spc[s] \in LockedSteps \cup {"lock"}
Claimed == {"markers", "tombstones", "dropDiag", "recheckPending", "recheckQueue", "delete",
            "complete"}

SweepKnows(s) ==
    LET b == sbatch[s] IN
    /\ spc[s] # "idle" => b \in Batches /\ Old(b)
    /\ spc[s] \in {"pJob", "pRefs", "pVisible", "pInsert"} => seen[s] \in Classes
    /\ Executing(s) => execLock = s
    /\ spc[s] \in LockedSteps => lock[b] = s
    /\ Executing(s) /\ spc[s] # "unlock" =>
         IF spc[s] \in Claimed THEN intent[b] = "executing"
                               ELSE intent[b] \in {"prepared", "executing"}
    /\ Executing(s) /\ spc[s] # "unlock" /\ seen[s] = "executing" => intent[b] = "executing"
    /\ spc[s] = "converge" => intent[b] = "executing" /\ b \notin raw
    /\ spc[s] = "claim" => b \notin rows
    /\ spc[s] \in {"pending", "queue", "diag", "refs", "visible", "claim"} => b \in raw
    /\ spc[s] \in Claimed \ {"markers"} => b \in marker
    /\ spc[s] \in Claimed \ {"markers", "tombstones"} => ref[b] = 2
    /\ spc[s] \in {"recheckPending", "recheckQueue", "delete", "complete"} => b \notin failedDiag
    /\ spc[s] = "complete" => b \notin raw

\* An object with an intent is old; behind the boundary it has no rows.
IntentKnows ==
    \A b \in Batches :
        /\ intent[b] # "none" => Old(b)
        /\ Blocked(b) => b \notin rows

EvidenceInv ==
    /\ IngestTypes /\ SweepTypeOK
    /\ IngestKnows /\ IntentKnows /\ GoneWithEvidence
    /\ \A s \in Sweeps : SweepKnows(s)

LEMMA InitEvidence == SweepInit => EvidenceInv
BY BatchAssumption, BoundAssumption, SweepAssumption
   DEF SweepInit, Init, EvidenceInv, IngestTypes, SweepTypeOK, IngestKnows, IntentKnows,
       GoneWithEvidence, SweepKnows, Executing, Blocked, WorkerSteps, ReconSteps, PrepareSteps,
       LockedSteps, Claimed, Classes

-----------------------------------------------------------------------------
(* Ingest, beside the sweeps.                                              *)

LEMMA RequestEvidence ==
    ASSUME EvidenceInv, NEW r \in Requests, RequestNext(r), UNCHANGED sweepVars PROVE EvidenceInv'
<1> USE BatchAssumption, BoundAssumption, SweepAssumption
    DEF EvidenceInv, IngestTypes, SweepTypeOK, IngestKnows, IntentKnows, GoneWithEvidence,
        SweepKnows, Executing, Old, Blocked, ReqStep, apiUnchanged, queueVars, clickVars,
        workerVars, reconVars, storageVars, pgVars, sweepVars
<1>1. CASE ClaimReceipt(r) BY <1>1 DEF ClaimReceipt
<1>2. CASE PutRaw(r) BY <1>2 DEF PutRaw
<1>3. CASE PutPending(r) BY <1>3 DEF PutPending
<1>4. CASE MarkStaged(r) BY <1>4 DEF MarkStaged
<1>5. CASE EnqueueAndAck(r) BY <1>5 DEF EnqueueAndAck, Enqueue
<1>6. CASE RequestDies(r) BY <1>6 DEF RequestDies
<1> QED BY <1>1, <1>2, <1>3, <1>4, <1>5, <1>6 DEF RequestNext

LEMMA BatchEvidence ==
    ASSUME EvidenceInv, NEW b \in Batches,
           QueueNext(b) \/ SettleHook(b) \/ RetentionExpiresRows(b)
               \/ RetentionPrunesFeed(b),
           UNCHANGED sweepVars
    PROVE  EvidenceInv'
<1> USE BatchAssumption, BoundAssumption, SweepAssumption
    DEF EvidenceInv, IngestTypes, SweepTypeOK, IngestKnows, IntentKnows, GoneWithEvidence,
        SweepKnows, Executing, Old, Blocked, queueVars, clickVars, workerVars, reconVars,
        storageVars, pgVars, sweepVars
<1>1. CASE RedisLoss(b) BY <1>1 DEF RedisLoss, Fault
<1>2. CASE RemoveCompleted(b) BY <1>2 DEF RemoveCompleted
<1>3. CASE LoseJobLock(b) BY <1>3 DEF LoseJobLock, Fault
<1>4. CASE Stalled(b) BY <1>4 DEF Stalled
<1>5. CASE SettleHook(b) BY <1>5 DEF SettleHook, MergeRef
<1>6. CASE RetentionExpiresRows(b) BY <1>6 DEF RetentionExpiresRows, retentionUnchanged
<1>7. CASE RetentionPrunesFeed(b) BY <1>7 DEF RetentionPrunesFeed, retentionUnchanged
<1> QED BY <1>1, <1>2, <1>3, <1>4, <1>5, <1>6, <1>7 DEF QueueNext

LEMMA WorkerEvidence ==
    ASSUME EvidenceInv, NEW w \in Workers, WorkerNext(w), UNCHANGED sweepVars PROVE EvidenceInv'
<1> USE BatchAssumption, BoundAssumption, SweepAssumption
    DEF EvidenceInv, IngestTypes, SweepTypeOK, IngestKnows, IntentKnows, GoneWithEvidence,
        SweepKnows, Executing, Old, Blocked, WorkerSteps, WorkerInside, WStep, workerUnchanged,
        queueVars, clickVars, workerVars, reconVars, storageVars, pgVars, sweepVars
<1>1. ASSUME NEW b \in Batches, Take(w, b) PROVE EvidenceInv' BY <1>1 DEF Take
<1>2. CASE WLock(w)
  <2>1. /\ lock[wbatch[w]] = Nobody /\ lock' = [lock EXCEPT ![wbatch[w]] = w]
        /\ wbatch[w] \in Batches /\ wpc[w] = "lock" /\ wpc' = [wpc EXCEPT ![w] = "check"]
        /\ UNCHANGED wbatch
    BY <1>2 DEF WLock, TakeLock, WStep
  <2>2. IngestKnows'
    BY <1>2, <2>1 DEF WLock, IngestKnows, Blocked
  <2>3. IngestTypes' /\ SweepTypeOK' /\ IntentKnows' /\ GoneWithEvidence'
    BY <1>2, <2>1 DEF WLock
  <2>4. \A s \in Sweeps : SweepKnows(s)'
    BY <1>2, <2>1 DEF WLock, SweepKnows
  <2> QED BY <2>2, <2>3, <2>4
<1>3. CASE WCheck(w) BY <1>3 DEF WCheck
<1>4. CASE WRefs(w) BY <1>4 DEF WRefs, MergeRef
<1>5. CASE WRows(w) BY <1>5 DEF WRows, LockedSteps
<1>6. CASE WReceipt(w) BY <1>6 DEF WReceipt
<1>7. CASE WPublish(w) BY <1>7 DEF WPublish
<1>8. CASE WApply(w) BY <1>8 DEF WApply, MergeRef
<1>9. CASE WDelete(w) BY <1>9 DEF WDelete
<1>10. CASE WUnlock(w) BY <1>10 DEF WUnlock
<1>11. CASE WFinish(w) BY <1>11 DEF WFinish
<1>12. CASE WFail(w)
  <2>1. attempts' \in [Batches -> Nat] /\ stalls' = stalls
    BY <1>12 DEF WFail
  <2>2. /\ job' \in [Batches -> {"absent", "waiting", "active", "completed", "failed"}]
        /\ owner' \in [Batches -> Workers \cup {Nobody}]
        /\ hooks' \subseteq Batches
    BY <1>12 DEF WFail, WLeave
  <2>3. WLeave(w) BY <1>12 DEF WFail
  <2> QED BY <2>1, <2>2, <2>3 DEF WLeave
<1>13. CASE WCrash(w) BY <1>13 DEF WCrash, WLeave, Fault
<1> QED
  BY <1>1, <1>2, <1>3, <1>4, <1>5, <1>6, <1>7, <1>8, <1>9, <1>10, <1>11, <1>12, <1>13
  DEF WorkerNext

LEMMA ReconEvidence ==
    ASSUME EvidenceInv, NEW c \in Recons, ReconNext(c), UNCHANGED sweepVars PROVE EvidenceInv'
<1> USE BatchAssumption, BoundAssumption, SweepAssumption
    DEF EvidenceInv, IngestTypes, SweepTypeOK, IngestKnows, IntentKnows, GoneWithEvidence,
        SweepKnows, Executing, Old, Blocked, ReconSteps, ReconInside, CStep, reconUnchanged,
        workerVars, pgVars, sweepVars
<1>1. ASSUME NEW b \in Batches, Examine(c, b) PROVE EvidenceInv' BY <1>1 DEF Examine
<1>2. CASE CLock(c)
  <2>1. /\ lock[rbatch[c]] = Nobody /\ lock' = [lock EXCEPT ![rbatch[c]] = c]
        /\ rbatch[c] \in Batches /\ rpc[c] = "lock" /\ rpc' = [rpc EXCEPT ![c] = "check"]
        /\ UNCHANGED rbatch
    BY <1>2 DEF CLock, TakeLock, CStep
  <2>2. IngestKnows'
    BY <1>2, <2>1 DEF CLock, IngestKnows, Blocked
  <2>3. IngestTypes' /\ SweepTypeOK' /\ IntentKnows' /\ GoneWithEvidence'
    BY <1>2, <2>1 DEF CLock
  <2>4. \A s \in Sweeps : SweepKnows(s)'
    BY <1>2, <2>1 DEF CLock, SweepKnows
  <2> QED BY <2>2, <2>3, <2>4
<1>3. CASE CCheck(c) BY <1>3 DEF CCheck
<1>4. CASE CGetJob(c) BY <1>4 DEF CGetJob
<1>5. CASE CEnqueue(c) BY <1>5 DEF CEnqueue
<1>6. CASE CClean(c) BY <1>6 DEF CClean
<1>7. CASE CSettle(c) BY <1>7 DEF CSettle, MergeRef
<1>8. CASE CReceipt(c) BY <1>8 DEF CReceipt
<1>9. CASE CRefs(c) BY <1>9 DEF CRefs
<1>10. CASE CRetry(c) BY <1>10 DEF CRetry
<1>11. CASE CDiag(c) BY <1>11 DEF CDiag, Claimed, LockedSteps
<1>12. CASE CDelete(c) BY <1>12 DEF CDelete
<1>13. CASE CUnlock(c) BY <1>13 DEF CUnlock, CLeave
<1>14. CASE CFail(c) BY <1>14 DEF CFail, CLeave, Fault
<1> QED
  BY <1>1, <1>2, <1>3, <1>4, <1>5, <1>6, <1>7, <1>8, <1>9, <1>10, <1>11, <1>12, <1>13,
     <1>14 DEF ReconNext

-----------------------------------------------------------------------------
(* The sweeps.                                                             *)

\* A sweep that leaves its object gives up both locks, and changes nothing else.
LEMMA LeaveEvidence ==
    ASSUME EvidenceInv, NEW s \in Sweeps, Leave(s), UNCHANGED noStore,
           mishaps' \in 0..MaxMishaps
    PROVE  EvidenceInv'
<1> USE BatchAssumption, BoundAssumption, SweepAssumption
    DEF EvidenceInv, noStore, ingestOnly, queueVars, workerVars, reconVars, pgVars
<1>1. IngestTypes' BY DEF IngestTypes
<1>2. SweepTypeOK' BY DEF SweepTypeOK, Leave
<1>3. IngestKnows'
  BY DEF IngestKnows, Leave, Blocked, SweepTypeOK, IngestTypes
<1>4. IntentKnows' BY DEF IntentKnows, Old, Blocked
<1>5. GoneWithEvidence' BY DEF GoneWithEvidence
<1>6. SweepKnows(s)'
  BY DEF SweepKnows, Leave, Executing, LockedSteps, Claimed, Old, SweepTypeOK
<1>7. ASSUME NEW u \in Sweeps, u # s PROVE SweepKnows(u)'
  <2>1. /\ spc'[u] = spc[u] /\ sbatch'[u] = sbatch[u] /\ seen'[u] = seen[u]
        /\ execLock = u => execLock' = u
        /\ \A b \in Batches : lock[b] = u => lock'[b] = u
    BY <1>7 DEF Leave, SweepTypeOK
  <2>2. SweepKnows(u) /\ (spc[u] # "idle" => sbatch[u] \in Batches)
    BY DEF SweepKnows
  <2>3. \A b \in Batches : Old(b)' = Old(b) BY DEF Old
  <2> QED BY <2>1, <2>2, <2>3 DEF SweepKnows, Executing, LockedSteps, Claimed
<1> QED BY <1>1, <1>2, <1>3, <1>4, <1>5, <1>6, <1>7

Stays(s) == UNCHANGED <<noStore, lock, execLock, seen>>

\* A check goes on or leaves: what it owes is what its sweep knows when it goes on.
LEMMA CheckEvidence ==
    ASSUME EvidenceInv, NEW s \in Sweeps, NEW from, NEW to \in PrepareSteps \cup LockedSteps,
           NEW evidence, from # "idle", Check(s, from, evidence, to),
           evidence /\ SStep(s, from, to) /\ Stays(s) => SweepKnows(s)'
    PROVE  EvidenceInv'
<1>1. CASE Skip(s, from, ~ evidence)
  BY <1>1, LeaveEvidence DEF Skip, EvidenceInv, SweepTypeOK
<1>2. CASE SStep(s, from, to) /\ evidence /\ Stays(s)
  <2> USE <1>2
      DEF EvidenceInv, Stays, noStore, ingestOnly, queueVars, workerVars, reconVars, pgVars
  <2>1. IngestTypes' BY DEF IngestTypes
  <2>2. SweepTypeOK' BY DEF SweepTypeOK, SStep, PrepareSteps, LockedSteps
  <2>3. IngestKnows' BY DEF IngestKnows, Blocked
  <2>4. IntentKnows' BY DEF IntentKnows, Old, Blocked
  <2>5. GoneWithEvidence' BY DEF GoneWithEvidence
  <2>6. ASSUME NEW u \in Sweeps, u # s PROVE SweepKnows(u)'
    BY <2>6 DEF SweepKnows, SStep, Executing, Old, SweepTypeOK
  <2> QED BY <2>1, <2>2, <2>3, <2>4, <2>5, <2>6
<1> QED BY <1>1, <1>2 DEF Check, Stays

\* Most checks only veto: their sweep learns nothing that it keeps.
Vetoes ==
    {<<"pPending", "pDiag">>, <<"pJob", "pRefs">>, <<"pRefs", "pVisible">>,
     <<"pVisible", "pInsert">>, <<"pending", "queue">>, <<"queue", "diag">>,
     <<"diag", "refs">>, <<"refs", "visible">>, <<"recheckPending", "recheckQueue">>,
     <<"recheckQueue", "delete">>}

LEMMA VetoEvidence ==
    ASSUME EvidenceInv, NEW s \in Sweeps, NEW from, NEW to, <<from, to>> \in Vetoes,
           NEW evidence, Check(s, from, evidence, to)
    PROVE  EvidenceInv'
<1>1. to \in PrepareSteps \cup LockedSteps /\ from # "idle"
  BY DEF Vetoes, PrepareSteps, LockedSteps
<1>2. ASSUME evidence, SStep(s, from, to), Stays(s) PROVE SweepKnows(s)'
  <2>1. /\ SweepKnows(s) /\ spc[s] = from /\ spc'[s] = to
        /\ sbatch'[s] = sbatch[s] /\ seen'[s] = seen[s]
    BY <1>2 DEF EvidenceInv, SStep, SweepTypeOK, Stays
  <2>2. UNCHANGED <<raw, req, rows, ref, intent, marker, failedDiag, lock, execLock>>
    BY <1>2 DEF Stays, noStore, ingestOnly
  <2> QED
    BY <2>1, <2>2 DEF SweepKnows, Executing, LockedSteps, Claimed, Old, Vetoes
<1> QED BY <1>1, <1>2, CheckEvidence

\* An intent is inserted for an old object, and as prepared: it vouches for
\* nothing yet, and what other sweeps know of that object still holds.
LEMMA InsertEvidence ==
    ASSUME EvidenceInv, NEW s \in Sweeps, PInsert(s) PROVE EvidenceInv'
<1> DEFINE b == sbatch[s]
<1> USE BatchAssumption, BoundAssumption, SweepAssumption
    DEF EvidenceInv, PInsert, ingestOnly, queueVars, workerVars, reconVars, pgVars
<1>0. /\ b \in Batches /\ Old(b) /\ spc[s] = "pInsert" /\ seen[s] \in Classes
  BY DEF SweepKnows
<1>1. /\ \A c \in Batches : intent'[c] = IF c = b /\ intent[b] = "none"
                                          THEN "prepared" ELSE intent[c]
      /\ intent' \in [Batches -> {"none", "prepared", "executing", "complete"}]
      /\ class' \in [Batches -> Classes \cup {"none"}]
  BY <1>0 DEF SweepTypeOK
<1>2. \A c \in Batches : Old(c)' = Old(c) /\ Blocked(c)' = Blocked(c)
  BY <1>1 DEF Old, Blocked
<1>3. IngestTypes' BY DEF IngestTypes
<1>4. SweepTypeOK' BY <1>1 DEF SweepTypeOK, Leave
<1>5. IngestKnows' BY <1>2 DEF IngestKnows, Leave, SweepTypeOK, IngestTypes
<1>6. IntentKnows' BY <1>0, <1>1, <1>2 DEF IntentKnows
<1>7. GoneWithEvidence' BY <1>1 DEF GoneWithEvidence
<1>8. SweepKnows(s)'
  BY DEF SweepKnows, Leave, Executing, LockedSteps, Claimed, SweepTypeOK
<1>9. ASSUME NEW u \in Sweeps, u # s PROVE SweepKnows(u)'
  <2>1. /\ spc'[u] = spc[u] /\ sbatch'[u] = sbatch[u] /\ seen'[u] = seen[u]
        /\ execLock = u => execLock' = u
        /\ \A c \in Batches : lock[c] = u => lock'[c] = u
    BY <1>9 DEF Leave, SweepTypeOK
  <2>2. SweepKnows(u) /\ (spc[u] # "idle" => sbatch[u] \in Batches)
    BY DEF SweepKnows
  <2> QED BY <1>1, <1>2, <2>1, <2>2 DEF SweepKnows, Executing, LockedSteps, Claimed
<1> QED BY <1>3, <1>4, <1>5, <1>6, <1>7, <1>8, <1>9

LEMMA PrepareEvidence ==
    ASSUME EvidenceInv, NEW s \in Sweeps, Prepare(s) PROVE EvidenceInv'
<1>1. CASE PPending(s) BY <1>1, VetoEvidence DEF PPending, Vetoes
<1>2. CASE PJob(s) BY <1>2, VetoEvidence DEF PJob, Vetoes
<1>3. CASE PRefs(s) BY <1>3, VetoEvidence DEF PRefs, Vetoes
<1>4. CASE PVisible(s) BY <1>4, VetoEvidence DEF PVisible, Vetoes
<1>5. CASE PInsert(s) BY <1>5, InsertEvidence
<1> USE BatchAssumption, BoundAssumption, SweepAssumption
    DEF EvidenceInv, IngestTypes, SweepTypeOK, IngestKnows, IntentKnows, GoneWithEvidence,
        SweepKnows, Executing, Old, Blocked, PrepareSteps, LockedSteps, Claimed, Classes,
        SStep, noStore, ingestOnly, queueVars, workerVars, reconVars, pgVars
<1>6. ASSUME NEW b \in Batches, Discover(s, b) PROVE EvidenceInv' BY <1>6 DEF Discover
<1>7. CASE PDiag(s) BY <1>7 DEF PDiag
<1> QED BY ONLY <1>1, <1>2, <1>3, <1>4, <1>5, <1>6, <1>7, Prepare(s) DEF Prepare

\* The try-lock takes a free object only.
LEMMA LockEvidence ==
    ASSUME EvidenceInv, NEW s \in Sweeps, TryLock(s) PROVE EvidenceInv'
<1> DEFINE b == sbatch[s]
<1>1. CASE Skip(s, "lock", lock[b] # Nobody)
  BY <1>1, LeaveEvidence DEF Skip, EvidenceInv, SweepTypeOK
<1>2. CASE /\ SStep(s, "lock", "stat") /\ lock[b] = Nobody
           /\ lock' = [lock EXCEPT ![b] = s]
           /\ UNCHANGED <<noStore, execLock, seen>>
  <2> USE <1>2, BatchAssumption, BoundAssumption, SweepAssumption
      DEF EvidenceInv, noStore, ingestOnly, queueVars, workerVars, reconVars, pgVars
  <2>1. b \in Batches /\ \A c \in Batches : lock'[c] = IF c = b THEN s ELSE lock[c]
    BY DEF SweepKnows, SStep, SweepTypeOK
  <2>2. \A c \in Batches : Old(c)' = Old(c) /\ Blocked(c)' = Blocked(c)
    BY DEF Old, Blocked
  <2>3. IngestTypes' BY DEF IngestTypes
  <2>4. SweepTypeOK' BY <2>1 DEF SweepTypeOK, SStep, LockedSteps
  <2>5. IngestKnows' BY <2>1, <2>2 DEF IngestKnows, IngestTypes
  <2>6. IntentKnows' BY <2>2 DEF IntentKnows
  <2>7. GoneWithEvidence' BY DEF GoneWithEvidence
  <2>8. SweepKnows(s)'
    BY <2>1, <2>2 DEF SweepKnows, SStep, Executing, LockedSteps, Claimed, SweepTypeOK
  <2>9. ASSUME NEW u \in Sweeps, u # s PROVE SweepKnows(u)'
    <3>1. spc'[u] = spc[u] /\ sbatch'[u] = sbatch[u] /\ seen'[u] = seen[u]
      BY <2>9 DEF SStep, SweepTypeOK
    <3>2. SweepKnows(u) /\ (spc[u] # "idle" => sbatch[u] \in Batches)
      BY DEF SweepKnows
    <3>3. \A c \in Batches : lock[c] = u => lock'[c] = u
      BY <2>1
    <3> QED BY <3>1, <3>2, <3>3, <2>2 DEF SweepKnows, Executing, LockedSteps, Claimed
  <2> QED BY <2>3, <2>4, <2>5, <2>6, <2>7, <2>8, <2>9
<1> QED BY <1>1, <1>2 DEF TryLock

\* Nobody but the sweep that claims is past the evidence: the intent moves to
\* executing with the rows gone and the object there.
LEMMA ClaimEvidence ==
    ASSUME EvidenceInv, NEW s \in Sweeps, Claim(s) PROVE EvidenceInv'
<1> DEFINE b == sbatch[s]
<1> USE BatchAssumption, BoundAssumption, SweepAssumption
    DEF EvidenceInv, Claim, ingestOnly, queueVars, workerVars, reconVars, pgVars
<1>0. /\ spc[s] = "claim" /\ b \in Batches /\ Old(b) /\ lock[b] = s /\ execLock = s
      /\ intent[b] \in {"prepared", "executing"} /\ b \notin rows /\ b \in raw
  BY DEF SweepKnows, SStep, Executing, LockedSteps, Claimed
<1>1. \A c \in Batches : intent'[c] = IF c = b THEN "executing" ELSE intent[c]
  BY <1>0 DEF SweepTypeOK
<1>2. \A c \in Batches : Old(c)' = Old(c) BY DEF Old
<1>3. IngestTypes' BY DEF IngestTypes
<1>4. SweepTypeOK' BY <1>0 DEF SweepTypeOK, SStep, LockedSteps
<1>5. IngestKnows'
  <2>1. \A c \in Batches : c # b => Blocked(c)' = Blocked(c) BY <1>1 DEF Blocked
  <2>2. \A w \in Workers : wpc[w] \in WorkerInside => wbatch[w] # b
    BY <1>0 DEF IngestKnows, WorkerInside
  <2>3. \A c \in Recons : rpc[c] \in ReconInside => rbatch[c] # b
    BY <1>0 DEF IngestKnows, ReconInside
  <2> QED BY <2>1, <2>2, <2>3 DEF IngestKnows, WorkerInside, ReconInside
<1>6. IntentKnows' BY <1>0, <1>1, <1>2 DEF IntentKnows, Blocked
<1>7. GoneWithEvidence' BY <1>0, <1>1 DEF GoneWithEvidence
<1>8. SweepKnows(s)'
  BY <1>0, <1>1, <1>2 DEF SweepKnows, SStep, Executing, LockedSteps, Claimed, SweepTypeOK
<1>9. ASSUME NEW u \in Sweeps, u # s PROVE SweepKnows(u)'
  <2>1. spc'[u] = spc[u] /\ sbatch'[u] = sbatch[u] /\ seen'[u] = seen[u]
    BY <1>9 DEF SStep, SweepTypeOK
  <2>2. SweepKnows(u) /\ ~ Executing(u) BY <1>0, <1>9 DEF SweepKnows
  <2> QED BY <2>1, <2>2, <1>2 DEF SweepKnows, Executing, LockedSteps, Claimed
<1> QED BY <1>3, <1>4, <1>5, <1>6, <1>7, <1>8, <1>9

LEMMA ExecuteEvidence ==
    ASSUME EvidenceInv, NEW s \in Sweeps, ExecuteStep(s) PROVE EvidenceInv'
<1>1. CASE TryLock(s) BY <1>1, LockEvidence
<1>2. CASE NoPending(s) BY <1>2, VetoEvidence DEF NoPending, Vetoes
<1>3. CASE QueueTerminal(s) BY <1>3, VetoEvidence DEF QueueTerminal, Vetoes
<1>4. CASE DiagAgrees(s)
  <2> DEFINE agrees ==
        /\ class[sbatch[s]] = "applied" => sbatch[s] \notin failedDiag
        /\ class[sbatch[s]] = "terminal_failed" =>
              sbatch[s] \in failedDiag \/ seen[s] = "executing"
  <2>1. Check(s, "diag", agrees, "refs") BY <1>4 DEF DiagAgrees
  <2> HIDE DEF agrees
  <2> QED BY <2>1, VetoEvidence DEF Vetoes
<1>5. CASE RefsAgree(s)
  <2> DEFINE agrees ==
        /\ ref[sbatch[s]] # -1
        /\ seen[s] = "prepared" => ref[sbatch[s]] # 2
        /\ seen[s] = "prepared" /\ class[sbatch[s]] = "applied" => ref[sbatch[s]] = 1
  <2>1. Check(s, "refs", agrees, "visible") BY <1>5 DEF RefsAgree
  <2> HIDE DEF agrees
  <2> QED BY <2>1, VetoEvidence DEF Vetoes
<1>6. CASE RecheckPending(s) BY <1>6, VetoEvidence DEF RecheckPending, Vetoes
<1>7. CASE RecheckQueue(s) BY <1>7, VetoEvidence DEF RecheckQueue, Vetoes
<1>8. CASE Claim(s) BY <1>8, ClaimEvidence
<1>9. CASE Unlock(s) BY <1>9, LeaveEvidence DEF Unlock, Skip, EvidenceInv, SweepTypeOK
<1>10. CASE Stat(s)
  <2> DEFINE there == sbatch[s] \in raw
             next  == IF there THEN "pending" ELSE "converge"
             ok    == there \/ seen[s] = "executing"
  <2>1. ASSUME ok, SStep(s, "stat", next), Stays(s) PROVE SweepKnows(s)'
    BY <2>1 DEF EvidenceInv, SweepKnows, SStep, Stays, noStore, ingestOnly, Executing, Old,
                SweepTypeOK, LockedSteps, Claimed
  <2>2. Check(s, "stat", ok, next) BY <1>10 DEF Stat
  <2>3. next \in PrepareSteps \cup LockedSteps BY DEF LockedSteps
  <2> HIDE DEF next, ok
  <2> QED BY <2>1, <2>2, <2>3, CheckEvidence
<1>11. CASE NoVisibleRows(s)
  <2>1. ASSUME sbatch[s] \notin rows, SStep(s, "visible", "claim"), Stays(s)
        PROVE  SweepKnows(s)'
    BY <2>1 DEF EvidenceInv, SweepKnows, SStep, Stays, noStore, ingestOnly, Executing, Old,
                SweepTypeOK, LockedSteps, Claimed
  <2> QED BY <1>11, <2>1, CheckEvidence DEF NoVisibleRows, LockedSteps
<1>12. CASE Converge(s)
  <2>1. ASSUME SStep(s, "converge", "complete"), Stays(s) PROVE SweepKnows(s)'
    BY <2>1 DEF EvidenceInv, SweepKnows, SStep, Stays, noStore, ingestOnly, Executing, Old,
                SweepTypeOK, LockedSteps, Claimed, GoneWithEvidence
  <2> QED BY <1>12, <2>1, CheckEvidence DEF Converge, LockedSteps
<1> USE BatchAssumption, BoundAssumption, SweepAssumption
    DEF EvidenceInv, IngestTypes, SweepTypeOK, IngestKnows, IntentKnows, GoneWithEvidence,
        SweepKnows, Executing, Old, Blocked, PrepareSteps, LockedSteps, Claimed, Classes,
        SStep, noStore, ingestOnly, queueVars, workerVars, reconVars, pgVars
<1>13. CASE RecordMarkers(s) BY <1>13 DEF RecordMarkers
<1>14. CASE Tombstone(s) BY <1>14 DEF Tombstone, MergeRef
<1>15. CASE DropDiag(s) BY <1>15 DEF DropDiag
<1>16. CASE DeleteRaw(s) BY <1>16 DEF DeleteRaw
<1>17. CASE Complete(s) BY <1>17 DEF Complete
<1> QED
  BY ONLY <1>1, <1>2, <1>3, <1>4, <1>5, <1>6, <1>7, <1>8, <1>9, <1>10, <1>11, <1>12, <1>13,
          <1>14, <1>15, <1>16, <1>17, ExecuteStep(s) DEF ExecuteStep

LEMMA SweepEvidence ==
    ASSUME EvidenceInv, NEW s \in Sweeps, SweepNext(s) PROVE EvidenceInv'
<1>1. CASE Prepare(s) BY <1>1, PrepareEvidence
<1>2. CASE ExecuteStep(s) BY <1>2, ExecuteEvidence
<1>3. CASE Mishap(s)
  <2>1. mishaps' \in 0..MaxMishaps
    BY <1>3, SweepAssumption DEF Mishap, EvidenceInv, SweepTypeOK
  <2> QED BY <1>3, <2>1, LeaveEvidence DEF Mishap
<1> USE BatchAssumption, BoundAssumption, SweepAssumption
    DEF EvidenceInv, IngestTypes, SweepTypeOK, IngestKnows, IntentKnows, GoneWithEvidence,
        SweepKnows, Executing, Old, Blocked, PrepareSteps, LockedSteps, Claimed, Classes,
        SStep, noStore, ingestOnly, queueVars, workerVars, reconVars, pgVars
<1>4. ASSUME NEW b \in Batches, Execute(s, b) PROVE EvidenceInv' BY <1>4 DEF Execute
<1> QED BY ONLY <1>1, <1>2, <1>3, <1>4, SweepNext(s) DEF SweepNext

-----------------------------------------------------------------------------

LEMMA NextEvidence ==
    EvidenceInv /\ [IngestNext \/ \E s \in Sweeps : SweepNext(s)]_allVars => EvidenceInv'
<1> SUFFICES ASSUME EvidenceInv, [IngestNext \/ \E s \in Sweeps : SweepNext(s)]_allVars
             PROVE  EvidenceInv'
  OBVIOUS
<1>1. CASE IngestNext
  BY <1>1, RequestEvidence, BatchEvidence, WorkerEvidence, ReconEvidence DEF IngestNext
<1>2. ASSUME NEW s \in Sweeps, SweepNext(s) PROVE EvidenceInv' BY <1>2, SweepEvidence
<1>3. CASE UNCHANGED allVars
  BY <1>3 DEF allVars, vars, ingestVars, sweepVars, storageVars, queueVars, clickVars, pgVars,
              workerVars, reconVars, EvidenceInv, IngestTypes, SweepTypeOK, IngestKnows, IntentKnows,
              GoneWithEvidence, SweepKnows, Executing, Old, Blocked
<1> QED BY <1>1, <1>2, <1>3

\* No raw object is deleted that its tombstones and marker do not account for,
\* however requests, workers, reconcilers, sweeps, crashes and vetoes
\* interleave (the order of the irreversible steps in
\* raw-retention-intent-executor.ts, and convergePostDelete after a crash).
THEOREM RawGoneWithEvidence == RetentionSpec => []GoneWithEvidence
<1>1. EvidenceInv => GoneWithEvidence BY DEF EvidenceInv
<1> QED BY InitEvidence, NextEvidence, <1>1, PTL DEF RetentionSpec

\* The sweeps' locks, steps and intents stay within their types.
THEOREM SweepTypesHold == RetentionSpec => []SweepTypeOK
<1>1. EvidenceInv => SweepTypeOK BY DEF EvidenceInv
<1> QED BY InitEvidence, NextEvidence, <1>1, PTL DEF RetentionSpec

-----------------------------------------------------------------------------
(* What a sweep has read stays true until it claims: the second invariant.  *)

Looked == {"queue", "diag", "refs", "visible", "claim", "recheckQueue", "delete"}
Agreed == {"diag", "refs", "visible", "claim", "delete"}

\* A job that somebody owns is active; an intent has its classification.
Steady ==
    \A b \in Batches :
        /\ owner[b] # Nobody => job[b] = "active"
        /\ intent[b] # "none" => class[b] \in Classes

\* The evidence a sweep has read so far still holds of its object.
Reads(s) ==
    LET b == sbatch[s] IN
    /\ Executing(s) /\ spc[s] # "unlock" => seen[s] \in {"prepared", "executing"}
    /\ spc[s] \in Looked => b \notin pending
    /\ spc[s] \in Agreed => QueueAgrees(b, class[b])
    /\ seen[s] = "prepared" /\ spc[s] \in {"refs", "visible", "claim"} =>
         ((class[b] = "terminal_failed") <=> (b \in failedDiag))
    /\ seen[s] = "prepared" /\ spc[s] \in {"visible", "claim"} =>
         ref[b] \in {0, 1} /\ (class[b] = "applied" => ref[b] = 1)

ReadsInv == Steady /\ \A s \in Sweeps : Reads(s)

LEMMA InitReads == SweepInit => ReadsInv
BY DEF SweepInit, Init, ReadsInv, Steady, Reads, Executing, LockedSteps, Looked, Agreed

\* What a step of the ingest path leaves true of an object that has its lock
\* with a sweep, and no request left.
Kept(b) ==
    /\ b \in pending' => b \in pending
    /\ job[b] \in {"absent", "completed", "failed"} => job'[b] \in {job[b], "absent"}
    /\ b \in failedDiag' <=> b \in failedDiag
    /\ ref[b] \in {0, 1} => ref'[b] \in {ref[b], 1}

Held(b) == lock[b] \in Sweeps /\ Old(b)

IngestKeeps == intent' = intent /\ Steady' /\ \A b \in Batches : Held(b) => Kept(b)

LEMMA RequestReads ==
    ASSUME EvidenceInv, Steady, NEW r \in Requests, RequestNext(r), UNCHANGED sweepVars
    PROVE  IngestKeeps
<1> USE BatchAssumption, SweepAssumption
    DEF EvidenceInv, IngestTypes, IngestKeeps, Steady, Held, Kept, Old,
        ReqStep, apiUnchanged, queueVars, clickVars, workerVars, reconVars, sweepVars
<1>1. CASE ClaimReceipt(r) BY <1>1 DEF ClaimReceipt
<1>2. CASE PutRaw(r) BY <1>2 DEF PutRaw
<1>3. CASE PutPending(r) BY <1>3 DEF PutPending
<1>4. CASE MarkStaged(r) BY <1>4 DEF MarkStaged
<1>5. CASE EnqueueAndAck(r) BY <1>5 DEF EnqueueAndAck, Enqueue
<1>6. CASE RequestDies(r) BY <1>6 DEF RequestDies
<1> QED BY <1>1, <1>2, <1>3, <1>4, <1>5, <1>6 DEF RequestNext

LEMMA BatchReads ==
    ASSUME EvidenceInv, Steady, NEW b \in Batches,
           QueueNext(b) \/ SettleHook(b) \/ RetentionExpiresRows(b)
               \/ RetentionPrunesFeed(b),
           UNCHANGED sweepVars
    PROVE  IngestKeeps
<1> USE BatchAssumption, SweepAssumption
    DEF EvidenceInv, IngestTypes, IngestKeeps, Steady, Held, Kept,
        queueVars, clickVars, storageVars, sweepVars
<1>1. CASE RedisLoss(b) BY <1>1 DEF RedisLoss
<1>2. CASE RemoveCompleted(b) BY <1>2 DEF RemoveCompleted
<1>3. CASE LoseJobLock(b) BY <1>3 DEF LoseJobLock
<1>4. CASE Stalled(b) BY <1>4 DEF Stalled
<1>5. CASE SettleHook(b) BY <1>5 DEF SettleHook, MergeRef
<1>6. CASE RetentionExpiresRows(b) BY <1>6 DEF RetentionExpiresRows, retentionUnchanged
<1>7. CASE RetentionPrunesFeed(b) BY <1>7 DEF RetentionPrunesFeed, retentionUnchanged
<1> QED BY <1>1, <1>2, <1>3, <1>4, <1>5, <1>6, <1>7 DEF QueueNext

LEMMA WorkerReads ==
    ASSUME EvidenceInv, Steady, NEW w \in Workers, WorkerNext(w), UNCHANGED sweepVars
    PROVE  IngestKeeps
<1>0. /\ w \notin Sweeps /\ (wpc[w] # "idle" => wbatch[w] \in Batches)
      /\ wpc[w] \in WorkerInside => lock[wbatch[w]] \notin Sweeps
  BY BatchAssumption, SweepAssumption DEF EvidenceInv, IngestKnows, WorkerInside
<1> USE BatchAssumption, SweepAssumption, <1>0
    DEF EvidenceInv, IngestTypes, IngestKeeps, Steady, Held, Kept, WorkerInside, WStep,
        workerUnchanged, queueVars, clickVars, workerVars, reconVars, storageVars, pgVars,
        sweepVars
<1>1. ASSUME NEW b \in Batches, Take(w, b) PROVE IngestKeeps BY <1>1 DEF Take
<1>2. CASE WLock(w) BY <1>2 DEF WLock, TakeLock
<1>3. CASE WCheck(w) BY <1>3 DEF WCheck
<1>4. CASE WRefs(w) BY <1>4 DEF WRefs
<1>5. CASE WRows(w) BY <1>5 DEF WRows
<1>6. CASE WReceipt(w) BY <1>6 DEF WReceipt
<1>7. CASE WPublish(w) BY <1>7 DEF WPublish
<1>8. CASE WApply(w) BY <1>8 DEF WApply
<1>9. CASE WDelete(w) BY <1>9 DEF WDelete
<1>10. CASE WUnlock(w) BY <1>10 DEF WUnlock
<1>11. CASE WFinish(w) BY <1>11 DEF WFinish
<1>12. CASE WFail(w) BY <1>12 DEF WFail, WLeave
<1>13. CASE WCrash(w) BY <1>13 DEF WCrash, WLeave
<1> QED
  BY <1>1, <1>2, <1>3, <1>4, <1>5, <1>6, <1>7, <1>8, <1>9, <1>10, <1>11, <1>12, <1>13
  DEF WorkerNext

LEMMA ReconReads ==
    ASSUME EvidenceInv, Steady, NEW c \in Recons, ReconNext(c), UNCHANGED sweepVars
    PROVE  IngestKeeps
<1>0. /\ c \notin Sweeps /\ (rpc[c] # "idle" => rbatch[c] \in Batches)
      /\ rpc[c] \in ReconInside => lock[rbatch[c]] \notin Sweeps
  BY BatchAssumption, SweepAssumption DEF EvidenceInv, IngestKnows, ReconInside
<1> USE BatchAssumption, SweepAssumption, <1>0
    DEF EvidenceInv, IngestTypes, IngestKeeps, Steady, Held, Kept, ReconInside, CStep,
        reconUnchanged, workerVars, pgVars, sweepVars
<1>1. ASSUME NEW b \in Batches, Examine(c, b) PROVE IngestKeeps BY <1>1 DEF Examine
<1>2. CASE CLock(c) BY <1>2 DEF CLock, TakeLock
<1>3. CASE CCheck(c) BY <1>3 DEF CCheck
<1>4. CASE CGetJob(c) BY <1>4 DEF CGetJob
<1>5. CASE CEnqueue(c) BY <1>5 DEF CEnqueue
<1>6. CASE CClean(c) BY <1>6 DEF CClean
<1>7. CASE CSettle(c) BY <1>7 DEF CSettle
<1>8. CASE CReceipt(c) BY <1>8 DEF CReceipt
<1>9. CASE CRefs(c) BY <1>9 DEF CRefs
<1>10. CASE CRetry(c) BY <1>10 DEF CRetry
<1>11. CASE CDiag(c) BY <1>11 DEF CDiag
<1>12. CASE CDelete(c) BY <1>12 DEF CDelete
<1>13. CASE CUnlock(c) BY <1>13 DEF CUnlock, CLeave
<1>14. CASE CFail(c) BY <1>14 DEF CFail, CLeave
<1> QED
  BY <1>1, <1>2, <1>3, <1>4, <1>5, <1>6, <1>7, <1>8, <1>9, <1>10, <1>11, <1>12, <1>13,
     <1>14 DEF ReconNext

LEMMA IngestReads ==
    ASSUME EvidenceInv, ReadsInv, IngestNext PROVE ReadsInv'
<1>1. IngestKeeps /\ UNCHANGED sweepVars
  BY RequestReads, BatchReads, WorkerReads, ReconReads DEF IngestNext, ReadsInv
<1>2. ASSUME NEW s \in Sweeps PROVE Reads(s)'
  <2> DEFINE b == sbatch[s]
  <2>1. CASE spc[s] \notin LockedSteps
    BY <1>1, <2>1 DEF sweepVars, ReadsInv, Reads, Executing, LockedSteps, Looked, Agreed
  <2>2. CASE spc[s] \in LockedSteps
    <3>1. b \in Batches /\ Held(b) /\ Reads(s)
      BY <2>2 DEF EvidenceInv, SweepKnows, Held, LockedSteps, ReadsInv
    <3>2. Kept(b) BY <1>1, <3>1 DEF IngestKeeps
    <3> QED BY <1>1, <3>1, <3>2 DEF Kept, sweepVars, Reads, Executing, QueueAgrees
  <2> QED BY <2>1, <2>2
<1> QED BY <1>1, <1>2 DEF IngestKeeps, ReadsInv

-----------------------------------------------------------------------------
(* A step of one sweep, seen by the sweep itself and by the others.        *)

\* What a sweep's step leaves alone.
Private(s) ==
    /\ UNCHANGED <<job, owner, pending>>
    /\ \A u \in Sweeps : u # s =>
         spc'[u] = spc[u] /\ sbatch'[u] = sbatch[u] /\ seen'[u] = seen[u]

LEMMA PrepareReads ==
    ASSUME EvidenceInv, ReadsInv, NEW s \in Sweeps, Prepare(s) \/ Mishap(s)
    PROVE  /\ Private(s) /\ Reads(s)' /\ Steady'
           /\ UNCHANGED <<failedDiag, ref>>
           /\ \A b \in Batches : intent[b] # "none" => class'[b] = class[b]
<1>0. /\ spc \in [Sweeps -> PrepareSteps \cup LockedSteps \cup {"idle", "lock"}]
      /\ sbatch \in [Sweeps -> Batches \cup {Nobody}]
      /\ seen \in [Sweeps -> Classes \cup {"none", "prepared", "executing"}]
      /\ class \in [Batches -> Classes \cup {"none"}]
      /\ intent \in [Batches -> {"none", "prepared", "executing", "complete"}]
      /\ spc[s] = "pInsert" => sbatch[s] \in Batches /\ seen[s] \in Classes
  BY DEF EvidenceInv, SweepTypeOK, SweepKnows
<1>s. Steady BY DEF ReadsInv
<1>p. LockedSteps \cap PrepareSteps = {} /\ "idle" \notin LockedSteps /\ "lock" \notin PrepareSteps
  BY DEF LockedSteps, PrepareSteps
<1> USE <1>0, <1>s, <1>p
    DEF Private, Steady, Reads, Executing, Looked, Agreed, SStep, Leave, Check, Skip,
        noStore, ingestOnly, queueVars
<1>1. ASSUME NEW b \in Batches, Discover(s, b)
      PROVE  /\ Private(s) /\ Reads(s)' /\ Steady' /\ UNCHANGED <<failedDiag, ref, class>>
  BY <1>1 DEF Discover, PrepareSteps, LockedSteps
<1>2. CASE PPending(s)
  BY <1>2 DEF PPending, PrepareSteps, LockedSteps
<1>3. CASE PDiag(s)
  BY <1>3 DEF PDiag, PrepareSteps, LockedSteps
<1>4. CASE PJob(s)
  BY <1>4 DEF PJob, PrepareSteps, LockedSteps
<1>5. CASE PRefs(s)
  BY <1>5 DEF PRefs, PrepareSteps, LockedSteps
<1>6. CASE PVisible(s)
  BY <1>6 DEF PVisible, PrepareSteps, LockedSteps
<1>7. CASE PInsert(s) BY <1>7 DEF PInsert, PrepareSteps, LockedSteps
<1>8. CASE Mishap(s) BY <1>8 DEF Mishap, PrepareSteps, LockedSteps
<1> QED BY ONLY <1>1, <1>2, <1>3, <1>4, <1>5, <1>6, <1>7, <1>8,
        Prepare(s) \/ Mishap(s) DEF Prepare

LEMMA ExecuteReads ==
    ASSUME EvidenceInv, ReadsInv, NEW s \in Sweeps,
           ExecuteStep(s) \/ \E b \in Batches : Execute(s, b)
    PROVE  Private(s) /\ Reads(s)' /\ Steady'
<1>0. /\ spc \in [Sweeps -> PrepareSteps \cup LockedSteps \cup {"idle", "lock"}]
      /\ sbatch \in [Sweeps -> Batches \cup {Nobody}]
      /\ seen \in [Sweeps -> Classes \cup {"none", "prepared", "executing"}]
      /\ class \in [Batches -> Classes \cup {"none"}]
      /\ intent \in [Batches -> {"none", "prepared", "executing", "complete"}]
      /\ ref \in [Batches -> -1..2]
      /\ spc[s] \in LockedSteps => sbatch[s] \in Batches
      /\ (spc[s] \in LockedSteps \ {"unlock"} => intent[sbatch[s]] # "none")
  BY DEF EvidenceInv, IngestTypes, SweepTypeOK, SweepKnows, LockedSteps, Executing, Claimed
<1>s. Steady /\ Reads(s) BY DEF ReadsInv
<1>c. sbatch[s] \in Batches /\ intent[sbatch[s]] # "none" => class[sbatch[s]] \in Classes
  BY <1>s DEF Steady
<1> USE <1>0, <1>s, <1>c
    DEF Private, Steady, Reads, Executing, Looked, Agreed, SStep, Leave, Check, Skip,
        noStore, ingestOnly, queueVars
<1>1. CASE TryLock(s)
  BY <1>1 DEF TryLock, PrepareSteps, LockedSteps
<1>2. CASE Stat(s)
  BY <1>2 DEF Stat, PrepareSteps, LockedSteps
<1>3. CASE NoPending(s)
  BY <1>3 DEF NoPending, PrepareSteps, LockedSteps
<1>4. CASE QueueTerminal(s)
  BY <1>4 DEF QueueTerminal, QueueAgrees, Classes, PrepareSteps, LockedSteps
<1>5. CASE DiagAgrees(s)
  BY <1>5 DEF DiagAgrees, QueueAgrees, Classes, PrepareSteps, LockedSteps
<1>6. CASE RefsAgree(s)
  BY <1>6 DEF RefsAgree, QueueAgrees, Classes, PrepareSteps, LockedSteps
<1>7. CASE NoVisibleRows(s)
  BY <1>7 DEF NoVisibleRows, QueueAgrees, Classes, PrepareSteps, LockedSteps
<1>8. CASE RecordMarkers(s)
  BY <1>8 DEF RecordMarkers, PrepareSteps, LockedSteps
<1>9. CASE Tombstone(s)
  BY <1>9 DEF Tombstone, PrepareSteps, LockedSteps
<1>10. CASE DropDiag(s)
  BY <1>10 DEF DropDiag, PrepareSteps, LockedSteps
<1>11. CASE RecheckPending(s)
  BY <1>11 DEF RecheckPending, PrepareSteps, LockedSteps
<1>12. CASE RecheckQueue(s)
  BY <1>12 DEF RecheckQueue, QueueAgrees, Classes, PrepareSteps, LockedSteps
<1>13. CASE DeleteRaw(s)
  BY <1>13 DEF DeleteRaw, PrepareSteps, LockedSteps
<1>14. CASE Converge(s)
  BY <1>14 DEF Converge, PrepareSteps, LockedSteps
<1>15. CASE Unlock(s)
  BY <1>15 DEF Unlock, PrepareSteps, LockedSteps
<1>16. CASE Claim(s)
  BY <1>16 DEF Claim, PrepareSteps, LockedSteps
<1>17. CASE Complete(s)
  BY <1>17 DEF Complete, PrepareSteps, LockedSteps
<1>18. ASSUME NEW b \in Batches, Execute(s, b) PROVE Private(s) /\ Reads(s)' /\ Steady'
  BY <1>18 DEF Execute, PrepareSteps, LockedSteps
<1> QED
  BY ONLY <1>1, <1>2, <1>3, <1>4, <1>5, <1>6, <1>7, <1>8, <1>9, <1>10, <1>11, <1>12, <1>13,
  <1>14, <1>15, <1>16, <1>17, <1>18,
     ExecuteStep(s) \/ \E b \in Batches : Execute(s, b) DEF ExecuteStep

LEMMA SweepReads ==
    ASSUME EvidenceInv, ReadsInv, NEW s \in Sweeps, SweepNext(s) PROVE ReadsInv'
<1>1. Private(s) /\ Reads(s)' /\ Steady'
  BY PrepareReads, ExecuteReads DEF SweepNext
<1>2. ASSUME NEW u \in Sweeps, u # s PROVE Reads(u)'
  <2>1. Reads(u) BY DEF ReadsInv
  <2>2. CASE ~ Executing(u)
    BY <1>1, <1>2, <2>2 DEF Private, Reads, Executing, LockedSteps, Looked, Agreed
  <2>3. CASE Executing(u)
    <3>1. /\ execLock = u /\ sbatch[u] \in Batches
          /\ (spc[u] # "unlock" => intent[sbatch[u]] # "none")
      BY <2>3 DEF EvidenceInv, SweepKnows, Executing, LockedSteps, Claimed
    <3>2. ~ Executing(s) /\ execLock # Nobody
      BY <1>2, <3>1, SweepAssumption DEF EvidenceInv, SweepKnows
    <3>3. Prepare(s) \/ Mishap(s)
      <4>1. ~ ExecuteStep(s)
        BY <3>2 DEF ExecuteStep, Executing, LockedSteps, TryLock, Stat, NoPending, QueueTerminal,
             DiagAgrees, RefsAgree, NoVisibleRows, Claim, RecordMarkers, Tombstone, DropDiag,
             RecheckPending, RecheckQueue, DeleteRaw, Complete, Converge, Unlock, Check, Skip,
             SStep
      <4> QED BY <3>2, <4>1 DEF SweepNext, Execute
    <3>4. /\ UNCHANGED <<failedDiag, ref>>
          /\ \A b \in Batches : intent[b] # "none" => class'[b] = class[b]
      BY <3>3, PrepareReads
    <3> QED
      BY <1>1, <1>2, <2>1, <3>1, <3>4 DEF Private, Reads, Executing, Looked, Agreed, QueueAgrees
  <2> QED BY <2>2, <2>3
<1> QED BY <1>1, <1>2 DEF ReadsInv

LEMMA NextReads ==
    EvidenceInv /\ ReadsInv /\ [IngestNext \/ \E s \in Sweeps : SweepNext(s)]_allVars
        => ReadsInv'
<1>1. ASSUME EvidenceInv, ReadsInv, UNCHANGED allVars PROVE ReadsInv'
  BY <1>1 DEF allVars, vars, ingestVars, sweepVars, storageVars, queueVars, clickVars,
              ReadsInv, Steady, Reads, Executing, QueueAgrees
<1> QED BY <1>1, IngestReads, SweepReads

-----------------------------------------------------------------------------
(* The ingest path sees a prepared intent as none, and a sweep's lock as   *)
(* free: each of its steps is the same step of Ingest.                     *)

LEMMA RequestSees ==
    ASSUME NEW r \in Requests, RequestNext(r) PROVE Ingest!RequestNext(r)
<1> USE DEF ReqStep, Ingest!ReqStep, apiUnchanged, Ingest!apiUnchanged, queueVars,
        Ingest!queueVars, clickVars, Ingest!clickVars, workerVars, Ingest!workerVars, reconVars,
        Ingest!reconVars
<1>1. CASE ClaimReceipt(r) BY <1>1 DEF ClaimReceipt, Ingest!ClaimReceipt, Ingest!RequestNext
<1>2. CASE PutRaw(r) BY <1>2 DEF PutRaw, Ingest!PutRaw, Ingest!RequestNext
<1>3. CASE PutPending(r) BY <1>3 DEF PutPending, Ingest!PutPending, Ingest!RequestNext
<1>4. CASE MarkStaged(r) BY <1>4 DEF MarkStaged, Ingest!MarkStaged, Ingest!RequestNext
<1>5. CASE EnqueueAndAck(r) BY <1>5 DEF EnqueueAndAck, Ingest!EnqueueAndAck, Ingest!RequestNext,
        Enqueue, Ingest!Enqueue
<1>6. CASE RequestDies(r) BY <1>6 DEF RequestDies, Ingest!RequestDies, Ingest!RequestNext
<1> QED BY ONLY <1>1, <1>2, <1>3, <1>4, <1>5, <1>6, RequestNext(r) DEF RequestNext

LEMMA BatchSees ==
    ASSUME NEW b \in Batches,
           QueueNext(b) \/ SettleHook(b) \/ RetentionExpiresRows(b)
               \/ RetentionPrunesFeed(b)
    PROVE  Ingest!QueueNext(b) \/ Ingest!SettleHook(b) \/ Ingest!RetentionNext(b)
<1> USE DEF queueVars, Ingest!queueVars, clickVars, Ingest!clickVars, storageVars,
        Ingest!storageVars, pgVars, Ingest!pgVars, workerVars, Ingest!workerVars, reconVars,
        Ingest!reconVars, Fault, Ingest!Fault, MergeRef, Ingest!MergeRef
<1>1. CASE RedisLoss(b) BY <1>1 DEF RedisLoss, Ingest!RedisLoss, Ingest!QueueNext
<1>2. CASE RemoveCompleted(b) BY <1>2 DEF RemoveCompleted, Ingest!RemoveCompleted,
        Ingest!QueueNext
<1>3. CASE LoseJobLock(b) BY <1>3 DEF LoseJobLock, Ingest!LoseJobLock, Ingest!QueueNext
<1>4. CASE Stalled(b) BY <1>4 DEF Stalled, Ingest!Stalled, Ingest!QueueNext
<1>5. CASE SettleHook(b) BY <1>5 DEF SettleHook, Ingest!SettleHook
<1>6. CASE RetentionExpiresRows(b) BY <1>6 DEF RetentionExpiresRows, Ingest!RetentionExpiresRows,
        retentionUnchanged, Ingest!retentionUnchanged, FenceFree, Ingest!FenceFree,
        Ingest!RetentionNext
<1>7. CASE RetentionPrunesFeed(b) BY <1>7 DEF RetentionPrunesFeed, Ingest!RetentionPrunesFeed,
        retentionUnchanged, Ingest!retentionUnchanged, FenceFree, Ingest!FenceFree,
        Ingest!RetentionNext
<1> QED
  BY ONLY <1>1, <1>2, <1>3, <1>4, <1>5, <1>6, <1>7,
     QueueNext(b) \/ SettleHook(b) \/ RetentionExpiresRows(b) \/ RetentionPrunesFeed(b)
  DEF QueueNext

LEMMA WorkerSees ==
    ASSUME EvidenceInv, NEW w \in Workers, WorkerNext(w), UNCHANGED sweepVars
    PROVE  Ingest!WorkerNext(w)
<1>0. /\ lock \in [Batches -> Workers \cup Recons \cup Sweeps \cup {Nobody}]
      /\ w \notin Sweeps /\ Nobody \notin Sweeps /\ w # Nobody
      /\ wpc[w] # "idle" => wbatch[w] \in Batches
      /\ wpc[w] \in WorkerInside => lock[wbatch[w]] = w
  BY BatchAssumption, SweepAssumption DEF EvidenceInv, SweepTypeOK, IngestKnows, WorkerInside
<1> USE <1>0
    DEF WStep, Ingest!WStep, workerUnchanged, Ingest!workerUnchanged, queueVars,
        Ingest!queueVars, clickVars, Ingest!clickVars, storageVars, Ingest!storageVars, pgVars,
        Ingest!pgVars, workerVars, Ingest!workerVars, reconVars, Ingest!reconVars,
        Fault, Ingest!Fault, MergeRef, Ingest!MergeRef, Blocked, Ingest!Blocked,
        WorkerInside, Ingest!WorkerInside, Ingest!WorkerNext
<1>1. ASSUME NEW b \in Batches, Take(w, b) PROVE Ingest!WorkerNext(w) BY <1>1 DEF Take,
        Ingest!Take
<1>2. CASE WLock(w) BY <1>2 DEF WLock, Ingest!WLock,
        TakeLock, Ingest!TakeLock
<1>3. CASE WCheck(w) BY <1>3 DEF WCheck, Ingest!WCheck
<1>4. CASE WRefs(w) BY <1>4 DEF WRefs, Ingest!WRefs
<1>5. CASE WRows(w) BY <1>5 DEF WRows, Ingest!WRows
<1>6. CASE WReceipt(w) BY <1>6 DEF WReceipt, Ingest!WReceipt
<1>7. CASE WPublish(w) BY <1>7 DEF WPublish, Ingest!WPublish
<1>8. CASE WApply(w) BY <1>8 DEF WApply, Ingest!WApply
<1>9. CASE WDelete(w) BY <1>9 DEF WDelete, Ingest!WDelete
<1>10. CASE WUnlock(w) BY <1>10 DEF WUnlock, Ingest!WUnlock
<1>11. CASE WFinish(w) BY <1>11 DEF WFinish, Ingest!WFinish
<1>12. CASE WFail(w) BY <1>12 DEF WFail, Ingest!WFail, WLeave, Ingest!WLeave, LastAttempt,
        Ingest!LastAttempt
<1>13. CASE WCrash(w) BY <1>13 DEF WCrash, Ingest!WCrash, WLeave, Ingest!WLeave
<1> QED
  BY ONLY <1>1, <1>2, <1>3, <1>4, <1>5, <1>6, <1>7, <1>8, <1>9, <1>10, <1>11, <1>12, <1>13,
     WorkerNext(w) DEF WorkerNext

LEMMA ReconSees ==
    ASSUME EvidenceInv, NEW c \in Recons, ReconNext(c), UNCHANGED sweepVars
    PROVE  Ingest!ReconNext(c)
<1>0. /\ lock \in [Batches -> Workers \cup Recons \cup Sweeps \cup {Nobody}]
      /\ c \notin Sweeps /\ Nobody \notin Sweeps /\ c # Nobody
      /\ rpc[c] # "idle" => rbatch[c] \in Batches
      /\ rpc[c] \in ReconInside => lock[rbatch[c]] = c
  BY BatchAssumption, SweepAssumption DEF EvidenceInv, SweepTypeOK, IngestKnows, ReconInside
<1> USE <1>0
    DEF CStep, Ingest!CStep, reconUnchanged, Ingest!reconUnchanged, pgVars, Ingest!pgVars,
        workerVars, Ingest!workerVars,
        Fault, Ingest!Fault, MergeRef, Ingest!MergeRef, Blocked, Ingest!Blocked,
        ReconInside, Ingest!ReconInside, Ingest!ReconNext
<1>1. ASSUME NEW b \in Batches, Examine(c, b) PROVE Ingest!ReconNext(c) BY <1>1 DEF Examine,
        Ingest!Examine
<1>2. CASE CLock(c) BY <1>2 DEF CLock, Ingest!CLock,
        TakeLock, Ingest!TakeLock
<1>3. CASE CCheck(c) BY <1>3 DEF CCheck, Ingest!CCheck
<1>4. CASE CGetJob(c) BY <1>4 DEF CGetJob, Ingest!CGetJob
<1>5. CASE CEnqueue(c) BY <1>5 DEF CEnqueue, Ingest!CEnqueue
<1>6. CASE CClean(c) BY <1>6 DEF CClean, Ingest!CClean
<1>7. CASE CSettle(c) BY <1>7 DEF CSettle, Ingest!CSettle
<1>8. CASE CReceipt(c) BY <1>8 DEF CReceipt, Ingest!CReceipt, UnmaterializedReceipt,
        Ingest!UnmaterializedReceipt
<1>9. CASE CRefs(c) BY <1>9 DEF CRefs, Ingest!CRefs
<1>10. CASE CRetry(c) BY <1>10 DEF CRetry, Ingest!CRetry
<1>11. CASE CDiag(c) BY <1>11 DEF CDiag, Ingest!CDiag
<1>12. CASE CDelete(c) BY <1>12 DEF CDelete, Ingest!CDelete
<1>13. CASE CUnlock(c) BY <1>13 DEF CUnlock, Ingest!CUnlock, CLeave, Ingest!CLeave
<1>14. CASE CFail(c) BY <1>14 DEF CFail, Ingest!CFail, CLeave, Ingest!CLeave
<1> QED
  BY ONLY <1>1, <1>2, <1>3, <1>4, <1>5, <1>6, <1>7, <1>8, <1>9, <1>10, <1>11, <1>12, <1>13,
     <1>14, ReconNext(c) DEF ReconNext

\* The ingest path's view of the intents and the locks.
IntentSeen == [b \in Batches |-> IF intent[b] = "prepared" THEN "none" ELSE intent[b]]
LockSeen   == [b \in Batches |-> IF lock[b] \in Sweeps THEN Nobody ELSE lock[b]]

\* To the ingest path, nothing happens.
Unseen == UNCHANGED <<ingestOnly, raw, failedDiag, ref, IntentSeen, LockSeen>>

LEMMA UnseenStutters == Unseen => UNCHANGED Ingest!vars
BY DEF Unseen, IntentSeen, LockSeen, ingestOnly, Ingest!vars, Ingest!ingestVars,
       storageVars, queueVars, clickVars, pgVars, workerVars, reconVars,
       Ingest!storageVars, Ingest!queueVars, Ingest!clickVars, Ingest!pgVars,
       Ingest!workerVars, Ingest!reconVars

\* Preparing, taking or giving up an object, and every check, go unseen.
LEMMA SweepUnseen ==
    ASSUME EvidenceInv, NEW s \in Sweeps,
           PPending(s) \/ PDiag(s) \/ PJob(s) \/ PRefs(s) \/ PVisible(s) \/ PInsert(s)
           \/ TryLock(s) \/ Stat(s) \/ NoPending(s) \/ QueueTerminal(s) \/ DiagAgrees(s)
           \/ RefsAgree(s) \/ NoVisibleRows(s) \/ RecordMarkers(s) \/ RecheckPending(s)
           \/ RecheckQueue(s) \/ Converge(s) \/ Unlock(s) \/ Mishap(s)
           \/ (\E b \in Batches : Discover(s, b) \/ Execute(s, b))
    PROVE  Unseen
<1>0. /\ lock \in [Batches -> Workers \cup Recons \cup Sweeps \cup {Nobody}]
      /\ intent \in [Batches -> {"none", "prepared", "executing", "complete"}]
      /\ Nobody \notin Sweeps
      /\ spc[s] \in LockedSteps \cup {"lock", "pInsert"} => sbatch[s] \in Batches
  BY SweepAssumption DEF EvidenceInv, SweepTypeOK, SweepKnows, LockedSteps
<1> USE <1>0
    DEF Unseen, IntentSeen, LockSeen, Check, Skip, Leave, SStep, noStore, ingestOnly
<1>1. CASE PPending(s) BY <1>1 DEF PPending
<1>2. CASE PDiag(s) BY <1>2 DEF PDiag
<1>3. CASE PJob(s) BY <1>3 DEF PJob
<1>4. CASE PRefs(s) BY <1>4 DEF PRefs
<1>5. CASE PVisible(s) BY <1>5 DEF PVisible
<1>6. CASE PInsert(s) BY <1>6 DEF PInsert
<1>7. CASE TryLock(s) BY <1>7 DEF TryLock
<1>8. CASE Stat(s) BY <1>8 DEF Stat
<1>9. CASE NoPending(s) BY <1>9 DEF NoPending
<1>10. CASE QueueTerminal(s) BY <1>10 DEF QueueTerminal
<1>11. CASE DiagAgrees(s) BY <1>11 DEF DiagAgrees
<1>12. CASE RefsAgree(s) BY <1>12 DEF RefsAgree
<1>13. CASE NoVisibleRows(s) BY <1>13 DEF NoVisibleRows
<1>14. CASE RecordMarkers(s) BY <1>14 DEF RecordMarkers
<1>15. CASE RecheckPending(s) BY <1>15 DEF RecheckPending
<1>16. CASE RecheckQueue(s) BY <1>16 DEF RecheckQueue
<1>17. CASE Converge(s) BY <1>17 DEF Converge
<1>18. CASE Unlock(s) BY <1>18 DEF Unlock
<1>19. CASE Mishap(s) BY <1>19 DEF Mishap
<1>20. ASSUME NEW b \in Batches, Discover(s, b) \/ Execute(s, b) PROVE Unseen
  BY <1>20 DEF Discover, Execute
<1> QED
  BY ONLY
    <1>1, <1>2, <1>3, <1>4, <1>5, <1>6, <1>7, <1>8, <1>9, <1>10, <1>11, <1>12, <1>13, <1>14,
    <1>15, <1>16, <1>17, <1>18, <1>19, <1>20,
    PPending(s) \/ PDiag(s) \/ PJob(s) \/ PRefs(s) \/ PVisible(s) \/ PInsert(s)
    \/ TryLock(s) \/ Stat(s) \/ NoPending(s) \/ QueueTerminal(s) \/ DiagAgrees(s)
    \/ RefsAgree(s) \/ NoVisibleRows(s) \/ RecordMarkers(s) \/ RecheckPending(s)
    \/ RecheckQueue(s) \/ Converge(s) \/ Unlock(s) \/ Mishap(s)
    \/ (\E b \in Batches : Discover(s, b) \/ Execute(s, b))

\* What the sweep read, store by store, still holds together when it claims:
\* the object is retirable, and the ingest path sees it cross the boundary.
LEMMA ClaimSees ==
    ASSUME EvidenceInv, ReadsInv, NEW s \in Sweeps, Claim(s)
    PROVE  Unseen \/ \E b \in Batches : Ingest!RetentionCrosses(b)
<1>b. PICK b \in Batches : b = sbatch[s]
  BY DEF Claim, EvidenceInv, SweepKnows, SStep
<1>0. /\ lock[b] = s /\ spc[s] = "claim" /\ Old(b)
      /\ intent[b] \in {"prepared", "executing"} /\ b \notin rows /\ b \in raw
      /\ seen[s] \in {"prepared", "executing"}
      /\ seen[s] = "executing" => intent[b] = "executing"
      /\ lock \in [Batches -> Workers \cup Recons \cup Sweeps \cup {Nobody}]
      /\ intent \in [Batches -> {"none", "prepared", "executing", "complete"}]
  BY <1>b DEF Claim, SStep, EvidenceInv, SweepKnows, SweepTypeOK, Executing, LockedSteps, Claimed,
         ReadsInv, Reads
<1>1. CASE intent[b] = "executing"
  BY <1>0, <1>1, <1>b DEF Claim, Unseen, IntentSeen, LockSeen, ingestOnly
<1>2. CASE intent[b] = "prepared"
  <2>1. seen[s] = "prepared" /\ class[b] \in Classes BY <1>0, <1>2, <1>b DEF ReadsInv, Steady
  <2>2. Ingest!Retirable(b)
    <3>1. Reads(s) BY DEF ReadsInv
    <3> QED BY <1>0, <1>b, <2>1, <3>1
            DEF Ingest!Retirable, Reads, QueueAgrees, Old, Looked, Agreed, Classes
  <2>3. Ingest!RetentionCrosses(b)
    BY <1>0, <1>2, <1>b, <2>2, SweepAssumption
    DEF Ingest!RetentionCrosses, Claim, ingestOnly, Ingest!retentionUnchanged,
        queueVars, pgVars, workerVars, reconVars, Ingest!queueVars, Ingest!pgVars,
        Ingest!workerVars, Ingest!reconVars
  <2> QED BY <1>0, <2>3
<1> QED BY <1>0, <1>1, <1>2

\* Behind the boundary every deletion is the ingest path's own, or was done
\* before a crash.
LEMMA DeletionSees ==
    ASSUME EvidenceInv, ReadsInv, NEW s \in Sweeps,
           Tombstone(s) \/ DropDiag(s) \/ DeleteRaw(s) \/ Complete(s)
    PROVE  Unseen \/ \E b \in Batches : Ingest!RetentionNext(b)
<1>b. PICK b \in Batches : b = sbatch[s]
  BY DEF Tombstone, DropDiag, DeleteRaw, Complete, EvidenceInv, SweepKnows, SStep
<1>0. /\ lock[b] = s
      /\ intent[b] = "executing"
      /\ lock \in [Batches -> Workers \cup Recons \cup Sweeps \cup {Nobody}]
      /\ intent \in [Batches -> {"none", "prepared", "executing", "complete"}]
      /\ ref \in [Batches -> -1..2]
      /\ raw \subseteq Batches /\ failedDiag \subseteq Batches
  BY <1>b DEF Tombstone, DropDiag, DeleteRaw, Complete, SStep, EvidenceInv, SweepKnows,
      SweepTypeOK,
         IngestTypes, Executing, LockedSteps, Claimed
<1>k. SweepKnows(s) /\ Reads(s) BY DEF EvidenceInv, ReadsInv
<1> USE <1>0, <1>b
    DEF Unseen, IntentSeen, LockSeen, ingestOnly, Ingest!RetentionNext, Ingest!retentionUnchanged,
        queueVars, pgVars, workerVars, reconVars, Ingest!queueVars, Ingest!pgVars,
        Ingest!workerVars, Ingest!reconVars, SStep
<1>1. CASE Tombstone(s)
  <2>1. CASE ref[b] = 2 BY <1>1, <2>1 DEF Tombstone, MergeRef
  <2>2. CASE ref[b] # 2
    <3>1. Ingest!RetentionTombstones(b)
      BY <1>1, <2>2 DEF Tombstone, MergeRef, Ingest!RetentionTombstones, Ingest!MergeRef
    <3> QED BY <3>1
  <2> QED BY <2>1, <2>2
<1>2. CASE DropDiag(s)
  <2>1. CASE b \notin failedDiag BY <1>2, <2>1 DEF DropDiag
  <2>2. CASE b \in failedDiag
    <3>1. Ingest!RetentionDropsDiag(b)
      BY <1>2, <1>k, <2>2 DEF DropDiag, Ingest!RetentionDropsDiag, SweepKnows, Claimed
    <3> QED BY <3>1
  <2> QED BY <2>1, <2>2
<1>3. CASE DeleteRaw(s)
  <2>1. CASE b \notin raw BY <1>3, <2>1 DEF DeleteRaw
  <2>2. CASE b \in raw
    <3>1. Ingest!RetentionDeletesRaw(b)
      BY <1>3, <1>k, <2>2
      DEF DeleteRaw, Ingest!RetentionDeletesRaw, SweepKnows, Reads, QueueAgrees, Claimed, Looked,
          Agreed
    <3> QED BY <3>1
  <2> QED BY <2>1, <2>2
<1>4. CASE Complete(s)
  <2>1. Ingest!RetentionCompletes(b)
    BY <1>4, <1>k DEF Complete, Ingest!RetentionCompletes, SweepKnows, Claimed
  <2> QED BY <2>1
<1> QED BY ONLY <1>1, <1>2, <1>3, <1>4,
           Tombstone(s) \/ DropDiag(s) \/ DeleteRaw(s) \/ Complete(s)

LEMMA NextSees ==
    EvidenceInv /\ ReadsInv /\ [IngestNext \/ \E s \in Sweeps : SweepNext(s)]_allVars
        => [Ingest!Next]_Ingest!vars
<1> SUFFICES ASSUME EvidenceInv, ReadsInv, [IngestNext \/ \E s \in Sweeps : SweepNext(s)]_allVars
             PROVE  [Ingest!Next]_Ingest!vars
  OBVIOUS
<1>1. CASE IngestNext
  BY <1>1, RequestSees, BatchSees, WorkerSees, ReconSees DEF IngestNext, Ingest!Next
<1>2. ASSUME NEW s \in Sweeps, SweepNext(s) PROVE [Ingest!Next]_Ingest!vars
  <2>1. Unseen \/ \E b \in Batches : Ingest!RetentionNext(b)
    <3>1. CASE Claim(s) BY <3>1, ClaimSees DEF Ingest!RetentionNext
    <3>2. CASE Tombstone(s) \/ DropDiag(s) \/ DeleteRaw(s) \/ Complete(s)
      BY <3>2, DeletionSees
    <3>3. CASE \/ Prepare(s) \/ Mishap(s) \/ \E b \in Batches : Execute(s, b)
      BY <3>3, SweepUnseen DEF Prepare
    <3> QED BY <1>2, <3>1, <3>2, <3>3, SweepUnseen DEF SweepNext, ExecuteStep
  <2> QED BY <2>1, UnseenStutters DEF Ingest!Next
<1>3. CASE UNCHANGED allVars
  <2>1. Unseen
    BY <1>3 DEF allVars, vars, ingestVars, storageVars, clickVars, Unseen, IntentSeen, LockSeen,
                ingestOnly
  <2> QED BY <2>1, UnseenStutters
<1> QED BY <1>1, <1>2, <1>3

LEMMA InitSees == SweepInit => Ingest!Init
BY SweepAssumption DEF SweepInit, Init, Ingest!Init

\* RawRetention implements the retention that IngestRecovery assumes
\* (RetentionCrosses, RetentionTombstones and the deletions): the evidence
\* that raw-retention-intent-executor.ts reads from four stores one after the
\* other, with ingest, Redis, hooks and other sweeps at work between the reads,
\* amounts to one look at all of it when the intent is claimed.
THEOREM SweepsImplementRetention == RetentionSpec => ImplementsIngest
<1> QED
  BY InitEvidence, NextEvidence, InitReads, NextReads, InitSees, NextSees, PTL
  DEF RetentionSpec, ImplementsIngest, Ingest!Spec

-----------------------------------------------------------------------------
(* What IngestRecoveryProofs proves of the ingest path holds with the real *)
(* sweeps in the place of its Retention actions.                           *)

IngestProofs == INSTANCE IngestRecoveryProofs WITH
    intent <- [b \in Batches |-> IF intent[b] = "prepared" THEN "none" ELSE intent[b]],
    lock   <- [b \in Batches |-> IF lock[b] \in Sweeps THEN Nobody ELSE lock[b]]

\* Two instances of one module, with one substitution: what they define is the
\* same once it is expanded.
LEMMA SameInit == Ingest!Init => IngestProofs!Init
BY DEF Ingest!Init, IngestProofs!Init

LEMMA SameNext == [Ingest!Next]_Ingest!vars => [IngestProofs!Next]_IngestProofs!vars
BY DEF
    Ingest!storageVars, IngestProofs!storageVars, Ingest!queueVars, IngestProofs!queueVars,
    Ingest!clickVars, IngestProofs!clickVars, Ingest!pgVars, IngestProofs!pgVars,
    Ingest!workerVars, IngestProofs!workerVars, Ingest!reconVars, IngestProofs!reconVars,
    Ingest!ingestVars, IngestProofs!ingestVars, Ingest!vars, IngestProofs!vars, Ingest!Blocked,
    IngestProofs!Blocked, Ingest!MergeRef, IngestProofs!MergeRef, Ingest!Fault,
    IngestProofs!Fault, Ingest!WorkerInside, IngestProofs!WorkerInside, Ingest!ReconInside,
    IngestProofs!ReconInside, Ingest!Enqueue, IngestProofs!Enqueue, Ingest!RedisLoss,
    IngestProofs!RedisLoss, Ingest!RemoveCompleted, IngestProofs!RemoveCompleted,
    Ingest!LoseJobLock, IngestProofs!LoseJobLock, Ingest!Stalled, IngestProofs!Stalled,
    Ingest!QueueNext, IngestProofs!QueueNext, Ingest!ReqStep, IngestProofs!ReqStep,
    Ingest!apiUnchanged, IngestProofs!apiUnchanged, Ingest!ClaimReceipt,
    IngestProofs!ClaimReceipt, Ingest!PutRaw, IngestProofs!PutRaw, Ingest!PutPending,
    IngestProofs!PutPending, Ingest!MarkStaged, IngestProofs!MarkStaged, Ingest!EnqueueAndAck,
    IngestProofs!EnqueueAndAck, Ingest!RequestDies, IngestProofs!RequestDies,
    Ingest!RequestNext, IngestProofs!RequestNext, Ingest!workerUnchanged,
    IngestProofs!workerUnchanged, Ingest!Take, IngestProofs!Take, Ingest!WStep,
    IngestProofs!WStep, Ingest!TakeLock, IngestProofs!TakeLock, Ingest!WLock, IngestProofs!WLock, Ingest!WCheck, IngestProofs!WCheck,
    Ingest!WRefs, IngestProofs!WRefs, Ingest!WRows, IngestProofs!WRows, Ingest!WReceipt,
    IngestProofs!WReceipt, Ingest!WPublish, IngestProofs!WPublish, Ingest!WApply,
    IngestProofs!WApply, Ingest!WDelete, IngestProofs!WDelete, Ingest!WUnlock,
    IngestProofs!WUnlock, Ingest!WFinish, IngestProofs!WFinish, Ingest!WLeave,
    IngestProofs!WLeave, Ingest!LastAttempt, IngestProofs!LastAttempt, Ingest!WFail,
    IngestProofs!WFail, Ingest!WCrash, IngestProofs!WCrash, Ingest!SettleHook,
    IngestProofs!SettleHook, Ingest!WorkerNext, IngestProofs!WorkerNext, Ingest!reconUnchanged,
    IngestProofs!reconUnchanged, Ingest!Examine, IngestProofs!Examine, Ingest!CStep,
    IngestProofs!CStep, Ingest!CLock, IngestProofs!CLock, Ingest!CCheck, IngestProofs!CCheck,
    Ingest!CGetJob, IngestProofs!CGetJob, Ingest!CEnqueue, IngestProofs!CEnqueue,
    Ingest!CClean, IngestProofs!CClean, Ingest!CSettle, IngestProofs!CSettle,
    Ingest!UnmaterializedReceipt, IngestProofs!UnmaterializedReceipt, Ingest!CReceipt,
    IngestProofs!CReceipt, Ingest!CRefs, IngestProofs!CRefs, Ingest!CRetry,
    IngestProofs!CRetry, Ingest!CDiag, IngestProofs!CDiag, Ingest!CDelete,
    IngestProofs!CDelete, Ingest!CLeave, IngestProofs!CLeave, Ingest!CUnlock,
    IngestProofs!CUnlock, Ingest!CFail, IngestProofs!CFail, Ingest!ReconNext,
    IngestProofs!ReconNext, Ingest!retentionUnchanged, IngestProofs!retentionUnchanged,
    Ingest!FenceFree, IngestProofs!FenceFree, Ingest!RetentionPrunesFeed,
    IngestProofs!RetentionPrunesFeed,
    Ingest!RetentionExpiresRows, IngestProofs!RetentionExpiresRows, Ingest!Retirable,
    IngestProofs!Retirable, Ingest!RetentionCrosses, IngestProofs!RetentionCrosses,
    Ingest!RetentionTombstones, IngestProofs!RetentionTombstones, Ingest!RetentionDropsDiag,
    IngestProofs!RetentionDropsDiag, Ingest!RetentionDeletesRaw,
    IngestProofs!RetentionDeletesRaw, Ingest!RetentionCompletes,
    IngestProofs!RetentionCompletes, Ingest!RetentionNext, IngestProofs!RetentionNext,
    Ingest!Init, IngestProofs!Init, Ingest!Next, IngestProofs!Next

LEMMA SameAssumptions == IngestProofs!BatchAssumption /\ IngestProofs!BoundAssumption
BY BatchAssumption, BoundAssumption
DEF BatchAssumption, BoundAssumption, IngestProofs!BatchAssumption,
    IngestProofs!BoundAssumption

LEMMA SameSpec == RetentionSpec => IngestProofs!Spec
<1>1. Ingest!Spec => IngestProofs!Spec
  BY SameInit, SameNext, PTL DEF Ingest!Spec, IngestProofs!Spec
<1> QED BY <1>1, SweepsImplementRetention DEF ImplementsIngest

\* A batch whose intent was written is materialised, quarantined or retired by a
\* real sweep, and never forgotten (persist-ingest-batch.ts, the worker, the
\* reconciler and the executor together).
THEOREM SweepsForgetNothing == RetentionSpec => IngestProofs!NeverForgotten
<1>1. IngestProofs!Spec => IngestProofs!NeverForgotten
  BY IngestProofs!Refinement, SameAssumptions
<1> QED BY <1>1, SameSpec

\* No sweep deletes the raw object from under work that is queued or intended:
\* "an acknowledged queue job must never refer to an absent raw object", with
\* evidence that is read store by store.
THEOREM SweepsLeaveWorkItsRaw == RetentionSpec => []WorkHasRaw
<1>1. IngestProofs!Spec => []IngestProofs!WorkHasRaw
  BY IngestProofs!RawBehindWork, SameAssumptions
<1>2. IngestProofs!WorkHasRaw => WorkHasRaw
  BY DEF IngestProofs!WorkHasRaw, WorkHasRaw, IngestProofs!Blocked, Blocked
<1> QED BY <1>1, <1>2, SameSpec, PTL

\* No delayed job, hook or reconciler brings rows back for an object that a
\* sweep has claimed.
THEOREM ClaimedStaysGone == RetentionSpec => []RetiredStaysGone
<1>1. EvidenceInv => RetiredStaysGone BY DEF EvidenceInv, IntentKnows, RetiredStaysGone
<1> QED BY InitEvidence, NextEvidence, <1>1, PTL DEF RetentionSpec
=============================================================================
