--------------------------- MODULE EvaluatorProofs ---------------------------
(***************************************************************************)
(* Proofs about EvaluatorFeed, for any set of traces, trees, scores,       *)
(* batches, workers and readers and any number of failures, edits, lost    *)
(* leases and retention passes: the fence keeps the writers apart, a pass  *)
(* prunes only what is gone, no change of an imported trace is stored      *)
(* without being announced. Where batches alone write, a served version    *)
(* names one tree, an exact read of it is whole, and a consumer of the     *)
(* feed or of the bootstrap scan misses none; where imports alone write,   *)
(* what they leave is exactly the provider's tree. Last, the types.        *)
(***************************************************************************)
EXTENDS EvaluatorFeed, FiniteSetTheorems, WellFoundedInduction, TLAPS

-----------------------------------------------------------------------------
(* The fence.  Whoever writes rows is a shared holder, so nobody does while *)
(* retention holds the exclusive side, and what it listed as gone is gone   *)
(* when it prunes.                                                          *)

FenceShape ==
    /\ job \in [Batches -> [pc : Steps, write : SUBSET Keys, todo : SUBSET Tables]]
    /\ DOMAIN run = Workers /\ \A w \in Workers : "pc" \in DOMAIN run[w]
    /\ exclusive \in BOOLEAN /\ watermark \in Nat

FenceExcludes ==
    /\ exclusive => shared = {}
    /\ exclusive <=> pass # "idle"
    /\ \A b \in Batches : job[b].pc \in {"writing", "published"} => b \in shared
    /\ \A w \in Workers : Materializing(w) => w \in shared

ListedAreGone == pass = "prune" => \A entry \in orphans : ~Visible(entry[1])

FenceInv == FenceShape /\ FenceExcludes /\ ListedAreGone

PrunesGone == \A t \in Traces : feed[t].ver # 0 /\ feed'[t].ver = 0 => ~Visible(t)

LEMMA FenceInit == Init => FenceInv
<1> SUFFICES ASSUME Init PROVE FenceInv
  OBVIOUS
<1>1. FenceShape
  BY DEF Init, IngestInit, ImportInit, StoreInit, FenceShape, Off, Steps
<1>2. FenceExcludes /\ ListedAreGone
  BY DEF Init, IngestInit, ImportInit, RetentionInit, StoreInit, FenceExcludes, ListedAreGone,
         Materializing, SnapshotSteps, Off
<1> QED
  BY <1>1, <1>2 DEF FenceInv

\* What a step that leaves the feed, or publishes, has to do with the prune.
LEMMA PublishPrunesNothing ==
    ASSUME NEW T, NEW src, NEW activity, FenceShape, Publish(T, src, activity)
    PROVE  PrunesGone
BY DEF Publish, PrunesGone, FenceShape

LEMMA IngestFence ==
    ASSUME FenceInv, IngestNext, UNCHANGED <<retentionVars, importVars>>
    PROVE  FenceInv' /\ PrunesGone
<1> USE DEF FenceInv
<1> PICK b \in Batches : Accept(b) \/ IngestStep(b) \/ FailJob(b) \/ SettlePublished(b)
  BY DEF IngestNext
<1> UNCHANGED <<pass, orphans, run>>
  BY DEF retentionVars, importVars
<1>1. CASE Accept(b) \/ ResolveRows(b) \/ SettlePublished(b)
  <2>1. UNCHANGED <<rows, feed, watermark, shared, exclusive>>
    BY <1>1 DEF Accept, ResolveRows, SettlePublished, storeVars
  <2>2. FenceShape' /\ \A c \in Batches : job'[c].pc \in {"writing", "published"} => job'[c] = job[c]
    <3>1. BatchKeys[b] \subseteq Keys
      BY StoreAssumption DEF StoreAssumption
    <3>2. CASE Accept(b)
      BY <2>1, <3>2 DEF Accept, FenceShape, Steps
    <3>3. CASE ResolveRows(b)
      <4>1. PICK write \in SUBSET Keys, todo \in SUBSET Tables :
               job' = [job EXCEPT ![b] = [pc |-> "resolved", write |-> write, todo |-> todo]]
        BY <3>1, <3>3 DEF ResolveRows, Tables, TableOf
      <4> QED
        BY <2>1, <4>1 DEF FenceShape, Steps
    <3>4. CASE SettlePublished(b)
      BY <2>1, <3>4 DEF SettlePublished, FenceShape
    <3> QED
      BY <1>1, <3>2, <3>3, <3>4
  <2> QED
    BY <2>1, <2>2 DEF FenceExcludes, ListedAreGone, PrunesGone, Visible, Materializing, FenceShape
<1>2. CASE MarkPending(b)
  <2>1. UNCHANGED <<rows, feed, watermark, exclusive>> /\ ~exclusive /\ shared' = shared \cup {b}
    BY <1>2 DEF MarkPending, TakeShared
  <2>2. FenceShape' /\ \A c \in Batches \ {b} : job'[c] = job[c]
    BY <1>2, <2>1 DEF MarkPending, FenceShape, Steps
  <2> QED
    BY <2>1, <2>2 DEF FenceExcludes, ListedAreGone, PrunesGone, Visible, Materializing
<1>3. CASE \E table \in Tables : WriteTable(b, table)
  <2>1. UNCHANGED <<feed, watermark, shared, exclusive>> /\ job[b].pc = "writing"
    BY <1>3 DEF WriteTable
  <2>2. FenceShape' /\ \A c \in Batches : job'[c].pc = job[c].pc
    BY <1>3, <2>1 DEF WriteTable, FenceShape, Steps
  <2>3. ~exclusive /\ pass = "idle"
    BY <2>1 DEF FenceExcludes
  <2> QED
    BY <2>1, <2>2, <2>3 DEF FenceExcludes, ListedAreGone, PrunesGone, Materializing
<1>4. CASE PublishBatch(b)
  <2>1. UNCHANGED <<rows, shared, exclusive>> /\ job[b].pc = "writing"
        /\ Publish(TracesOf(b), received[b], b)
    BY <1>4 DEF PublishBatch
  <2>2. FenceShape'
    BY <1>4, <2>1 DEF PublishBatch, Publish, FenceShape, Steps
  <2>3. \A c \in Batches : job'[c].pc \in {"writing", "published"}
                             => job[c].pc \in {"writing", "published"}
    BY <1>4 DEF PublishBatch, FenceShape
  <2>4. PrunesGone
    BY <2>1, PublishPrunesNothing DEF FenceShape
  <2> QED
    BY <2>1, <2>2, <2>3, <2>4 DEF FenceExcludes, ListedAreGone, Visible, Materializing
<1>5. CASE ApplyRefs(b) \/ FailJob(b)
  <2>1. UNCHANGED <<rows, feed, watermark, exclusive>> /\ shared' = shared \ {b}
    BY <1>5 DEF ApplyRefs, FailJob, DropShared
  <2>2. FenceShape' /\ \A c \in Batches : job'[c].pc \in {"writing", "published"}
                                           => c # b /\ job'[c] = job[c]
    BY <1>5, <2>1 DEF ApplyRefs, FailJob, FenceShape, Steps
  <2>3. b \notin Workers
    BY StoreAssumption DEF StoreAssumption
  <2> QED
    BY <2>1, <2>2, <2>3 DEF FenceExcludes, ListedAreGone, PrunesGone, Visible, Materializing
<1> QED
  BY <1>1, <1>2, <1>3, <1>4, <1>5 DEF IngestStep

LEMMA RetentionFence ==
    ASSUME FenceInv, RetentionNext, UNCHANGED <<ingestVars, importVars>>
    PROVE  FenceInv' /\ PrunesGone
<1> USE DEF FenceInv
<1> UNCHANGED <<job, run>>
  BY DEF ingestVars, importVars
<1>1. CASE BeginPass
  BY <1>1 DEF BeginPass, TakeExclusive, Goto, FenceShape, FenceExcludes, ListedAreGone, PrunesGone,
              Materializing
<1>2. CASE RecordExpired \/ DropRootPartitions \/ DropObsPartitions \/ DeleteRoots
           \/ DeleteObs \/ DeleteChildren
  <2>1. UNCHANGED <<feed, watermark, shared, exclusive>> /\ pass # "idle" /\ pass' \notin {"idle", "prune"}
    BY <1>2 DEF RecordExpired, DropRootPartitions, DropObsPartitions, DeleteRoots, DeleteObs,
                DeleteChildren, Goto, AfterPartitions
  <2> QED
    BY <2>1 DEF FenceShape, FenceExcludes, ListedAreGone, PrunesGone, Materializing
<1>3. CASE ListOrphans
  BY <1>3 DEF ListOrphans, storeVars, Goto, FenceShape, FenceExcludes, ListedAreGone, PrunesGone,
              Materializing, Visible
<1>4. CASE PruneFeed
  <2>1. PrunesGone
    BY <1>4 DEF PruneFeed, DeleteFeedEntries, ListedAreGone, PrunesGone, NoFeed
  <2> QED
    BY <1>4, <2>1 DEF PruneFeed, Goto, FenceShape, FenceExcludes, ListedAreGone, Materializing
<1>5. CASE AbortPass
  BY <1>5 DEF AbortPass, Goto, FenceShape, FenceExcludes, ListedAreGone, PrunesGone, Materializing
<1> QED
  BY <1>1, <1>2, <1>3, <1>4, <1>5 DEF RetentionNext, RetentionStep

LEMMA ImportFence ==
    ASSUME FenceInv, ImportNext, UNCHANGED <<ingestVars, retentionVars>>
    PROVE  FenceInv' /\ PrunesGone
<1> USE DEF FenceInv
<1> UNCHANGED <<job, pass, orphans>>
  BY DEF ingestVars, retentionVars
<1>1. CASE LeaseExpires \/ \E t \in Traces : ProviderEdit(t)
  <2>1. UNCHANGED <<storeVars, run>>
    BY <1>1 DEF LeaseExpires, ProviderEdit
  <2> QED
    BY <2>1 DEF storeVars, FenceShape, FenceExcludes, ListedAreGone, PrunesGone, Visible, Materializing
<1>2. ASSUME NEW w \in Workers, Claim(w) \/ ImportStep(w) \/ FailRun(w)
      PROVE  FenceInv' /\ PrunesGone
  \* A step outside the fence: no rows, no lock.
  <2>1. ASSUME UNCHANGED <<rows, feed, watermark, shared, exclusive>>, FenceShape',
               \A v \in Workers : Materializing(v)' => Materializing(v)
        PROVE  FenceInv' /\ PrunesGone
    BY <2>1 DEF FenceExcludes, ListedAreGone, PrunesGone, Visible
  \* A step that leaves it.
  <2>2. ASSUME UNCHANGED <<rows, exclusive>>, shared' = shared \ {w}, FenceShape', PrunesGone,
               \A v \in Workers : Materializing(v)' => v # w /\ Materializing(v)
        PROVE  FenceInv' /\ PrunesGone
    <3>1. \A b \in Batches : b # w
      BY StoreAssumption DEF StoreAssumption
    <3> QED
      BY <2>2, <3>1 DEF FenceExcludes, ListedAreGone, Visible
  <2>3. ASSUME Throw(w) PROVE FenceInv' /\ PrunesGone
    <3>1. UNCHANGED <<rows, feed, watermark, exclusive>> /\ shared' = shared \ {w}
      BY <2>3 DEF Throw, DropShared
    <3>2. FenceShape' /\ \A v \in Workers : Materializing(v)' => v # w /\ Materializing(v)
      BY <2>3, <3>1 DEF Throw, FenceShape, Materializing, SnapshotSteps, Off
    <3> QED
      BY <3>1, <3>2, <2>2 DEF PrunesGone
  \* A step inside it: retention does not run.
  <2>4. ASSUME Materializing(w), UNCHANGED <<shared, exclusive>>, FenceShape', PrunesGone,
               \A v \in Workers : Materializing(v)' => Materializing(v)
        PROVE  FenceInv' /\ PrunesGone
    <3>1. pass = "idle"
      BY <2>4 DEF FenceExcludes
    <3> QED
      BY <2>4, <3>1 DEF FenceExcludes, ListedAreGone
  <2>5. CASE Claim(w)
    <3>1. UNCHANGED <<rows, feed, watermark, shared, exclusive>>
      BY <2>5 DEF Claim, storeVars
    <3>2. FenceShape' /\ \A v \in Workers : Materializing(v)' => Materializing(v)
      BY <2>5, <3>1 DEF Claim, FenceShape, Materializing, SnapshotSteps, Off
    <3> QED
      BY <3>1, <3>2, <2>1
  <2>6. CASE ClaimPending(w) \/ FetchPage(w) \/ Stage(w) \/ FinishRun(w)
    <3>1. CASE Throw(w)
      BY <3>1, <2>3
    <3>2. CASE ~Throw(w)
      <4>1. UNCHANGED <<rows, feed, watermark, shared, exclusive>>
        BY <2>6, <3>2 DEF ClaimPending, FetchPage, Stage, FinishRun, storeVars
      <4>2. FenceShape' /\ \A v \in Workers : Materializing(v)' => Materializing(v)
        <5>1. CASE ClaimPending(w)
          BY <3>2, <4>1, <5>1 DEF ClaimPending, FenceShape, Materializing, SnapshotSteps
        <5>2. CASE FetchPage(w)
          <6>1. UNCHANGED <<job, watermark, exclusive>> /\ ~(run[w].pc \in SnapshotSteps)
            BY <4>1, <5>2 DEF FetchPage, Emptied, SnapshotSteps
          <6>2. run' = [run EXCEPT ![w].pc = "stage", ![w].page = provider, ![w].cand = clock]
            BY <3>2, <5>2 DEF FetchPage
          <6>3. DOMAIN run' = Workers /\ \A v \in Workers \ {w} : run'[v] = run[v]
            BY <6>2 DEF FenceShape
          <6>4. "pc" \in DOMAIN run'[w] /\ run'[w].pc = "stage"
            BY <6>2 DEF FenceShape
          <6> QED
            BY <6>1, <6>3, <6>4 DEF FenceShape, Materializing, SnapshotSteps
        <5>3. CASE Stage(w)
          <6>1. UNCHANGED <<job, watermark, exclusive>>
            BY <4>1
          <6>2. run' = [run EXCEPT ![w] = [Off EXCEPT !.pc = "claim", !.phase = "recovery"]]
            BY <3>2, <5>3 DEF Stage
          <6>3. DOMAIN run' = Workers /\ \A v \in Workers \ {w} : run'[v] = run[v]
            BY <6>2 DEF FenceShape
          <6>4. "pc" \in DOMAIN run'[w] /\ run'[w].pc = "claim"
            BY <6>2 DEF FenceShape, Off
          <6> QED
            BY <6>1, <6>3, <6>4 DEF FenceShape, Materializing, SnapshotSteps
        <5>4. CASE FinishRun(w)
          BY <3>2, <4>1, <5>4 DEF FinishRun, FenceShape, Materializing, SnapshotSteps, Off
        <5> QED
          BY <2>6, <5>1, <5>2, <5>3, <5>4
      <4> QED
        BY <4>1, <4>2, <2>1
    <3> QED
      BY <3>1, <3>2
  <2>7. CASE BeginSnapshot(w)
    <3>1. CASE Throw(w)
      BY <3>1, <2>3
    <3>2. CASE ~Throw(w)
      <4>1. UNCHANGED <<rows, feed, watermark, exclusive>> /\ ~exclusive /\ shared' = shared \cup {w}
        BY <2>7, <3>2 DEF BeginSnapshot, TakeShared
      <4>2. FenceShape' /\ \A v \in Workers : v # w /\ Materializing(v)' => Materializing(v)
        BY <2>7, <3>2, <4>1 DEF BeginSnapshot, FenceShape, Materializing
      <4> QED
        BY <4>1, <4>2 DEF FenceExcludes, ListedAreGone, PrunesGone, Visible
    <3> QED
      BY <3>1, <3>2
  <2>8. CASE \E table \in Tables :
               TombstoneExpired(w, table) \/ TombstoneTree(w, table) \/ InsertTree(w, table)
    <3>1. UNCHANGED <<feed, watermark, shared, exclusive>> /\ Materializing(w)
      BY <2>8 DEF TombstoneExpired, TombstoneTree, InsertTree, Materializing, SnapshotSteps
    <3>2. FenceShape' /\ \A v \in Workers : Materializing(v)' => Materializing(v)
      <4>1. /\ job' = job /\ DOMAIN run' = DOMAIN run
            /\ \A v \in Workers : v # w => run'[v] = run[v]
            /\ "pc" \in DOMAIN run[w] => "pc" \in DOMAIN run'[w]
        <5>1. CASE \E table \in Tables : TombstoneExpired(w, table)
          BY <2>8, <5>1 DEF TombstoneExpired, FenceShape
        <5>2. CASE \E table \in Tables : TombstoneTree(w, table)
          BY <2>8, <5>2 DEF TombstoneTree, FenceShape
        <5>3. CASE \E table \in Tables : InsertTree(w, table)
          BY <2>8, <5>3 DEF InsertTree, FenceShape
        <5> QED
          BY <2>8, <5>1, <5>2, <5>3
      <4> QED
        BY <3>1, <4>1 DEF FenceShape, Materializing
    <3> QED
      BY <3>1, <3>2, <2>4 DEF PrunesGone
  <2>9. CASE Discard(w)
    <3>1. CASE Throw(w)
      BY <3>1, <2>3
    <3>2. CASE ~Throw(w)
      <4>1. UNCHANGED <<rows, feed, watermark, exclusive>> /\ shared' = shared \ {w}
        BY <2>9, <3>2 DEF Discard, DropShared
      <4>2. FenceShape' /\ \A v \in Workers : Materializing(v)' => v # w /\ Materializing(v)
        <5>1. job' = job /\ run' = [run EXCEPT ![w] = Between(w)]
          BY <2>9, <3>2 DEF Discard
        <5>2. "pc" \in DOMAIN Between(w) /\ Between(w).pc = "next"
          BY DEF Between, Off
        <5>3. DOMAIN run' = Workers /\ run'[w] = Between(w) /\ \A v \in Workers : v # w => run'[v] = run[v]
          BY <5>1 DEF FenceShape
        <5> QED
          BY <4>1, <5>1, <5>2, <5>3 DEF FenceShape, Materializing, SnapshotSteps
      <4> QED
        BY <4>1, <4>2, <2>2 DEF PrunesGone
    <3> QED
      BY <3>1, <3>2
  <2>10. CASE PublishScores(w)
    <3>1. UNCHANGED <<rows, feed, watermark, shared, exclusive>>
      BY <2>10 DEF PublishScores, storeVars
    <3>2. FenceShape' /\ \A v \in Workers : Materializing(v)' => Materializing(v)
      BY <2>10, <3>1 DEF PublishScores, FenceShape, Materializing, SnapshotSteps
    <3> QED
      BY <3>1, <3>2, <2>1
  <2>11. CASE PublishImport(w)
    <3>1. CASE Throw(w)
      BY <3>1, <2>3
    <3>2. CASE ~Throw(w)
      <4>1. UNCHANGED <<rows, exclusive>> /\ shared' = shared \ {w}
        BY <2>11, <3>2 DEF PublishImport, DropShared
      <4>2. run' = [run EXCEPT ![w] = Between(w)]
        BY <2>11, <3>2 DEF PublishImport
      <4>3. UNCHANGED <<feed, watermark>>
            \/ Publish({run[w].cur}, run[w].snap.gen, run[w].snap.gen)
        BY <2>11, <3>2 DEF PublishImport
      <4>4. PrunesGone
        BY <4>3, PublishPrunesNothing DEF PrunesGone
      <4>5. watermark' \in Nat
        BY <4>3 DEF Publish, FenceShape
      <4>6. FenceShape' /\ \A v \in Workers : Materializing(v)' => v # w /\ Materializing(v)
        BY <4>1, <4>2, <4>5 DEF Between, FenceShape, Materializing, SnapshotSteps, Off
      <4> QED
        BY <4>1, <4>4, <4>6, <2>2
    <3> QED
      BY <3>1, <3>2
  <2>12. CASE FailRun(w)
    BY <2>12, <2>3 DEF FailRun
  <2> QED
    BY <1>2, <2>5, <2>6, <2>7, <2>8, <2>9, <2>10, <2>11, <2>12 DEF ImportStep
<1> QED
  BY <1>1, <1>2 DEF ImportNext

LEMMA ReadersWriteNothing ==
    ASSUME ReadersNext
    PROVE  UNCHANGED storeVars
BY DEF ReadersNext, ListSettled, RespondScan, ListLive, Walk, ReadTraceAgain, ReadScanGuard,
       ReadGuardAgain, ReadDetailGuard, ReadGuardAfter, ReadLive, AskDetail, ReadBefore,
       ReadObservations, ReadAfter, Respond, FeedReader, DetailReader

LEMMA FenceStep == FenceInv /\ [Next]_vars => FenceInv' /\ PrunesGone
<1> SUFFICES ASSUME FenceInv, [Next]_vars PROVE FenceInv' /\ PrunesGone
  OBVIOUS
<1>1. ASSUME UNCHANGED <<rows, feed, watermark, shared, exclusive, job, run, pass, orphans>>
      PROVE  FenceInv' /\ PrunesGone
  BY <1>1 DEF FenceInv, FenceShape, FenceExcludes, ListedAreGone, PrunesGone, Visible, Materializing
<1>2. CASE UNCHANGED vars
  BY <1>1, <1>2 DEF vars, storeVars, ingestVars, retentionVars, importVars
<1>3. CASE ClockTicks
  BY <1>1, <1>3 DEF ClockTicks, Tick, ingestVars, retentionVars, importVars
<1>4. CASE ReadersNext /\ UNCHANGED <<ingestVars, retentionVars, importVars>>
  BY <1>1, <1>4, ReadersWriteNothing DEF storeVars, ingestVars, retentionVars, importVars
<1> QED
  BY <1>2, <1>3, <1>4, IngestFence, RetentionFence, ImportFence DEF Next, Step

\* Nobody writes rows or publishes while retention holds its side of the fence.
THEOREM FenceHolds == Spec => []FenceExcludes
<1>1. FenceInv => FenceExcludes
  BY DEF FenceInv
<1> QED
  BY <1>1, FenceInit, FenceStep, PTL DEF Spec

\* The prune removes the feed rows of traces that are gone, and no others,
\* whatever is ingested, imported or read meanwhile.
THEOREM PrunesWhatIsGone == Spec => PrunesOnlyGone
<1>1. FenceInv /\ [Next]_vars => [\A t \in Traces : feed[t].ver # 0 /\ feed'[t].ver = 0 => ~Visible(t)]_vars
  BY FenceStep DEF PrunesGone
<1> QED
  BY <1>1, FenceInit, FenceStep, PTL DEF Spec, PrunesOnlyGone

-----------------------------------------------------------------------------
(* The imports.                                                              *)

\* A nonempty set of numbers has a least.
LEMMA LeastOf ==
    ASSUME NEW S \in SUBSET Nat, S # {}
    PROVE  Min(S) \in S /\ \A y \in S : Min(S) <= y
<1>n. \A y \in S : y \in Nat
  OBVIOUS
<1> DEFINE UpTo(x) == {y \in S : y <= x}
           T == {UpTo(x) : x \in S}
           R == StrictSubsetOrdering(S)
<1>1. T \subseteq FiniteSubsetsOf(S) /\ T # {}
  <2>1. ASSUME NEW x \in S PROVE IsFiniteSet(UpTo(x))
    <3>1. IsFiniteSet(0 .. x)
      BY FS_Interval
    <3>2. ASSUME NEW y \in UpTo(x) PROVE y \in 0 .. x
      <4>1. y \in Nat /\ x \in Nat /\ y <= x
        BY <1>n
      <4> QED
        BY ONLY <4>1
    <3>3. UpTo(x) \in SUBSET (0 .. x)
      BY <3>2
    <3> QED
      BY <3>1, <3>3, FS_Subset
  <2> QED
    BY <2>1 DEF FiniteSubsetsOf
<1>2. PICK least \in T : \A X \in T : ~(<<X, least>> \in R)
  <2> HIDE DEF T, R
  <2>1. IsWellFoundedOn(R, FiniteSubsetsOf(S))
    BY FS_StrictSubsetOrderingWellFounded DEF R
  <2> QED
    BY <1>1, <2>1, WFMin
<1>3. PICK x \in S : least = UpTo(x)
  BY <1>2
<1>4. \A y \in S : x <= y
  <2> SUFFICES ASSUME NEW y \in S, y < x PROVE FALSE
    OBVIOUS
  <2>0. y \in Nat /\ x \in Nat
    BY <1>n
  <2>1. UpTo(y) \subseteq UpTo(x) /\ x \in UpTo(x) /\ x \notin UpTo(y)
    <3>1. ASSUME NEW z \in UpTo(y) PROVE z \in UpTo(x)
      <4>1. z \in S /\ z \in Nat /\ z <= y
        BY <1>n
      <4>2. z <= x
        BY ONLY <4>1, <2>0, y < x
      <4> QED
        BY <4>1, <4>2
    <3>2. x <= x /\ ~(x <= y)
      BY ONLY <2>0, y < x
    <3> QED
      BY <3>1, <3>2
  <2>2. <<UpTo(y), UpTo(x)>> \in R
    BY <2>1 DEF StrictSubsetOrdering
  <2> QED
    BY <2>2, <1>2, <1>3
<1> QED
  BY <1>4 DEF Min
-----------------------------------------------------------------------------
(* The shape of the state.                                                  *)

Snapshots == [hash : Contents \cup {None}, gen : Nat, pending : BOOLEAN, required : BOOLEAN,
              token : Workers \cup {None}]
Pages == [Traces -> Contents] \cup {Off.page}
Runs == [pc : RunSteps, phase : {"none", "import", "recovery"}, queue : SUBSET Traces,
         cur : Traces \cup {None}, snap : Snapshots, todo : SUBSET Tables, cand : Nat, page : Pages]

ImportShape ==
    /\ clock \in Nat /\ cutoff \in Nat
    /\ staged \in [Traces -> Snapshots]
    /\ ckpt \in [status : {"idle", "running"}, token : Workers \cup {None}, lease : BOOLEAN]
    /\ run \in [Workers -> Runs]
    /\ provider \in [Traces -> Contents]
    /\ told \in [Traces -> [content : Contents, gen : Nat] \cup {None}]

-----------------------------------------------------------------------------
(* What a run may rely on, whether or not the checkpoint is still its own.  *)

\* A snapshot taken earlier is the staged one or an older one; one that was
\* to be removed is past the cutoff; scores below a snapshot's generation
\* have been announced before the run comes to publish it.
SnapshotKnown(w) ==
    LET t == run[w].cur
        s == run[w].snap
    IN  Materializing(w) =>
          /\ t \in Traces
          /\ s.hash # None /\ s.gen <= staged[t].gen
          /\ s.gen = staged[t].gen =>
               s.hash = staged[t].hash /\ (staged[t].pending => s.required = staged[t].required)
          /\ run[w].pc \in {"tombstone", "insert"} => s.required
          /\ run[w].pc \in {"expire", "discard"} => Expired(t)
          /\ run[w].pc = "publish" /\ ~s.required /\ told[t] # None => told[t].gen >= s.gen

RunKnows(w) ==
    /\ run[w].pc = "stage" => run[w].page \in [Traces -> Contents]
    /\ \A t \in run[w].queue : staged[t].hash # None
    /\ SnapshotKnown(w)

\* The run that holds the lease has every pending snapshot before it, and
\* there is none once it has fetched a page.
LeaseCovers(w) ==
    Holds(w) =>
      /\ run[w].pc \in {"next"} \cup SnapshotSteps =>
           \A t \in Traces : staged[t].pending =>
               t \in run[w].queue \/ (Materializing(w) /\ t = run[w].cur)
      /\ run[w].pc = "stage" => \A t \in Traces : ~staged[t].pending

-----------------------------------------------------------------------------
(* What has been announced of a trace: something unless its first tree is   *)
(* still to be published, nothing newer than what is staged, the tree       *)
(* unless it is about to be replaced, and the generation once the snapshot  *)
(* has been published.                                                      *)

Announced(t) ==
    /\ staged[t].pending => staged[t].hash # None
    /\ staged[t].hash = None => staged[t].gen = 0
    /\ Kept(t) /\ staged[t].hash # None /\ (~staged[t].pending \/ ~staged[t].required) =>
         told[t] # None
    /\ told[t] # None =>
         /\ staged[t].hash # None /\ told[t].gen <= staged[t].gen
         /\ told[t].gen = staged[t].gen => told[t].content.scores = staged[t].hash.scores
         /\ Kept(t) /\ (~staged[t].pending \/ ~staged[t].required) =>
              told[t].content.tree = staged[t].hash.tree
         /\ Kept(t) /\ ~staged[t].pending => told[t].gen = staged[t].gen

ImportInv ==
    /\ ImportShape
    /\ \A w \in Workers : RunKnows(w) /\ LeaseCovers(w)
    /\ \A t \in Traces : Announced(t)

-----------------------------------------------------------------------------
(* What every step may rely on, and owes to the other runs.                 *)

\* Generations grow, and so does what has been announced; within a
\* generation the content stays, and a snapshot is not opened again.
Grows ==
    /\ cutoff <= cutoff'
    /\ \A t \in Traces :
         /\ staged[t].gen <= staged'[t].gen
         /\ staged[t].hash # None => staged'[t].hash # None
         /\ staged[t].hash # None /\ staged'[t].gen = staged[t].gen =>
              /\ staged'[t].hash = staged[t].hash
              /\ staged'[t].pending =>
                   staged[t].pending /\ staged'[t].required = staged[t].required
         /\ told'[t] # None =>
              told'[t].gen >= IF told[t] = None THEN staged[t].gen ELSE told[t].gen

Covers(v) ==
    Holds(v)' => Holds(v) /\ \A t \in Traces : staged'[t].pending => staged[t].pending

Moved(w) ==
    /\ ImportShape' /\ Grows
    /\ \A v \in Workers \ {w} : run'[v] = run[v] /\ Covers(v)
    /\ RunKnows(w)' /\ LeaseCovers(w)'
    /\ \A t \in Traces : Announced(t)'

LEMMA ExpiredStays ==
    ASSUME ImportShape, ImportShape', cutoff <= cutoff', NEW t \in Traces, Expired(t)
    PROVE  Expired(t)'
BY StoreAssumption DEF StoreAssumption, ImportShape, Expired

LEMMA StillKnown ==
    ASSUME ImportShape, ImportShape', Grows, NEW v \in Workers, RunKnows(v), run'[v] = run[v]
    PROVE  RunKnows(v)'
<1> /\ run[v] \in Runs /\ run'[v] \in Runs
    /\ staged \in [Traces -> Snapshots] /\ staged' \in [Traces -> Snapshots]
    /\ told \in [Traces -> [content : Contents, gen : Nat] \cup {None}]
    /\ told' \in [Traces -> [content : Contents, gen : Nat] \cup {None}]
  BY DEF ImportShape
<1>1. \A t \in run[v].queue : staged'[t].hash # None
  BY DEF RunKnows, Grows, Runs
<1>2. SnapshotKnown(v)'
  <2> DEFINE t == run[v].cur
             s == run[v].snap
  <2> SUFFICES ASSUME Materializing(v)
               PROVE  /\ t \in Traces
                      /\ s.hash # None /\ s.gen <= staged'[t].gen
                      /\ s.gen = staged'[t].gen =>
                           /\ s.hash = staged'[t].hash
                           /\ staged'[t].pending => s.required = staged'[t].required
                      /\ run[v].pc \in {"tombstone", "insert"} => s.required
                      /\ run[v].pc \in {"expire", "discard"} => Expired(t)'
                      /\ run[v].pc = "publish" /\ ~s.required /\ told'[t] # None =>
                           told'[t].gen >= s.gen
    BY DEF SnapshotKnown, Materializing
  <2>1. SnapshotKnown(v)
    BY DEF RunKnows
  <2> t \in Traces
    BY <2>1 DEF SnapshotKnown
  <2>2. /\ s.hash # None /\ s.gen <= staged[t].gen
        /\ s.gen = staged[t].gen =>
             s.hash = staged[t].hash /\ (staged[t].pending => s.required = staged[t].required)
        /\ run[v].pc \in {"tombstone", "insert"} => s.required
        /\ run[v].pc \in {"expire", "discard"} => Expired(t)
        /\ run[v].pc = "publish" /\ ~s.required /\ told[t] # None => told[t].gen >= s.gen
    BY <2>1 DEF SnapshotKnown
  <2>3. s.gen \in Nat /\ staged[t].gen \in Nat /\ staged'[t].gen \in Nat
    BY DEF Runs, Snapshots
  <2>4. s.hash # None /\ s.gen <= staged'[t].gen
    BY <2>2, <2>3 DEF Grows
  <2>5. s.gen = staged'[t].gen =>
          /\ s.hash = staged'[t].hash
          /\ staged'[t].pending => s.required = staged'[t].required
    <3> SUFFICES ASSUME s.gen = staged'[t].gen
                 PROVE  /\ s.hash = staged'[t].hash
                        /\ staged'[t].pending => s.required = staged'[t].required
      OBVIOUS
    <3>1. staged[t].gen <= staged'[t].gen
      BY DEF Grows
    <3>2. s.gen <= staged[t].gen /\ s.gen = staged'[t].gen
      BY <2>2
    <3>3. s.gen = staged[t].gen /\ staged'[t].gen = staged[t].gen
      BY ONLY <3>1, <3>2, <2>3
    <3>4. /\ s.hash = staged[t].hash /\ staged[t].hash # None
          /\ staged[t].pending => s.required = staged[t].required
      BY <3>3, <2>2
    <3> QED
      BY <3>3, <3>4 DEF Grows
  <2>6. run[v].pc \in {"expire", "discard"} => Expired(t)'
    BY <2>2, ExpiredStays DEF Grows
  <2>7. run[v].pc = "publish" /\ ~s.required /\ told'[t] # None => told'[t].gen >= s.gen
    <3>1. CASE told[t] = None
      BY <3>1, <2>2, <2>3 DEF Grows
    <3>2. CASE told[t] # None
      <4>1. told[t].gen \in Nat
        BY <3>2
      <4>2. told'[t] # None => told'[t].gen \in Nat
        OBVIOUS
      <4> QED
        BY <3>2, <4>1, <4>2, <2>2, <2>3 DEF Grows
    <3> QED
      BY <3>1, <3>2
  <2> QED
    BY <2>2, <2>4, <2>5, <2>6, <2>7
<1> QED
  BY <1>1, <1>2 DEF RunKnows

LEMMA StillCovered ==
    ASSUME NEW v \in Workers, LeaseCovers(v), run'[v] = run[v], Covers(v)
    PROVE  LeaseCovers(v)'
BY DEF LeaseCovers, Covers, Materializing

LEMMA MovedKeeps ==
    ASSUME ImportInv, NEW w \in Workers, Moved(w)
    PROVE  ImportInv'
<1>1. ASSUME NEW v \in Workers PROVE RunKnows(v)' /\ LeaseCovers(v)'
  BY StillKnown, StillCovered DEF ImportInv, Moved
<1> QED
  BY <1>1 DEF ImportInv, Moved

\* Most steps leave the snapshots as they are, but for the run they belong to.
LEMMA SameSnapshots ==
    ASSUME ImportInv, ImportShape', cutoff <= cutoff', UNCHANGED told,
           \A t \in Traces : /\ staged'[t].hash = staged[t].hash
                             /\ staged'[t].gen = staged[t].gen
                             /\ staged'[t].pending = staged[t].pending
                             /\ staged'[t].required = staged[t].required
    PROVE  Grows /\ \A t \in Traces : Announced(t)'
<1>1. Grows
  <2>1. \A t \in Traces : staged[t].gen \in Nat /\ (told[t] # None => told[t].gen \in Nat)
    BY DEF ImportInv, ImportShape, Snapshots
  <2> QED
    BY <2>1 DEF Grows
<1>2. ASSUME NEW t \in Traces PROVE Announced(t)'
  <2>1. Kept(t)' => Kept(t)
    BY ExpiredStays DEF Kept, ImportInv
  <2> QED
    BY <2>1 DEF ImportInv, Announced
<1> QED
  BY <1>1, <1>2

LEMMA Frame ==
    ASSUME ImportInv, UNCHANGED <<staged, ckpt, run, told>>,
           provider' \in [Traces -> Contents], clock' \in Nat, cutoff' \in Nat, cutoff <= cutoff'
    PROVE  ImportInv'
<1>1. ImportShape'
  BY DEF ImportInv, ImportShape
<1>2. Grows /\ \A t \in Traces : Announced(t)'
  BY <1>1, SameSnapshots
<1>3. ASSUME NEW v \in Workers PROVE RunKnows(v)' /\ LeaseCovers(v)'
  <2>1. Covers(v)
    BY DEF Covers, Holds
  <2> QED
    BY <1>1, <1>2, <2>1, StillKnown, StillCovered DEF ImportInv
<1> QED
  BY <1>1, <1>2, <1>3 DEF ImportInv

-----------------------------------------------------------------------------
(* One lemma per step of a run.                                             *)

LEMMA OffIsRun == Off \in Runs /\ Off.pc = "off" /\ Off.queue = {}
<1>1. NotStaged \in Snapshots
  BY DEF NotStaged, Snapshots
<1> QED
  BY <1>1 DEF Off, Runs, RunSteps, Pages

\* Steps that leave the snapshots and what was announced alone.
LEMMA RunMoves ==
    ASSUME ImportInv, NEW w \in Workers, NEW r \in Runs, run' = [run EXCEPT ![w] = r],
           UNCHANGED <<clock, cutoff, provider, told>>,
           staged' \in [Traces -> Snapshots],
           \A t \in Traces : /\ staged'[t].hash = staged[t].hash
                             /\ staged'[t].gen = staged[t].gen
                             /\ staged'[t].pending = staged[t].pending
                             /\ staged'[t].required = staged[t].required,
           ckpt' \in [status : {"idle", "running"}, token : Workers \cup {None}, lease : BOOLEAN],
           \A v \in Workers \ {w} : Holds(v)' => Holds(v),
           RunKnows(w)', LeaseCovers(w)'
    PROVE  Moved(w)
<1>1. run' \in [Workers -> Runs] /\ \A v \in Workers \ {w} : run'[v] = run[v]
  BY DEF ImportInv, ImportShape
<1>2. ImportShape'
  BY <1>1 DEF ImportInv, ImportShape
<1>3. cutoff <= cutoff'
  BY DEF ImportInv, ImportShape
<1>4. Grows /\ \A t \in Traces : Announced(t)'
  BY <1>2, <1>3, SameSnapshots
<1>5. \A v \in Workers \ {w} : Covers(v)
  BY DEF Covers
<1> QED
  BY <1>1, <1>2, <1>4, <1>5 DEF Moved

\* The run is over, and gives the checkpoint back if it is still its own.
LEMMA ThrowMoves ==
    ASSUME ImportInv, NEW w \in Workers, Throw(w), UNCHANGED <<provider, told>>
    PROVE  Moved(w)
<1>1. UNCHANGED <<clock, cutoff, staged>> /\ run' = [run EXCEPT ![w] = Off]
  BY DEF Throw
<1>2. run'[w] = Off /\ Off \in Runs
  BY <1>1, OffIsRun DEF ImportInv, ImportShape
<1>3. RunKnows(w)' /\ LeaseCovers(w)'
  BY <1>2, OffIsRun DEF RunKnows, SnapshotKnown, LeaseCovers, Materializing, SnapshotSteps
<1>4. \A v \in Workers \ {w} : Holds(v)' => Holds(v)
  BY DEF Throw, Holds
<1>5. ckpt' \in [status : {"idle", "running"}, token : Workers \cup {None}, lease : BOOLEAN]
  BY DEF Throw, ImportInv, ImportShape
<1>6. staged' \in [Traces -> Snapshots]
  BY <1>1 DEF ImportInv, ImportShape
<1> QED
  BY <1>1, <1>2, <1>3, <1>4, <1>5, <1>6, RunMoves

LEMMA ClaimMoves ==
    ASSUME ImportInv, NEW w \in Workers, Claim(w)
    PROVE  Moved(w)
<1>1. UNCHANGED <<clock, cutoff, staged, provider, told>>
  BY DEF Claim, storeVars
<1>2. PICK phase \in {"import", "recovery"} :
         run' = [run EXCEPT ![w] = [Off EXCEPT !.pc = "claim", !.phase = phase]]
  BY DEF Claim
<1> DEFINE r == [Off EXCEPT !.pc = "claim", !.phase = phase]
<1>3. r \in Runs /\ r.pc = "claim" /\ r.queue = {}
  BY OffIsRun DEF Runs, RunSteps
<1>4. run'[w] = r
  BY <1>2 DEF ImportInv, ImportShape
<1> HIDE DEF r
<1>5. RunKnows(w)' /\ LeaseCovers(w)'
  BY <1>3, <1>4 DEF RunKnows, SnapshotKnown, LeaseCovers, Materializing, SnapshotSteps
<1>6. ckpt' = [status |-> "running", token |-> w, lease |-> TRUE]
  BY DEF Claim
<1>7. staged' \in [Traces -> Snapshots]
  BY <1>1 DEF ImportInv, ImportShape
<1>8. run' = [run EXCEPT ![w] = r]
  BY <1>2 DEF r
<1>9. \A v \in Workers \ {w} : Holds(v)' => Holds(v)
  BY <1>6 DEF Holds
<1> QED
  BY <1>1, <1>3, <1>5, <1>6, <1>7, <1>8, <1>9, RunMoves

LEMMA ClaimPendingMoves ==
    ASSUME ImportInv, NEW w \in Workers, ClaimPending(w)
    PROVE  Moved(w)
<1>1. CASE Throw(w)
  BY <1>1, ThrowMoves DEF ClaimPending
<1>2. CASE ~Throw(w)
  <2> DEFINE queue == {t \in Traces : staged[t].pending}
             r == [run[w] EXCEPT !.pc = "next", !.queue = queue]
  <2>1. /\ UNCHANGED <<clock, cutoff, provider, told, ckpt>>
        /\ staged' = [t \in Traces |->
              IF t \in queue THEN [staged[t] EXCEPT !.token = w] ELSE staged[t]]
        /\ run' = [run EXCEPT ![w].pc = "next", ![w].queue = queue]
    BY <1>2 DEF ClaimPending
  <2>2. run \in [Workers -> Runs] /\ staged \in [Traces -> Snapshots]
    BY DEF ImportInv, ImportShape
  <2>3. r \in Runs /\ r.pc = "next" /\ r.queue = queue
    BY <2>2 DEF Runs, RunSteps
  <2>4. run' = [run EXCEPT ![w] = r] /\ run'[w] = r
    BY <2>1, <2>2 DEF Runs
  <2>5. /\ staged' \in [Traces -> Snapshots]
        /\ \A t \in Traces : /\ staged'[t].hash = staged[t].hash
                             /\ staged'[t].gen = staged[t].gen
                             /\ staged'[t].pending = staged[t].pending
                             /\ staged'[t].required = staged[t].required
    BY <2>1, <2>2 DEF Snapshots
  <2>6. RunKnows(w)'
    <3>1. \A t \in queue : staged'[t].hash # None
      BY <2>5 DEF ImportInv, Announced
    <3> QED
      BY <2>3, <2>4, <3>1 DEF RunKnows, SnapshotKnown, Materializing, SnapshotSteps
  <2>7. LeaseCovers(w)'
    BY <2>3, <2>4, <2>5 DEF LeaseCovers
  <2>8. /\ ckpt' \in [status : {"idle", "running"}, token : Workers \cup {None}, lease : BOOLEAN]
        /\ \A v \in Workers \ {w} : Holds(v)' => Holds(v)
    BY <2>1 DEF Holds, ImportInv, ImportShape
  <2> HIDE DEF r, queue
  <2> QED
    BY <2>1, <2>3, <2>4, <2>5, <2>6, <2>7, <2>8, RunMoves
<1> QED
  BY <1>1, <1>2

\* The same, of a step that changes nothing but the run.
LEMMA OnlyRunMoves ==
    ASSUME ImportInv, NEW w \in Workers, NEW r \in Runs, run' = [run EXCEPT ![w] = r],
           UNCHANGED <<clock, cutoff, provider, told, staged, ckpt>>,
           RunKnows(w)', LeaseCovers(w)'
    PROVE  Moved(w)
<1>1. staged' \in [Traces -> Snapshots]
      /\ ckpt' \in [status : {"idle", "running"}, token : Workers \cup {None}, lease : BOOLEAN]
  BY DEF ImportInv, ImportShape
<1>2. \A v \in Workers \ {w} : Holds(v)' => Holds(v)
  BY DEF Holds
<1> QED
  BY <1>1, <1>2, RunMoves

LEMMA BeginSnapshotMoves ==
    ASSUME ImportInv, NEW w \in Workers, BeginSnapshot(w)
    PROVE  Moved(w)
<1>1. CASE Throw(w)
  BY <1>1, ThrowMoves DEF BeginSnapshot
<1>2. CASE ~Throw(w)
  <2> DEFINE t == Min(run[w].queue)
             r == [run[w] EXCEPT !.pc = FirstStep(t, staged[t]), !.cur = t, !.queue = @ \ {t},
                                 !.snap = staged[t], !.todo = Tables]
  <2>1. /\ UNCHANGED <<clock, cutoff, provider, told, staged, ckpt>>
        /\ run' = [run EXCEPT ![w].pc = FirstStep(t, staged[t]), ![w].cur = t,
                              ![w].queue = @ \ {t}, ![w].snap = staged[t], ![w].todo = Tables]
        /\ run[w].pc = "next" /\ run[w].queue # {}
    BY <1>2 DEF BeginSnapshot
  <2>2. run \in [Workers -> Runs] /\ staged \in [Traces -> Snapshots]
    BY DEF ImportInv, ImportShape
  <2>3. t \in run[w].queue /\ t \in Traces
    BY <2>1, <2>2, LeastOf, StoreAssumption DEF StoreAssumption, Runs
  <2> DEFINE pc == FirstStep(t, staged[t])
  <2>4. /\ pc \in {"expire", "tombstone", "scores"}
        /\ pc = "expire" => Expired(t)
        /\ pc = "tombstone" => staged[t].required
    BY DEF FirstStep
  <2> HIDE DEF pc
  <2>5. /\ r \in Runs /\ r.pc = pc /\ r.cur = t /\ r.snap = staged[t] /\ r.page = run[w].page
        /\ r.queue = run[w].queue \ {t}
    BY <2>2, <2>3, <2>4 DEF Runs, RunSteps, SnapshotSteps, pc
  <2>6. run' = [run EXCEPT ![w] = r] /\ run'[w] = r
    BY <2>1, <2>2 DEF Runs
  <2> HIDE DEF r
  <2>7. RunKnows(w)'
    <3>1. \A u \in run[w].queue : staged[u].hash # None
      BY DEF ImportInv, RunKnows
    <3>2. SnapshotKnown(w)'
      <4>1. staged[t].gen <= staged[t].gen
        BY <2>2, <2>3 DEF Snapshots
      <4>2. staged'[t] = staged[t] /\ cutoff' = cutoff
        BY <2>1
      <4> HIDE DEF t
      <4> QED
        BY <2>3, <2>4, <2>5, <2>6, <3>1, <4>1, <4>2 DEF SnapshotKnown, Expired
    <3> QED
      BY <2>1, <2>4, <2>5, <2>6, <3>1, <3>2 DEF RunKnows
  <2>8. LeaseCovers(w)'
    <3> HIDE DEF t
    <3> QED
      BY <2>1, <2>4, <2>5, <2>6 DEF ImportInv, LeaseCovers, Materializing, Holds, SnapshotSteps
  <2> QED
    BY <2>1, <2>5, <2>6, <2>7, <2>8, OnlyRunMoves
<1> QED
  BY <1>1, <1>2

LEMMA FetchPageMoves ==
    ASSUME ImportInv, NEW w \in Workers, FetchPage(w)
    PROVE  Moved(w)
<1>1. CASE Throw(w)
  BY <1>1, ThrowMoves DEF FetchPage
<1>2. CASE ~Throw(w)
  <2> DEFINE r == [run[w] EXCEPT !.pc = "stage", !.page = provider, !.cand = clock]
  <2>1. /\ UNCHANGED <<clock, cutoff, provider, told, staged, ckpt>>
        /\ run' = [run EXCEPT ![w].pc = "stage", ![w].page = provider, ![w].cand = clock]
        /\ run[w].pc = "next" /\ run[w].queue = {} /\ Holds(w)
    BY <1>2 DEF FetchPage, Emptied, storeVars
  <2>2. run \in [Workers -> Runs] /\ provider \in [Traces -> Contents] /\ clock \in Nat
    BY DEF ImportInv, ImportShape
  <2>3. r \in Runs /\ r.pc = "stage" /\ r.queue = {} /\ r.page = provider
    BY <2>1, <2>2 DEF Runs, RunSteps, Pages
  <2>4. run' = [run EXCEPT ![w] = r] /\ run'[w] = r
    BY <2>1, <2>2 DEF Runs
  <2>5. RunKnows(w)'
    BY <2>2, <2>3, <2>4 DEF RunKnows, SnapshotKnown, Materializing, SnapshotSteps
  <2>6. \A t \in Traces : ~staged[t].pending
    BY <2>1 DEF ImportInv, LeaseCovers, Materializing, SnapshotSteps
  <2>7. LeaseCovers(w)'
    BY <2>1, <2>3, <2>4, <2>6 DEF LeaseCovers, SnapshotSteps
  <2> HIDE DEF r
  <2> QED
    BY <2>1, <2>3, <2>4, <2>5, <2>7, OnlyRunMoves
<1> QED
  BY <1>1, <1>2

LEMMA FinishRunMoves ==
    ASSUME ImportInv, NEW w \in Workers, FinishRun(w)
    PROVE  Moved(w)
<1>1. CASE Throw(w)
  BY <1>1, ThrowMoves DEF FinishRun
<1>2. CASE ~Throw(w)
  <2>1. UNCHANGED <<clock, cutoff, provider, told, staged>> /\ run' = [run EXCEPT ![w] = Off]
    BY <1>2 DEF FinishRun, storeVars
  <2>2. ckpt' = [status |-> "idle", token |-> None, lease |-> FALSE]
    BY <1>2 DEF FinishRun
  <2>3. run'[w] = Off
    BY <2>1 DEF ImportInv, ImportShape
  <2>4. RunKnows(w)' /\ LeaseCovers(w)'
    BY <2>3, OffIsRun DEF RunKnows, SnapshotKnown, LeaseCovers, Materializing, SnapshotSteps
  <2>5. \A v \in Workers \ {w} : Holds(v)' => Holds(v)
    BY <2>2 DEF Holds
  <2>6. staged' \in [Traces -> Snapshots]
    BY <2>1 DEF ImportInv, ImportShape
  <2> QED
    BY <2>1, <2>2, <2>4, <2>5, <2>6, OffIsRun, RunMoves
<1> QED
  BY <1>1, <1>2

LEMMA RemovingMoves ==
    ASSUME ImportInv, NEW w \in Workers, NEW table \in Tables,
           TombstoneExpired(w, table) \/ TombstoneTree(w, table) \/ InsertTree(w, table)
    PROVE  Moved(w)
<1>1. UNCHANGED <<clock, cutoff, provider, told, staged, ckpt>>
  BY DEF TombstoneExpired, TombstoneTree, InsertTree
<1>2. run \in [Workers -> Runs]
  BY DEF ImportInv, ImportShape
<1>3. PICK pc \in RunSteps, todo \in SUBSET Tables :
         /\ run' = [run EXCEPT ![w].todo = todo, ![w].pc = pc]
         /\ \/ pc = run[w].pc
            \/ run[w].pc = "expire" /\ pc = "discard"
            \/ run[w].pc = "tombstone" /\ pc = "insert"
            \/ run[w].pc = "insert" /\ pc = "expire" /\ Expired(run[w].cur)
            \/ run[w].pc = "insert" /\ pc = "publish"
         /\ run[w].pc \in {"expire", "tombstone", "insert"}
  <2>1. CASE TombstoneExpired(w, table)
    <3> DEFINE pc == IF run[w].todo = {table} THEN "discard" ELSE run[w].pc
    <3>1. run' = [run EXCEPT ![w].todo = run[w].todo \ {table}, ![w].pc = pc]
      BY <2>1, <1>2 DEF TombstoneExpired, Runs
    <3>2. run[w].todo \ {table} \in SUBSET Tables
      BY <1>2 DEF Runs
    <3>3. run[w].pc = "expire"
      BY <2>1 DEF TombstoneExpired
    <3> QED
      BY <3>1, <3>2, <3>3 DEF RunSteps, SnapshotSteps
  <2>2. CASE TombstoneTree(w, table)
    <3> DEFINE pc == IF run[w].todo = {table} THEN "insert" ELSE run[w].pc
               todo == IF run[w].todo = {table} THEN Tables ELSE run[w].todo \ {table}
    <3>1. run' = [run EXCEPT ![w].todo = todo, ![w].pc = pc]
      BY <2>2, <1>2 DEF TombstoneTree, Runs
    <3>2. todo \in SUBSET Tables
      BY <1>2 DEF Runs
    <3>3. run[w].pc = "tombstone"
      BY <2>2 DEF TombstoneTree
    <3> QED
      BY <3>1, <3>2, <3>3 DEF RunSteps, SnapshotSteps
  <2>3. CASE InsertTree(w, table)
    <3> DEFINE pc == CASE run[w].todo # {table} -> run[w].pc
                       [] run[w].todo = {table} /\ Expired(run[w].cur) -> "expire"
                       [] OTHER -> "publish"
               todo == IF run[w].todo = {table} THEN Tables ELSE run[w].todo \ {table}
    <3>1. run' = [run EXCEPT ![w].todo = todo, ![w].pc = pc]
      BY <2>3, <1>2 DEF InsertTree, Runs
    <3>2. todo \in SUBSET Tables
      BY <1>2 DEF Runs
    <3>3. run[w].pc = "insert"
      BY <2>3 DEF InsertTree
    <3>4. pc = run[w].pc \/ (pc = "expire" /\ Expired(run[w].cur)) \/ pc = "publish"
      OBVIOUS
    <3> HIDE DEF pc, todo
    <3> QED
      BY <3>1, <3>2, <3>3, <3>4 DEF RunSteps, SnapshotSteps
  <2> QED
    BY <2>1, <2>2, <2>3
<1> DEFINE r == [run[w] EXCEPT !.todo = todo, !.pc = pc]
<1>4. /\ r \in Runs /\ r.pc = pc /\ r.queue = run[w].queue /\ r.cur = run[w].cur
      /\ r.snap = run[w].snap /\ r.page = run[w].page
      /\ pc \in SnapshotSteps /\ run[w].pc \in SnapshotSteps
  BY <1>2, <1>3 DEF Runs, RunSteps, SnapshotSteps
<1>5. run' = [run EXCEPT ![w] = r] /\ run'[w] = r
  BY <1>2, <1>3 DEF Runs
<1> HIDE DEF r
<1>6. RunKnows(w)'
  <2>1. RunKnows(w)
    BY DEF ImportInv
  <2>2. SnapshotKnown(w)'
    BY <1>1, <1>3, <1>4, <1>5, <2>1 DEF RunKnows, SnapshotKnown, Materializing, Expired
  <2>3. pc # "stage"
    BY <1>4 DEF SnapshotSteps
  <2> QED
    BY <1>1, <1>4, <1>5, <2>1, <2>2, <2>3 DEF RunKnows
<1>7. LeaseCovers(w)'
  BY <1>1, <1>4, <1>5 DEF ImportInv, LeaseCovers, Materializing, Holds, SnapshotSteps
<1> QED
  BY <1>1, <1>4, <1>5, <1>6, <1>7, OnlyRunMoves

LEMMA NoneIsNoNews == None \notin [content : Contents, gen : Nat]
BY ImportAssumption DEF Contents

LEMMA PublishScoresMoves ==
    ASSUME ImportInv, NEW w \in Workers, PublishScores(w)
    PROVE  Moved(w)
<1> DEFINE t == run[w].cur
           s == run[w].snap
           new == [told[t] EXCEPT !.content.scores = s.hash.scores, !.gen = s.gen]
           r == [run[w] EXCEPT !.pc = "publish"]
<1>1. /\ UNCHANGED <<clock, cutoff, staged, ckpt, provider>>
      /\ told' = [told EXCEPT ![t] = IF told[t] = None \/ told[t].gen > s.gen THEN told[t] ELSE new]
      /\ run' = [run EXCEPT ![w].pc = "publish"] /\ run[w].pc = "scores"
  BY DEF PublishScores, storeVars
<1>2. /\ run \in [Workers -> Runs] /\ staged \in [Traces -> Snapshots]
      /\ told \in [Traces -> [content : Contents, gen : Nat] \cup {None}]
  BY DEF ImportInv, ImportShape
<1>3. r \in Runs /\ run'[w] = r /\ run' \in [Workers -> Runs]
      /\ \A v \in Workers \ {w} : run'[v] = run[v]
  BY <1>1, <1>2 DEF Runs, RunSteps, SnapshotSteps
<1>4. /\ t \in Traces /\ s.hash \in Contents /\ s.gen \in Nat /\ s.gen <= staged[t].gen
      /\ s.gen = staged[t].gen =>
           s.hash = staged[t].hash /\ (staged[t].pending => s.required = staged[t].required)
      /\ s.hash # None
  <2>1. SnapshotKnown(w) /\ Materializing(w)
    BY <1>1 DEF ImportInv, RunKnows, Materializing, SnapshotSteps
  <2>2. s \in Snapshots
    BY <1>2 DEF Runs
  <2> QED
    BY <2>1, <2>2 DEF SnapshotKnown, Snapshots
<1>5. \/ told' = told /\ (told[t] = None \/ told[t].gen >= s.gen)
      \/ /\ told[t] # None /\ told' = [told EXCEPT ![t] = new] /\ told[t].gen <= s.gen
         /\ new \in [content : Contents, gen : Nat] /\ new.gen = s.gen /\ new # None
         /\ new.content.scores = s.hash.scores /\ new.content.tree = told[t].content.tree
  <2>1. CASE told[t] = None \/ told[t].gen > s.gen
    <3>1. told' = told
      BY <2>1, <1>1, <1>2
    <3>2. told[t] # None => told[t].gen \in Nat
      BY <1>2, <1>4
    <3> QED
      BY <2>1, <3>1, <3>2, <1>4
  <2>2. CASE told[t] # None /\ ~(told[t].gen > s.gen)
    <3>1. told[t] \in [content : Contents, gen : Nat] /\ s.hash.scores \in ScoreSets
      BY <2>2, <1>2, <1>4 DEF Contents
    <3>2. told[t].gen <= s.gen
      <4>1. told[t].gen \in Nat
        BY <3>1
      <4> QED
        BY ONLY <4>1, <2>2, <1>4
    <3>3. /\ new \in [content : Contents, gen : Nat] /\ new.gen = s.gen
          /\ new.content.scores = s.hash.scores /\ new.content.tree = told[t].content.tree
      BY <3>1, <1>4 DEF Contents
    <3>4. told' = [told EXCEPT ![t] = new]
      BY <2>2, <1>1
    <3>5. new # None
      BY <3>3, NoneIsNoNews
    <3> QED
      BY <2>2, <3>2, <3>3, <3>4, <3>5
  <2> QED
    BY <2>1, <2>2
<1> HIDE DEF new
<1>6. told' \in [Traces -> [content : Contents, gen : Nat] \cup {None}]
      /\ \A u \in Traces \ {t} : told'[u] = told[u]
  BY <1>2, <1>4, <1>5
<1>7. ImportShape'
  BY <1>1, <1>3, <1>6 DEF ImportInv, ImportShape
<1>8. \A u \in Traces : staged[u].gen \in Nat /\ (told[u] # None => told[u].gen \in Nat)
  BY <1>2 DEF Snapshots
<1>9. Grows
  <2>1. cutoff <= cutoff'
    BY <1>1 DEF ImportInv, ImportShape
  <2>2. \A u \in Traces : /\ staged'[u] = staged[u] /\ staged[u].gen <= staged[u].gen
                          /\ told'[u] # None => told[u] # None /\ told'[u].gen >= told[u].gen
    <3> SUFFICES ASSUME NEW u \in Traces, told'[u] # None
                 PROVE  told[u] # None /\ told'[u].gen >= told[u].gen
      BY <1>1, <1>8
    <3>1. CASE told'[u] = told[u]
      BY <3>1, <1>8
    <3>2. CASE u = t /\ told' = [told EXCEPT ![t] = new] /\ told'[u] # told[u]
      <4>1. told'[u] = new
        BY <3>2, <1>2, <1>4
      <4>2. told[u] # None /\ told[u].gen <= new.gen /\ new.gen \in Nat
        BY <3>2, <1>4, <1>5
      <4>3. told[u].gen \in Nat
        BY <4>2, <1>8
      <4> QED
        BY ONLY <4>1, <4>2, <4>3
    <3> QED
      BY <3>1, <3>2, <1>5, <1>6
  <2> QED
    BY <2>1, <2>2 DEF Grows
<1>10. ASSUME NEW u \in Traces PROVE Announced(u)'
  <2>1. Announced(u) /\ (Kept(u)' => Kept(u)) /\ staged'[u] = staged[u]
    BY <1>1 DEF ImportInv, Kept, Expired
  <2>2. CASE told'[u] = told[u]
    BY <2>1, <2>2 DEF Announced
  <2>3. CASE u = t /\ told' = [told EXCEPT ![t] = new] /\ told'[u] # told[u]
    <3>1. /\ told'[u] = new /\ told[u] # None /\ told[u].gen <= s.gen /\ new.gen = s.gen
          /\ new # None
      BY <2>3, <1>2, <1>4, <1>5
    <3>2. told[u].gen <= staged[u].gen /\ staged[u].hash # None
      BY <2>1, <3>1 DEF Announced
    <3>3. Kept(u) /\ ~staged[u].pending => new.gen = staged[u].gen
      <4> SUFFICES ASSUME Kept(u), ~staged[u].pending PROVE new.gen = staged[u].gen
        OBVIOUS
      <4>1. told[u].gen = staged[u].gen
        BY <2>1, <3>1 DEF Announced
      <4>2. s.gen <= staged[u].gen
        BY <1>4, <2>3
      <4> QED
        BY ONLY <4>1, <4>2, <3>1, <1>4, <1>8, u \in Traces
    <3>4. new.content.scores = s.hash.scores /\ new.content.tree = told[u].content.tree
      BY <3>1, <2>3, <1>5
    <3> QED
      BY <2>1, <2>3, <3>1, <3>2, <3>3, <3>4, <1>4 DEF Announced
  <2> QED
    BY <2>2, <2>3, <1>5, <1>6
<1>11. RunKnows(w)'
  <2>1. RunKnows(w)
    BY DEF ImportInv
  <2>2. /\ run'[w].pc = "publish" /\ run'[w].queue = run[w].queue
        /\ run'[w].cur = t /\ run'[w].snap = s
    BY <1>2, <1>3 DEF Runs
  <2>3. told'[t] # None => told'[t].gen >= s.gen
    <3>1. s.gen >= s.gen
      BY <1>4
    <3> QED
      BY <3>1, <1>2, <1>4, <1>5
  <2>4. SnapshotKnown(w)'
    BY <1>1, <1>4, <2>2, <2>3 DEF SnapshotKnown
  <2> QED
    BY <1>1, <2>1, <2>2, <2>4 DEF RunKnows
<1>12. LeaseCovers(w)'
  <2>1. /\ run'[w].pc = "publish" /\ run'[w].queue = run[w].queue /\ run'[w].cur = t
    BY <1>2, <1>3 DEF Runs
  <2> QED
    BY <1>1, <2>1 DEF ImportInv, LeaseCovers, Materializing, Holds, SnapshotSteps
<1>13. \A v \in Workers \ {w} : Covers(v)
  BY <1>1 DEF Covers, Holds
<1> QED
  BY <1>3, <1>7, <1>9, <1>10, <1>11, <1>12, <1>13 DEF Moved

\* The transaction that clears a snapshot, having announced it or not.
LEMMA ClearedMoves ==
    ASSUME ImportInv, NEW w \in Workers, NEW t \in Traces, run[w].cur = t,
           staged' = Cleared(w), run' = [run EXCEPT ![w] = Between(w)],
           run[w].pc \in SnapshotSteps,
           UNCHANGED <<clock, cutoff, provider, ckpt>>,
           told' \in [Traces -> [content : Contents, gen : Nat] \cup {None}],
           \A u \in Traces \ {t} : told'[u] = told[u],
           told'[t] # None =>
               told'[t].gen >= IF told[t] = None THEN staged[t].gen ELSE told[t].gen,
           Announced(t)'
    PROVE  Moved(w)
<1> DEFINE r == Between(w)
           cleared == [staged[t] EXCEPT !.pending = FALSE, !.required = FALSE, !.token = None]
<1>1. run \in [Workers -> Runs] /\ staged \in [Traces -> Snapshots]
      /\ told \in [Traces -> [content : Contents, gen : Nat] \cup {None}]
  BY DEF ImportInv, ImportShape
<1>2. r \in Runs /\ r.pc = "next" /\ r.queue = run[w].queue
  BY <1>1, OffIsRun DEF Between, Runs, RunSteps
<1>3. /\ run'[w] = r /\ run' \in [Workers -> Runs]
      /\ \A v \in Workers \ {w} : run'[v] = run[v]
  BY <1>1, <1>2
<1> HIDE DEF r
<1>4. /\ staged' \in [Traces -> Snapshots]
      /\ \A u \in Traces \ {t} : staged'[u] = staged[u]
      /\ ~staged'[t].pending
      /\ \A u \in Traces : staged'[u].hash = staged[u].hash /\ staged'[u].gen = staged[u].gen
  <2>1. staged' = [staged EXCEPT ![t] = cleared]
    BY <1>1 DEF Cleared
  <2>2. /\ cleared \in Snapshots /\ ~cleared.pending
        /\ cleared.hash = staged[t].hash /\ cleared.gen = staged[t].gen
    <3>1. staged[t] \in Snapshots
      BY <1>1
    <3> QED
      BY ONLY <3>1 DEF Snapshots
  <2> HIDE DEF cleared
  <2> QED
    BY <1>1, <2>1, <2>2
<1>5. ImportShape'
  BY <1>3, <1>4 DEF ImportInv, ImportShape
<1>6. \A u \in Traces : staged'[u].pending =>
          staged[u].pending /\ staged'[u].required = staged[u].required
  BY <1>4
<1>7. Grows
  <2>1. cutoff <= cutoff'
    BY DEF ImportInv, ImportShape
  <2>2. ASSUME NEW u \in Traces
        PROVE  /\ staged[u].gen <= staged'[u].gen
               /\ told'[u] # None =>
                    told'[u].gen >= IF told[u] = None THEN staged[u].gen ELSE told[u].gen
    <3>1. staged[u].gen <= staged'[u].gen
      BY <1>1, <1>4 DEF Snapshots
    <3>2. CASE u = t
      BY <3>1, <3>2
    <3>3. CASE u # t
      BY <3>1, <3>3, <1>1
    <3> QED
      BY <3>2, <3>3
  <2> QED
    BY <2>1, <2>2, <1>4, <1>6 DEF Grows
<1>8. ASSUME NEW u \in Traces PROVE Announced(u)'
  <2>1. CASE u # t
    <3>1. Announced(u) /\ (Kept(u)' => Kept(u)) /\ staged'[u] = staged[u] /\ told'[u] = told[u]
      BY <2>1, <1>4 DEF ImportInv, Kept, Expired
    <3> QED
      BY <3>1 DEF Announced
  <2> QED
    BY <2>1
<1>9. RunKnows(w)'
  <2>1. \A u \in run[w].queue : u \in Traces /\ staged[u].hash # None
    BY <1>1 DEF ImportInv, RunKnows, Runs
  <2> QED
    BY <1>2, <1>3, <1>4, <2>1 DEF RunKnows, SnapshotKnown, Materializing, SnapshotSteps
<1>10. LeaseCovers(w)'
  BY <1>2, <1>3, <1>4, <1>6 DEF ImportInv, LeaseCovers, Materializing, Holds, SnapshotSteps
<1>11. \A v \in Workers \ {w} : Covers(v)
  BY <1>6 DEF Covers, Holds
<1> QED
  BY <1>3, <1>5, <1>7, <1>8, <1>9, <1>10, <1>11 DEF Moved

LEMMA DiscardMoves ==
    ASSUME ImportInv, NEW w \in Workers, Discard(w)
    PROVE  Moved(w)
<1>1. CASE Throw(w)
  BY <1>1, ThrowMoves DEF Discard
<1>2. CASE ~Throw(w)
  <2>1. /\ UNCHANGED <<clock, cutoff, provider, ckpt, told>>
        /\ staged' = Cleared(w) /\ run' = [run EXCEPT ![w] = Between(w)]
        /\ run[w].pc = "discard" /\ StillOurs(w)
    BY <1>2 DEF Discard
  <2>2. PICK t \in Traces : run[w].cur = t /\ Expired(t)
    BY <2>1 DEF ImportInv, RunKnows, SnapshotKnown, Materializing, SnapshotSteps
  <2>3. /\ staged \in [Traces -> Snapshots]
        /\ told \in [Traces -> [content : Contents, gen : Nat] \cup {None}]
    BY DEF ImportInv, ImportShape
  <2>4. /\ staged'[t].hash = staged[t].hash /\ staged'[t].gen = staged[t].gen
        /\ ~staged'[t].pending
    BY <2>1, <2>2, <2>3 DEF Cleared, Snapshots
  <2>5. Announced(t)'
    BY <2>1, <2>2, <2>4 DEF ImportInv, Announced, Kept, Expired
  <2>6. told[t] # None => told[t].gen >= told[t].gen
    BY <2>2, <2>3
  <2> QED
    BY <2>1, <2>2, <2>3, <2>5, <2>6, ClearedMoves DEF SnapshotSteps
<1> QED
  BY <1>1, <1>2

LEMMA PublishImportMoves ==
    ASSUME ImportInv, NEW w \in Workers, PublishImport(w)
    PROVE  Moved(w)
<1>1. CASE Throw(w) /\ UNCHANGED told
  BY <1>1, ThrowMoves DEF PublishImport
<1>2. CASE ~(Throw(w) /\ UNCHANGED told)
  <2>1. /\ UNCHANGED <<clock, cutoff, provider, ckpt>>
        /\ staged' = Cleared(w) /\ run' = [run EXCEPT ![w] = Between(w)]
        /\ run[w].pc = "publish" /\ StillOurs(w) /\ ~Expired(run[w].cur)
    BY <1>2 DEF PublishImport
  <2>2. PICK t \in Traces : run[w].cur = t
    BY <2>1 DEF ImportInv, RunKnows, SnapshotKnown, Materializing, SnapshotSteps
  <2>3. /\ staged \in [Traces -> Snapshots] /\ run[w] \in Runs
        /\ told \in [Traces -> [content : Contents, gen : Nat] \cup {None}]
    BY DEF ImportInv, ImportShape
  <2> DEFINE s == run[w].snap
             new == [content |-> s.hash, gen |-> s.gen]
  <2>4. IF staged[t].required THEN told' = [told EXCEPT ![t] = new] ELSE told' = told
    BY <1>2, <2>2 DEF PublishImport
  <2>5. /\ staged[t].pending /\ s.gen = staged[t].gen /\ s.hash = staged[t].hash
        /\ s.required = staged[t].required /\ s.hash # None
        /\ ~s.required /\ told[t] # None => told[t].gen >= s.gen
    BY <2>1, <2>2 DEF StillOurs, ImportInv, RunKnows, SnapshotKnown, Materializing, SnapshotSteps
  <2>6. s.hash \in Contents /\ s.gen \in Nat /\ new \in [content : Contents, gen : Nat]
    <3>1. s.hash \in Contents /\ s.gen \in Nat
      BY <2>3, <2>5 DEF Runs, Snapshots
    <3> QED
      BY <3>1
  <2>7. new.content = s.hash /\ new.gen = s.gen
    OBVIOUS
  <2> HIDE DEF new
  <2>8. /\ staged'[t].hash = staged[t].hash /\ staged'[t].gen = staged[t].gen
        /\ ~staged'[t].pending
    BY <2>1, <2>2, <2>3 DEF Cleared, Snapshots
  <2>9. Kept(t)
    BY <2>1, <2>2 DEF Kept
  <2>10. Announced(t)
    BY DEF ImportInv
  <2>11. CASE staged[t].required
    <3>1. told'[t] = new /\ \A u \in Traces \ {t} : told'[u] = told[u]
      BY <2>3, <2>4, <2>11
    <3>2. told' \in [Traces -> [content : Contents, gen : Nat] \cup {None}]
      BY <2>3, <2>4, <2>6, <2>11
    <3>3. new.gen <= new.gen
      BY <2>6, <2>7
    <3>4. Announced(t)'
      BY <2>5, <2>6, <2>7, <2>8, <3>1, <3>3, NoneIsNoNews DEF Announced
    <3>5. new.gen >= IF told[t] = None THEN staged[t].gen ELSE told[t].gen
      <4>1. told[t] # None => told[t].gen <= staged[t].gen /\ told[t].gen \in Nat
        BY <2>3, <2>10 DEF Announced
      <4> QED
        BY <4>1, <2>5, <2>6, <2>7
    <3> QED
      BY <2>1, <2>2, <3>1, <3>2, <3>4, <3>5, ClearedMoves DEF SnapshotSteps
  <2>12. CASE ~staged[t].required
    <3>1. told' = told
      BY <2>4, <2>12
    <3>2. ASSUME told[t] # None
          PROVE  told[t].gen = staged[t].gen /\ told[t].gen >= told[t].gen
      <4>1. told[t].gen \in Nat /\ told[t].gen <= staged[t].gen /\ told[t].gen >= s.gen
        BY <2>3, <2>5, <2>10, <2>12, <3>2 DEF Announced
      <4>2. staged[t].gen = s.gen /\ s.gen \in Nat
        BY <2>5, <2>6
      <4> QED
        BY ONLY <4>1, <4>2
    <3>3. Announced(t)'
      BY <2>5, <2>8, <2>9, <2>10, <2>12, <3>1, <3>2 DEF Announced
    <3> QED
      BY <2>1, <2>2, <2>3, <3>1, <3>2, <3>3, ClearedMoves DEF SnapshotSteps
  <2> QED
    BY <2>11, <2>12
<1> QED
  BY <1>1, <1>2

LEMMA LaterOf ==
    ASSUME NEW a \in Nat, NEW b \in Nat
    PROVE  Max({a, b}) \in Nat /\ Max({a, b}) >= b
<1>1. \E x \in {a, b} : \A y \in {a, b} : x >= y
  OBVIOUS
<1> QED
  BY <1>1 DEF Max

\* What becomes of a snapshot that is not pending when a page is staged.
LEMMA RestageIs ==
    ASSUME NEW s \in Snapshots, NEW c \in Contents, NEW w \in Workers, NEW cand \in Nat, ~s.pending
    PROVE  LET r == Restage(s, c, w, cand)
           IN  /\ r \in Snapshots /\ r.hash # None
               /\ \/ s.hash = None /\ r.gen = cand /\ r.required /\ r.pending
                  \/ r.hash = s.hash /\ r.gen = s.gen /\ r.required = s.required /\ ~r.pending
                  \/ /\ s.hash # None /\ r.gen > s.gen /\ r.pending
                     /\ ~r.required => r.hash.tree = s.hash.tree
<1> DEFINE gen == Max({cand, s.gen + 1})
           r == Restage(s, c, w, cand)
<1>1. c # None /\ s.gen \in Nat
  BY ImportAssumption DEF Snapshots, Contents
<1>2. gen \in Nat /\ gen > s.gen
  <2>1. gen \in Nat /\ gen >= s.gen + 1
    BY <1>1, LaterOf
  <2> HIDE DEF gen
  <2> QED
    BY <2>1, <1>1
<1>3. CASE s.hash = None
  <2>1. r = [hash |-> c, gen |-> cand, pending |-> TRUE, required |-> TRUE, token |-> w]
    BY <1>1, <1>3 DEF Restage
  <2> QED
    BY <2>1, <1>1, <1>3 DEF Snapshots
<1>4. CASE s.hash # None /\ s.hash = c
  <2>1. r = [s EXCEPT !.token = s.token]
    BY <1>1, <1>4 DEF Restage
  <2>2. r = s
    BY <2>1, <1>1 DEF Snapshots
  <2> QED
    BY <2>2, <1>1, <1>4
<1>5. CASE s.hash # None /\ s.hash # c
  <2>1. r = [hash |-> c, gen |-> gen, pending |-> TRUE, required |-> s.hash.tree # c.tree,
             token |-> w]
    BY <1>5 DEF Restage
  <2> HIDE DEF gen
  <2>2. /\ r \in Snapshots /\ r.hash = c /\ r.gen = gen /\ r.pending
        /\ r.required = (s.hash.tree # c.tree)
    BY <2>1, <1>1, <1>2 DEF Snapshots
  <2> QED
    BY <2>2, <1>1, <1>2, <1>5
<1> QED
  BY <1>3, <1>4, <1>5

LEMMA StageMoves ==
    ASSUME ImportInv, NEW w \in Workers, Stage(w)
    PROVE  Moved(w)
<1>1. CASE Throw(w)
  BY <1>1, ThrowMoves DEF Stage
<1>2. CASE ~Throw(w)
  <2> DEFINE r == [Off EXCEPT !.pc = "claim", !.phase = "recovery"]
             page == run[w].page
             cand == run[w].cand
  <2>1. /\ UNCHANGED <<clock, cutoff, provider, told, ckpt>>
        /\ staged' = [t \in Traces |-> Restage(staged[t], page[t], w, cand)]
        /\ run' = [run EXCEPT ![w] = r]
        /\ run[w].pc = "stage" /\ Holds(w)
    BY <1>2 DEF Stage
  <2>2. /\ staged \in [Traces -> Snapshots] /\ run \in [Workers -> Runs]
        /\ told \in [Traces -> [content : Contents, gen : Nat] \cup {None}]
    BY DEF ImportInv, ImportShape
  <2>3. page \in [Traces -> Contents] /\ cand \in Nat
    BY <2>1, <2>2 DEF ImportInv, RunKnows, Runs
  <2>4. \A t \in Traces : ~staged[t].pending
    BY <2>1 DEF ImportInv, LeaseCovers
  <2>5. ASSUME NEW t \in Traces
        PROVE  /\ staged'[t] \in Snapshots /\ staged'[t].hash # None
               /\ \/ staged[t].hash = None /\ staged'[t].pending /\ staged'[t].required
                  \/ /\ staged'[t].hash = staged[t].hash /\ staged'[t].gen = staged[t].gen
                     /\ staged'[t].required = staged[t].required /\ ~staged'[t].pending
                  \/ /\ staged[t].hash # None /\ staged'[t].gen > staged[t].gen
                     /\ staged'[t].pending
                     /\ ~staged'[t].required => staged'[t].hash.tree = staged[t].hash.tree
    <3>1. staged'[t] = Restage(staged[t], page[t], w, cand) /\ page[t] \in Contents
      BY <2>1, <2>3
    <3> HIDE DEF page, cand
    <3> QED
      BY <3>1, <2>2, <2>3, <2>4, RestageIs
  <2>6. r \in Runs /\ r.pc = "claim" /\ r.queue = {}
    BY OffIsRun DEF Runs, RunSteps
  <2>7. /\ run'[w] = r /\ run' \in [Workers -> Runs]
        /\ \A v \in Workers \ {w} : run'[v] = run[v]
    BY <2>1, <2>2, <2>6
  <2> HIDE DEF r, page, cand
  <2>8. RunKnows(w)' /\ LeaseCovers(w)'
    BY <2>6, <2>7 DEF RunKnows, SnapshotKnown, LeaseCovers, Materializing, SnapshotSteps
  <2>9. staged' \in [Traces -> Snapshots]
    BY <2>1, <2>5
  <2>10. ImportShape'
    BY <2>1, <2>7, <2>9 DEF ImportInv, ImportShape
  <2>11. \A v \in Workers \ {w} : Covers(v)
    BY <2>1 DEF Covers, Holds
  <2>12. ASSUME NEW t \in Traces
         PROVE  /\ staged[t].gen \in Nat /\ staged'[t].gen \in Nat
                /\ staged[t].gen <= staged'[t].gen
                /\ told[t] # None => told[t].gen \in Nat
    <3>1. /\ staged[t].gen \in Nat /\ staged'[t].gen \in Nat
          /\ told[t] # None => told[t].gen \in Nat
      BY <2>2, <2>9 DEF Snapshots
    <3>2. staged[t].hash = None => staged[t].gen = 0
      BY DEF ImportInv, Announced
    <3> QED
      BY <3>1, <3>2, <2>5
  <2>13. Grows
    <3>1. cutoff <= cutoff'
      BY <2>1 DEF ImportInv, ImportShape
    <3>2. ASSUME NEW t \in Traces
          PROVE  /\ staged[t].hash # None /\ staged'[t].gen = staged[t].gen =>
                      staged'[t].hash = staged[t].hash /\ ~staged'[t].pending
                 /\ told[t] # None => told[t].gen >= told[t].gen
      BY <2>5, <2>12
    <3>3. ASSUME NEW t \in Traces, told[t] # None
          PROVE  told[t].gen >= IF told[t] = None THEN staged[t].gen ELSE told[t].gen
      BY <3>2, <3>3
    <3> QED
      BY <2>1, <2>5, <2>12, <3>1, <3>2, <3>3 DEF Grows
  <2>14. ASSUME NEW t \in Traces PROVE Announced(t)'
    <3>1. Announced(t) /\ (Kept(t)' => Kept(t)) /\ told'[t] = told[t] /\ ~staged[t].pending
      BY <2>1, <2>4 DEF ImportInv, Kept, Expired
    <3>2. CASE staged[t].hash = None /\ staged'[t].pending /\ staged'[t].required
      BY <3>1, <3>2, <2>5 DEF Announced
    <3>3. CASE /\ staged'[t].hash = staged[t].hash /\ staged'[t].gen = staged[t].gen
               /\ staged'[t].required = staged[t].required /\ ~staged'[t].pending
      BY <3>1, <3>3, <2>5 DEF Announced
    <3>4. CASE /\ staged[t].hash # None /\ staged'[t].gen > staged[t].gen
               /\ staged'[t].pending
               /\ ~staged'[t].required => staged'[t].hash.tree = staged[t].hash.tree
      <4>1. told[t] # None => told[t].gen < staged'[t].gen
        BY <3>1, <3>4, <2>12 DEF Announced
      <4>2. told[t] # None => told[t].gen <= staged'[t].gen /\ told[t].gen # staged'[t].gen
        BY <4>1, <2>12
      <4> QED
        BY <3>1, <3>4, <4>2, <2>5 DEF Announced
    <3> QED
      BY <3>2, <3>3, <3>4, <2>5
  <2> QED
    BY <2>7, <2>8, <2>10, <2>11, <2>13, <2>14 DEF Moved
<1> QED
  BY <1>1, <1>2

-----------------------------------------------------------------------------
(* The steps of the rest of the system.                                     *)

LEMMA IngestLeavesImports ==
    ASSUME IngestNext
    PROVE  UNCHANGED <<clock, cutoff, staged>>
BY DEF IngestNext, IngestStep, Accept, ResolveRows, MarkPending, WriteTable, PublishBatch,
       ApplyRefs, SettlePublished, FailJob, storeVars

LEMMA RetentionLeavesImports ==
    ASSUME RetentionNext, clock \in Nat, cutoff \in Nat
    PROVE  UNCHANGED <<clock, staged>> /\ cutoff' \in Nat /\ cutoff <= cutoff'
<1>1. CASE BeginPass
  <2>1. UNCHANGED <<clock, staged>> /\ cutoff' = Max({clock, cutoff})
    BY <1>1 DEF BeginPass
  <2> QED
    BY <2>1, LaterOf
<1>2. CASE RetentionStep \/ AbortPass
  <2>1. UNCHANGED <<clock, cutoff, staged>>
    BY <1>2 DEF RetentionStep, RecordExpired, DropRootPartitions, DropObsPartitions, DeleteRoots,
                DeleteObs, DeleteChildren, ListOrphans, PruneFeed, AbortPass, storeVars
  <2> QED
    BY <2>1
<1> QED
  BY <1>1, <1>2 DEF RetentionNext

LEMMA ReadersLeaveImports ==
    ASSUME ReadersNext
    PROVE  UNCHANGED <<clock, cutoff, staged>>
BY DEF ReadersNext, ListSettled, RespondScan, ListLive, Walk, ReadTraceAgain, ReadScanGuard,
       ReadGuardAgain, ReadDetailGuard, ReadGuardAfter, ReadLive, AskDetail, ReadBefore,
       ReadObservations, ReadAfter, Respond, FeedReader, DetailReader, storeVars

LEMMA InitImportInv == Init => ImportInv
<1> SUFFICES ASSUME Init PROVE ImportInv
  OBVIOUS
<1>1. ImportShape
  <2>1. clock \in Nat /\ cutoff \in Nat /\ staged \in [Traces -> Snapshots]
    BY DEF Init, StoreInit, NotStaged, Snapshots
  <2>2. run \in [Workers -> Runs]
    BY OffIsRun DEF Init, ImportInit
  <2>3. provider \in [Traces -> Contents]
    BY ImportAssumption DEF Init, ImportInit, Contents
  <2>4. /\ ckpt \in [status : {"idle", "running"}, token : Workers \cup {None}, lease : BOOLEAN]
        /\ told \in [Traces -> [content : Contents, gen : Nat] \cup {None}]
    BY DEF Init, ImportInit
  <2> QED
    BY <2>1, <2>2, <2>3, <2>4 DEF ImportShape
<1>2. ASSUME NEW w \in Workers PROVE RunKnows(w) /\ LeaseCovers(w)
  <2>1. run[w] = Off
    BY DEF Init, ImportInit
  <2> QED
    BY <2>1, OffIsRun DEF RunKnows, SnapshotKnown, LeaseCovers, Materializing, SnapshotSteps
<1>3. ASSUME NEW t \in Traces PROVE Announced(t)
  BY DEF Init, StoreInit, ImportInit, NotStaged, Announced
<1> QED
  BY <1>1, <1>2, <1>3 DEF ImportInv

LEMMA ImportStepInv ==
    ASSUME ImportInv, ImportNext
    PROVE  ImportInv'
<1>1. CASE LeaseExpires
  <2>1. /\ UNCHANGED <<clock, cutoff, staged, run, provider, told>>
        /\ ckpt' = [ckpt EXCEPT !.lease = FALSE]
    BY <1>1 DEF LeaseExpires, storeVars
  <2>2. ImportShape'
    BY <2>1 DEF ImportInv, ImportShape
  <2>3. cutoff <= cutoff'
    BY <2>1 DEF ImportInv, ImportShape
  <2>4. Grows /\ \A t \in Traces : Announced(t)'
    BY <2>1, <2>2, <2>3, SameSnapshots
  <2>5. ASSUME NEW v \in Workers PROVE RunKnows(v)' /\ LeaseCovers(v)'
    <3>1. Covers(v)
      BY <2>1 DEF Covers, Holds, ImportInv, ImportShape
    <3> QED
      BY <2>1, <2>2, <2>4, <3>1, StillKnown, StillCovered DEF ImportInv
  <2> QED
    BY <2>2, <2>4, <2>5 DEF ImportInv
<1>2. ASSUME NEW t \in Traces, ProviderEdit(t) PROVE ImportInv'
  <2>1. UNCHANGED <<clock, cutoff, staged, ckpt, run, told>>
    BY <1>2 DEF ProviderEdit, storeVars
  <2>2. provider' \in [Traces -> Contents]
    BY <1>2 DEF ProviderEdit, ImportInv, ImportShape, Contents
  <2> QED
    BY <2>1, <2>2, Frame DEF ImportInv, ImportShape
<1>3. ASSUME NEW w \in Workers, Claim(w) \/ ImportStep(w) \/ FailRun(w) PROVE Moved(w)
  <2>1. CASE FailRun(w)
    BY <2>1, ThrowMoves DEF FailRun
  <2> QED
    BY <1>3, <2>1, ClaimMoves, ClaimPendingMoves, BeginSnapshotMoves, RemovingMoves, DiscardMoves,
       PublishScoresMoves, PublishImportMoves, FetchPageMoves, StageMoves, FinishRunMoves
       DEF ImportStep
<1> QED
  BY <1>1, <1>2, <1>3, MovedKeeps DEF ImportNext

LEMMA NextImportInv == ImportInv /\ [Next]_vars => ImportInv'
<1> SUFFICES ASSUME ImportInv, [Next]_vars PROVE ImportInv'
  OBVIOUS
<1> USE DEF ImportInv, ImportShape
<1>1. CASE UNCHANGED vars
  BY <1>1, Frame DEF vars, storeVars, importVars
<1>2. CASE ClockTicks
  BY <1>2, Frame DEF ClockTicks, Tick, importVars
<1>3. CASE IngestNext /\ UNCHANGED <<retentionVars, importVars, readerVars>>
  BY <1>3, IngestLeavesImports, Frame DEF importVars
<1>4. CASE RetentionNext /\ UNCHANGED <<ingestVars, importVars, readerVars>>
  BY <1>4, RetentionLeavesImports, Frame DEF importVars
<1>5. CASE ReadersNext /\ UNCHANGED <<ingestVars, retentionVars, importVars>>
  BY <1>5, ReadersLeaveImports, Frame DEF importVars
<1> QED
  BY <1>1, <1>2, <1>3, <1>4, <1>5, ImportStepInv DEF Next, Step

-----------------------------------------------------------------------------
\* What the store holds of a trace that is not pending was announced, and it
\* is what was announced last: its tree to the trace feed, its scores to the
\* score feed.
THEOREM NoChangeIsSilent == Spec => []NoSilentChange
<1>1. ImportInv => NoSilentChange
  <2> SUFFICES ASSUME ImportInv, NEW t \in Traces, Imported(t), Kept(t)
               PROVE  told[t] # None /\ told[t].content = staged[t].hash
    BY DEF NoSilentChange
  <2>0. told[t] # None
    BY DEF ImportInv, Announced, Imported
  <2>1. /\ told[t].content.scores = staged[t].hash.scores
        /\ told[t].content.tree = staged[t].hash.tree
    BY <2>0 DEF ImportInv, Announced, Imported
  <2>2. told[t].content \in Contents /\ staged[t].hash \in Contents
    BY <2>0 DEF ImportInv, ImportShape, Snapshots, Imported
  <2> QED
    BY <2>0, <2>1, <2>2 DEF Contents
<1> QED
  BY <1>1, InitImportInv, NextImportInv, PTL DEF Spec

-----------------------------------------------------------------------------
(* Traces that batches write.  What follows is about a project without pull *)
(* imports, whose batches of one trace have times of their own, as in the   *)
(* run: its traces that no retention cutoff has passed only gain rows.      *)

OnlyBatches == Workers = {} /\ DistinctReceipts /\ ~StrayObservations

Rows == [ver : Nat, by : Batches \cup {None}, live : BOOLEAN]
Jobs == [pc : Steps, write : SUBSET Keys, todo : SUBSET Tables]

WriteShape ==
    /\ rows \in [Keys -> Rows]
    /\ \A k \in Keys : Kept(k[1]) /\ ~rows[k].live => rows[k].ver = 0
    /\ job \in [Batches -> Jobs] /\ \A b \in Batches : job[b].write \subseteq BatchKeys[b]
    /\ received \in [Batches -> Nat] /\ refs \in [Batches -> {"none", "pending", "applied"}]
    /\ clock \in Nat \ {0} /\ cutoff \in Nat
    /\ marked \subseteq {t \in Traces : Expired(t)}
    /\ watermark \in Nat /\ feed \in [Traces -> [ver : Nat, src : Nat]]
    /\ \A t \in Traces : feed[t].ver <= watermark

\* A batch has its time before anything of it is stored, and shares it with
\* no other batch of the same trace.
Receipts ==
    /\ \A b \in Batches :
          /\ received[b] <= clock
          /\ received[b] = 0 <=> job[b].pc = "new"
          /\ job[b].pc = "new" => refs[b] = "none" /\ ~PublishedBy(b)
    /\ \A b, c \in Batches :
          b # c /\ TracesOf(b) \cap TracesOf(c) # {} /\ received[b] # 0 => received[b] # received[c]

\* Writing the row again changes nothing.
Done(b, k) ==
    /\ rows[k].live
    /\ rows[k].ver > At(received[b]) \/ (rows[k].ver = At(received[b]) /\ rows[k].by = b)
AllDone(b) == \A k \in BatchKeys[b] : Kept(k[1]) => Done(b, k)

\* A job has left to write what it has still to do; what it published, or
\* marked as applied, is stored.
JobKnows(b) ==
    /\ job[b].pc \in {"resolved", "writing"} => \A k \in BatchKeys[b] :
          Kept(k[1]) /\ (k \notin job[b].write \/ TableOf(k) \notin job[b].todo) => Done(b, k)
    /\ job[b].pc \in {"writing", "published"} => refs[b] # "none"
    /\ job[b].pc = "published" => \A t \in TracesOf(b) : <<t, b>> \in acts
    /\ job[b].pc = "published" \/ PublishedBy(b) \/ refs[b] = "applied" => AllDone(b)

IngestInv == WriteShape /\ Receipts /\ \A b \in Batches : JobKnows(b)

\* A batch may be changing the trace, and has yet to publish it.
InFlight(t) ==
    \E b \in Batches : t \in TracesOf(b) /\ refs[b] = "pending" /\ ~PublishedBy(b)

SameRows(t) == \A k \in Keys : k[1] = t => rows'[k] = rows[k]

\* What a step may do to a trace: its rows change while a batch of it is in
\* flight, it stays so until a new version is published, and the feed loses
\* it only when it is gone.
Changes(t) ==
    /\ Kept(t)
    /\ SameRows(t) \/ (InFlight(t)' /\ feed'[t] = feed[t])
    /\ InFlight(t) => InFlight(t)' \/ feed'[t].ver > watermark
    /\ feed'[t] = feed[t] \/ feed'[t].ver > watermark \/ (~Visible(t) /\ feed'[t].ver = 0)
    /\ Visible(t) => Visible(t)'

AllChange == watermark <= watermark' /\ \A t \in Traces : Kept(t)' => Changes(t)

\* The versions that were served, of the trace as it is now.
OfNow(t, version) ==
    IF feed[t].ver # 0 THEN version = Published(t, feed[t].ver)
    ELSE version[1] = t /\ version[2] = "stored"

FixedInv ==
    /\ \A f \in fixed :
         /\ f = <<f[1], f[2]>>
         /\ f[1][2] = "published" => f[1][3] \in 0 .. watermark
         /\ \A t \in Traces : Kept(t) /\ f[1][1] = t => Visible(t)
         /\ \A t \in Traces : Kept(t) /\ OfNow(t, f[1]) => f[2] = Tree(t) \/ InFlight(t)
    /\ \A t \in Traces : Servable(t) => Named(VersionOf(t))

\* A cutoff only grows.
LEMMA KeptWasKept ==
    ASSUME cutoff \in Nat, cutoff' \in Nat, cutoff <= cutoff', NEW t \in Traces, Kept(t)'
    PROVE  Kept(t)
BY StoreAssumption DEF StoreAssumption, Expired, Kept

LEMMA KeyOfBatch ==
    ASSUME NEW b \in Batches, NEW k \in BatchKeys[b]
    PROVE  k \in Keys /\ k[1] \in Traces /\ k[1] \in TracesOf(b)
<1>1. BatchKeys[b] \subseteq Keys
      BY StoreAssumption DEF StoreAssumption
<1> QED BY <1>1 DEF Keys, TracesOf

LEMMA SameTree ==
    ASSUME NEW t \in Traces, SameRows(t)
    PROVE  /\ Tree(t)' = Tree(t) /\ ObsTree(t)' = ObsTree(t)
           /\ Visible(t)' = Visible(t) /\ TraceVersion(t)' = TraceVersion(t)
<1>1. LiveKeys(t)' = LiveKeys(t)
      BY DEF LiveKeys, SameRows
<1>2. RootKey(t) \in Keys /\ RootKey(t)[1] = t
      BY DEF RootKey, Keys, Parts
<1>3. Visible(t)' = Visible(t)
      BY <1>2 DEF Visible, SameRows
<1>4. \A k \in LiveKeys(t) : rows'[k] = rows[k]
      BY DEF LiveKeys, SameRows
<1>5. Tree(t)' = Tree(t) /\ ObsTree(t)' = ObsTree(t)
      BY <1>1, <1>4 DEF Tree, ObsTree
<1>6. {rows'[k].ver : k \in LiveKeys(t)} = {rows[k].ver : k \in LiveKeys(t)}
      BY <1>4
<1>7. TraceVersion(t)' = TraceVersion(t)
      BY <1>1, <1>3, <1>6 DEF TraceVersion
<1> QED BY <1>3, <1>5, <1>7

\* A step that leaves the jobs alone and the rows of every kept trace.
LEMMA JobsRest ==
    ASSUME IngestInv, WriteShape', UNCHANGED <<job, received, refs>>,
           clock <= clock', cutoff <= cutoff', acts' \subseteq acts,
           \A t \in Traces : Kept(t)' => SameRows(t),
           \A b \in Batches : job[b].pc = "published" => acts' = acts
    PROVE  IngestInv'
<1>1. WriteShape
      BY DEF IngestInv
<1>2. Receipts'
      <2>1. \A b \in Batches : received[b] \in Nat /\ received[b] <= clock'
            BY <1>1 DEF IngestInv, Receipts, WriteShape
      <2>2. \A b \in Batches : PublishedBy(b)' => PublishedBy(b)
            BY DEF PublishedBy
      <2> QED BY <2>1, <2>2 DEF IngestInv, Receipts
<1>3. ASSUME NEW b \in Batches, NEW k \in BatchKeys[b], Kept(k[1])'
      PROVE  Kept(k[1]) /\ (Done(b, k) => Done(b, k)')
      <2>1. k \in Keys /\ k[1] \in Traces
            BY KeyOfBatch
      <2>2. Kept(k[1])
            BY <1>1, <1>3, <2>1, KeptWasKept DEF WriteShape
      <2>3. rows'[k] = rows[k]
            BY <1>3, <2>1 DEF SameRows
      <2> QED BY <2>2, <2>3 DEF Done
<1>4. ASSUME NEW b \in Batches PROVE JobKnows(b)'
      <2>1. JobKnows(b)
            BY DEF IngestInv
      <2>2. PublishedBy(b)' => PublishedBy(b)
            BY DEF PublishedBy
      <2>3. AllDone(b) => AllDone(b)'
            BY <1>3 DEF AllDone
      <2>4. job[b].pc \in {"resolved", "writing"} => \A k \in BatchKeys[b] :
               Kept(k[1])' /\ (k \notin job[b].write \/ TableOf(k) \notin job[b].todo) => Done(b, k)'
            BY <1>3, <2>1 DEF JobKnows
      <2>5. job[b].pc = "published" => \A t \in TracesOf(b) : <<t, b>> \in acts'
            BY <2>1 DEF JobKnows
      <2> QED BY <2>1, <2>2, <2>3, <2>4, <2>5 DEF JobKnows
<1> QED BY <1>2, <1>4 DEF IngestInv

\* A step that only takes away, and of kept traces only those that are gone.
LEMMA OnlyTakes ==
    ASSUME IngestInv, UNCHANGED <<refs, watermark>>, cutoff <= cutoff', cutoff' \in Nat,
           acts' \subseteq acts,
           \A t \in Traces : feed'[t] = feed[t] \/ (feed'[t].ver = 0 /\ ~Visible(t)),
           \A t \in Traces : Kept(t)' => SameRows(t)
    PROVE  AllChange
<1>1. watermark <= watermark'
      BY DEF IngestInv, WriteShape
<1>2. ASSUME NEW t \in Traces, Kept(t)' PROVE Changes(t)
      <2>1. Kept(t)
            BY <1>2, KeptWasKept DEF IngestInv, WriteShape
      <2>2. SameRows(t)
            BY <1>2
      <2>3. InFlight(t) => InFlight(t)'
            BY DEF InFlight, PublishedBy
      <2>4. Visible(t)' = Visible(t)
            BY <2>2, SameTree
      <2> QED BY <2>1, <2>2, <2>3, <2>4 DEF Changes
<1> QED BY <1>1, <1>2 DEF AllChange

LEMMA InitIngestInv == OnlyBatches /\ Init => IngestInv
<1> SUFFICES ASSUME OnlyBatches, Init PROVE IngestInv
  OBVIOUS
<1>1. /\ rows \in [Keys -> Rows] /\ refs = [b \in Batches |-> "none"] /\ marked = {} /\ cutoff = 0
      /\ clock = 1 /\ acts = {} /\ watermark = 0 /\ feed = [t \in Traces |-> [ver |-> 0, src |-> 0]]
      /\ \A k \in Keys : ~rows[k].live => rows[k].ver = 0
      BY DEF Init, StoreInit, Rows, NoRow, NoFeed, At
<1>2. /\ job = [b \in Batches |-> [pc |-> "new", write |-> {}, todo |-> {}]]
      /\ received = [b \in Batches |-> 0]
      BY DEF Init, IngestInit
<1>3. WriteShape
      BY <1>1, <1>2 DEF WriteShape, Jobs, Steps
<1>4. \A b \in Batches : ~PublishedBy(b)
      BY <1>1 DEF PublishedBy
<1>5. Receipts
      BY <1>1, <1>2, <1>4 DEF Receipts
<1>6. \A b \in Batches : JobKnows(b)
      BY <1>1, <1>2, <1>4 DEF JobKnows
<1> QED BY <1>3, <1>5, <1>6 DEF IngestInv

\* What a retention pass finds, whoever writes.
RetentionFinds ==
    /\ rows = [k \in Keys |-> rows[k]] /\ clock \in Nat /\ cutoff \in Nat
    /\ marked \subseteq {t \in Traces : Expired(t)}

LEMMA IngestFinds == IngestInv => RetentionFinds
BY DEF IngestInv, WriteShape, RetentionFinds

\* Retention changes rows of traces past their cutoff only.
LEMMA RetentionSpares ==
    ASSUME ~StrayObservations, RetentionFinds, RetentionNext, NEW t \in Traces, Kept(t)'
    PROVE  SameRows(t)
<1>1. RetentionFinds
      OBVIOUS
<1>2. cutoff' \in Nat /\ cutoff <= cutoff'
      BY <1>1, RetentionLeavesImports DEF RetentionFinds
<1>3. Kept(t)
      BY <1>1, <1>2, KeptWasKept DEF RetentionFinds
<1>4. ASSUME NEW K, NEW ver, rows' = Put(K, ver, None, FALSE), \A k \in K : k[1] # t
      PROVE  SameRows(t)
      BY <1>1, <1>4 DEF Put, SameRows, RetentionFinds
<1>5. ASSUME NEW K, Drop(K), \A k \in K : k[1] # t
      PROVE  SameRows(t)
      BY <1>1, <1>5 DEF Drop, SameRows, RetentionFinds
<1>6. \A u \in Removable : u # t
      BY <1>3 DEF Removable, Kept
<1>7. \A k \in Orphans : k[1] # t
      BY <1>3 DEF Orphans, Kept
<1>8. \A u \in marked : u # t
      BY <1>1, <1>3 DEF RetentionFinds, Kept
<1>9. CASE BeginPass \/ RecordExpired \/ ListOrphans \/ PruneFeed \/ AbortPass
      BY <1>9 DEF BeginPass, RecordExpired, ListOrphans, PruneFeed, AbortPass, storeVars, SameRows
<1>10. CASE DropRootPartitions
      <2>1. PICK D \in SUBSET Removable : Drop({RootKey(u) : u \in D})
            BY <1>10 DEF DropRootPartitions
      <2>2. \A k \in {RootKey(u) : u \in D} : k[1] # t
            BY <1>6 DEF RootKey
      <2> QED BY <1>5, <2>1, <2>2
<1>11. CASE DropObsPartitions
      BY <1>5, <1>7, <1>11 DEF DropObsPartitions
<1>12. CASE DeleteRoots
      <2>1. \A k \in {RootKey(u) : u \in Removable} : k[1] # t
            BY <1>6 DEF RootKey
      <2> QED BY <1>4, <1>12, <2>1 DEF DeleteRoots, Tombstone
<1>13. CASE DeleteObs
      <2>1. PICK D \in SUBSET Orphans : rows' = Tombstone(D, JustAfter(clock))
            BY <1>13 DEF DeleteObs
      <2> QED BY <1>4, <1>7, <2>1 DEF Tombstone
<1>14. CASE DeleteChildren
      <2>1. \A k \in UNION {ObsKeys(u) : u \in {v \in marked : ~Visible(v)}} : k[1] # t
            BY <1>8 DEF ObsKeys
      <2> QED BY <1>4, <1>14, <2>1 DEF DeleteChildren, Tombstone
<1> QED BY <1>9, <1>10, <1>11, <1>12, <1>13, <1>14 DEF RetentionNext, RetentionStep

LEMMA RetentionTakes ==
    ASSUME OnlyBatches, FenceInv, IngestInv, RetentionNext
    PROVE  /\ UNCHANGED <<refs, watermark, clock>> /\ acts' \subseteq acts
           /\ \A t \in Traces : feed'[t] = feed[t] \/ (feed'[t].ver = 0 /\ ~Visible(t))
           /\ feed' \in [Traces -> [ver : Nat, src : Nat]] /\ \A t \in Traces : feed'[t].ver <= watermark
           /\ \A b \in Batches : job[b].pc = "published" => acts' = acts
<1>1. WriteShape
      BY DEF IngestInv
<1>2. CASE PruneFeed
      <2>1. pass = "prune" /\ DeleteFeedEntries(orphans) /\ UNCHANGED <<refs, watermark, clock>>
            BY <1>2 DEF PruneFeed
      <2>2. ASSUME NEW t \in Traces PROVE feed'[t] = feed[t] \/ (feed'[t] = NoFeed /\ ~Visible(t))
            BY <2>1 DEF DeleteFeedEntries, FenceInv, ListedAreGone
      <2>3. \A b \in Batches : job[b].pc # "published"
            <3>1. exclusive /\ shared = {}
                  BY <2>1 DEF FenceInv, FenceExcludes
            <3> QED BY <3>1 DEF FenceInv, FenceExcludes
      <2>4. feed' \in [Traces -> [ver : Nat, src : Nat]]
            BY <1>1, <2>1 DEF DeleteFeedEntries, WriteShape, NoFeed
      <2>5. acts' \subseteq acts
            BY <2>1 DEF DeleteFeedEntries
      <2>6. \A t \in Traces : feed'[t].ver <= watermark
            BY <1>1, <2>2 DEF WriteShape, NoFeed
      <2> QED BY <2>1, <2>2, <2>3, <2>4, <2>5, <2>6 DEF NoFeed
<1>3. CASE BeginPass \/ RecordExpired \/ DropRootPartitions \/ DropObsPartitions \/ DeleteRoots
           \/ DeleteObs \/ DeleteChildren \/ ListOrphans \/ AbortPass
      <2>1. UNCHANGED <<refs, watermark, clock, feed, acts>>
            BY <1>3 DEF BeginPass, RecordExpired, DropRootPartitions, DropObsPartitions, DeleteRoots,
                        DeleteObs, DeleteChildren, ListOrphans, AbortPass, storeVars
      <2> QED BY <1>1, <2>1 DEF WriteShape
<1> QED BY <1>2, <1>3 DEF RetentionNext, RetentionStep

\* What retention writes are tombstones, or nothing.
LEMMA RetentionRows ==
    ASSUME NEW R, rows \in [Keys -> R], NoRow \in R,
           [ver |-> JustAfter(clock), by |-> None, live |-> FALSE] \in R, RetentionNext
    PROVE  rows' \in [Keys -> R]
<1>1. ASSUME NEW K PROVE Put(K, JustAfter(clock), None, FALSE) \in [Keys -> R]
      BY DEF Put
<1>2. ASSUME NEW K, Drop(K) PROVE rows' \in [Keys -> R]
      BY <1>2 DEF Drop
<1>3. CASE BeginPass \/ RecordExpired \/ ListOrphans \/ PruneFeed \/ AbortPass
      BY <1>3 DEF BeginPass, RecordExpired, ListOrphans, PruneFeed, AbortPass, storeVars
<1>4. CASE DropRootPartitions \/ DropObsPartitions
      BY <1>2, <1>4 DEF DropRootPartitions, DropObsPartitions
<1>5. CASE DeleteRoots \/ DeleteObs \/ DeleteChildren
      BY <1>1, <1>5 DEF DeleteRoots, DeleteObs, DeleteChildren, Tombstone
<1> QED BY <1>3, <1>4, <1>5 DEF RetentionNext, RetentionStep

LEMMA RetentionMarks ==
    ASSUME RetentionFinds, RetentionNext
    PROVE  marked' \subseteq {t \in Traces : Expired(t)'}
<1>1. cutoff' \in Nat /\ cutoff <= cutoff'
      BY RetentionLeavesImports DEF RetentionFinds
<1>2. \A t \in Traces : Expired(t) => Expired(t)'
      BY <1>1, KeptWasKept DEF RetentionFinds, Kept
<1>3. marked' \subseteq marked \cup {t \in Traces : Expired(t)}
      BY DEF RetentionNext, RetentionStep, BeginPass, RecordExpired, DropRootPartitions,
             DropObsPartitions, DeleteRoots, DeleteObs, DeleteChildren, ListOrphans, PruneFeed,
             AbortPass, storeVars
<1> QED BY <1>2, <1>3 DEF RetentionFinds

LEMMA RetentionChanges ==
    ASSUME OnlyBatches, FenceInv, IngestInv, RetentionNext, UNCHANGED ingestVars
    PROVE  IngestInv' /\ AllChange
<1>1. WriteShape
      BY DEF IngestInv
<1>2. cutoff' \in Nat /\ cutoff <= cutoff'
      BY <1>1, RetentionLeavesImports DEF WriteShape
<1>3. UNCHANGED <<job, received>> /\ RetentionFinds /\ ~StrayObservations
      BY IngestFinds DEF ingestVars, OnlyBatches
<1>4. WriteShape'
      <2>1. \A k \in Keys : Kept(k[1])' /\ ~rows'[k].live => rows'[k].ver = 0
            <3>1. \A k \in Keys : k[1] \in Traces
                  BY DEF Keys
            <3> QED BY <1>1, <1>2, <1>3, <3>1, KeptWasKept, RetentionSpares DEF SameRows, WriteShape
      <2>2. rows' \in [Keys -> Rows]
            <3>1. NoRow \in Rows /\ [ver |-> JustAfter(clock), by |-> None, live |-> FALSE] \in Rows
                  BY <1>1 DEF WriteShape, NoRow, JustAfter, Rows
            <3> QED BY <1>1, <3>1, RetentionRows DEF WriteShape
      <2> QED BY <1>1, <1>2, <1>3, <2>1, <2>2, RetentionMarks, RetentionTakes DEF WriteShape
<1>5. clock <= clock'
      BY <1>1, RetentionTakes DEF WriteShape
<1>6. IngestInv'
      BY <1>2, <1>3, <1>4, <1>5, RetentionSpares, RetentionTakes, JobsRest
<1> QED BY <1>2, <1>3, <1>6, RetentionSpares, RetentionTakes, OnlyTakes

\* Nor do the clock, the readers and a provider.
LEMMA OthersRest ==
    ASSUME OnlyBatches, IngestInv, UNCHANGED ingestVars,
           UNCHANGED <<rows, refs, marked, cutoff, feed, acts, watermark>>,
           clock' \in {clock, clock + 1}
    PROVE  IngestInv' /\ AllChange
<1>1. WriteShape
      BY DEF IngestInv
<1>2. UNCHANGED <<job, received>>
      BY DEF ingestVars
<1>3. WriteShape'
      BY <1>1, <1>2 DEF WriteShape, Kept, Expired
<1>4. clock <= clock' /\ cutoff <= cutoff' /\ cutoff' \in Nat
      BY <1>1 DEF WriteShape
<1>5. \A t \in Traces : SameRows(t)
      BY DEF SameRows
<1>6. IngestInv'
      BY <1>2, <1>3, <1>4, <1>5, JobsRest
<1> QED BY <1>4, <1>5, <1>6, OnlyTakes

-----------------------------------------------------------------------------
(* The steps of a job.                                                      *)

LEMMA OtherJobs ==
    ASSUME IngestInv, NEW c \in Batches, job'[c] = job[c], refs'[c] = refs[c],
           PublishedBy(c)' => PublishedBy(c), acts \subseteq acts', cutoff' = cutoff,
           \A k \in BatchKeys[c] : Kept(k[1]) /\ Done(c, k) => Done(c, k)'
    PROVE  JobKnows(c)'
<1>1. JobKnows(c)
      BY DEF IngestInv
<1>2. \A t \in Traces : Kept(t)' <=> Kept(t)
      BY DEF Kept, Expired
<1>3. AllDone(c) => AllDone(c)'
      BY <1>2, KeyOfBatch DEF AllDone
<1>4. job[c].pc \in {"resolved", "writing"} => \A k \in BatchKeys[c] :
         Kept(k[1])' /\ (k \notin job[c].write \/ TableOf(k) \notin job[c].todo) => Done(c, k)'
      BY <1>1, <1>2, KeyOfBatch DEF JobKnows
<1>5. job[c].pc = "published" => \A t \in TracesOf(c) : <<t, c>> \in acts'
      BY <1>1 DEF JobKnows
<1> QED BY <1>1, <1>3, <1>4, <1>5 DEF JobKnows

\* A step that changes no row and publishes nothing.
LEMMA NothingChanges ==
    ASSUME IngestInv, UNCHANGED <<rows, feed, acts, watermark, cutoff>>,
           \A c \in Batches : TracesOf(c) # {} /\ refs[c] = "pending" /\ ~PublishedBy(c) => refs'[c] = "pending"
    PROVE  AllChange
<1>1. watermark <= watermark'
      BY DEF IngestInv, WriteShape
<1>2. ASSUME NEW t \in Traces, Kept(t)' PROVE Changes(t)
      <2>1. InFlight(t) => InFlight(t)'
            BY DEF InFlight, PublishedBy
      <2> QED BY <1>2, <2>1 DEF Changes, Kept, Expired, SameRows, Visible
<1> QED BY <1>1, <1>2 DEF AllChange

\* A step of one job that changes no row and publishes nothing.
LEMMA JobMoves ==
    ASSUME IngestInv, NEW b \in Batches, NEW j \in Jobs, job' = [job EXCEPT ![b] = j],
           j.write \subseteq BatchKeys[b], NEW r \in Nat, received' = [received EXCEPT ![b] = r],
           NEW s \in {"none", "pending", "applied"}, refs' = [refs EXCEPT ![b] = s],
           UNCHANGED <<clock, rows, marked, cutoff, feed, acts, watermark>>,
           Receipts', JobKnows(b)',
           TracesOf(b) # {} /\ refs[b] = "pending" /\ ~PublishedBy(b) => s = "pending",
           r = received[b] \/ (received[b] = 0 /\ ~PublishedBy(b))
    PROVE  IngestInv' /\ AllChange
<1>1. WriteShape
      BY DEF IngestInv
<1>2. WriteShape'
      <2>1. job' \in [Batches -> Jobs] /\ \A c \in Batches : job'[c].write \subseteq BatchKeys[c]
            BY <1>1 DEF WriteShape
      <2>2. received' \in [Batches -> Nat] /\ refs' \in [Batches -> {"none", "pending", "applied"}]
            BY <1>1 DEF WriteShape
      <2> QED BY <1>1, <2>1, <2>2 DEF WriteShape, Kept, Expired
<1>3. ASSUME NEW c \in Batches, c # b PROVE JobKnows(c)'
      <2>1. job'[c] = job[c] /\ refs'[c] = refs[c] /\ received'[c] = received[c]
            BY <1>1, <1>3 DEF WriteShape
      <2>2. \A k \in BatchKeys[c] : Done(c, k) => Done(c, k)'
            BY <2>1 DEF Done
      <2>3. PublishedBy(c)' => PublishedBy(c)
            BY DEF PublishedBy
      <2> QED BY <2>1, <2>2, <2>3, OtherJobs
<1>4. \A c \in Batches : TracesOf(c) # {} /\ refs[c] = "pending" /\ ~PublishedBy(c) => refs'[c] = "pending"
      BY <1>1 DEF WriteShape
<1> QED BY <1>2, <1>3, <1>4, NothingChanges DEF IngestInv

LEMMA AcceptChanges ==
    ASSUME OnlyBatches, IngestInv, NEW b \in Batches, Accept(b)
    PROVE  IngestInv' /\ AllChange
<1>1. WriteShape /\ Receipts /\ JobKnows(b)
      BY DEF IngestInv
<1>2. /\ job[b].pc = "new" /\ received[b] = 0 /\ refs[b] = "none" /\ ~PublishedBy(b)
      /\ received' = [received EXCEPT ![b] = clock]
      /\ UNCHANGED <<clock, rows, refs, marked, cutoff, feed, acts, watermark>>
      /\ \A c \in Batches : TracesOf(b) \cap TracesOf(c) # {} => received[c] # clock
      BY <1>1 DEF Accept, Receipts, OnlyBatches, storeVars
<1> DEFINE j == [job[b] EXCEPT !.pc = "queued"]
<1>3. j \in Jobs /\ job' = [job EXCEPT ![b] = j] /\ j.write \subseteq BatchKeys[b] /\ j.pc = "queued" /\ job'[b] = j
      BY <1>1 DEF Accept, WriteShape, Jobs, Steps
<1>4. clock \in Nat /\ clock # 0 /\ refs' = [refs EXCEPT ![b] = "none"]
      BY <1>1, <1>2 DEF WriteShape
<1>5. Receipts'
      <2>1. \A c \in Batches : c # b => job'[c] = job[c] /\ received'[c] = received[c]
            BY <1>1, <1>2, <1>3 DEF WriteShape
      <2>2. received'[b] = clock /\ received \in [Batches -> Nat]
            BY <1>1, <1>2 DEF WriteShape
      <2>3. \A c \in Batches : PublishedBy(c)' <=> PublishedBy(c)
            BY <1>2 DEF PublishedBy
      <2>4. ASSUME NEW c \in Batches
            PROVE  /\ received'[c] <= clock'
                   /\ received'[c] = 0 <=> job'[c].pc = "new"
                   /\ job'[c].pc = "new" => refs'[c] = "none" /\ ~PublishedBy(c)'
            <3>1. CASE c = b
                  <4>1. received'[b] <= clock' /\ received'[b] # 0 /\ job'[b].pc # "new"
                        <5>1. clock' = clock
                              BY <1>2
                        <5>2. received'[b] <= clock' /\ received'[b] # 0
                              BY ONLY <1>4, <2>2, <5>1
                        <5> HIDE DEF j
                        <5> QED BY <1>3, <5>2
                  <4> QED BY <3>1, <4>1
            <3>2. CASE c # b
                  <4>1. received[c] <= clock /\ (received[c] = 0 <=> job[c].pc = "new")
                        BY <1>1 DEF Receipts
                  <4>2. job[c].pc = "new" => refs[c] = "none" /\ ~PublishedBy(c)
                        BY <1>1 DEF Receipts
                  <4>3. job'[c] = job[c] /\ received'[c] = received[c]
                        BY <2>1, <3>2
                  <4> QED BY <1>2, <2>3, <4>1, <4>2, <4>3
            <3> QED BY <3>1, <3>2
      <2>5. ASSUME NEW c \in Batches, NEW d \in Batches, c # d, TracesOf(c) \cap TracesOf(d) # {},
                   received'[c] # 0
            PROVE  received'[c] # received'[d]
            <3>1. CASE c = b
                  BY <1>2, <2>1, <2>2, <2>5, <3>1
            <3>2. CASE d = b
                  BY <1>2, <2>1, <2>2, <2>5, <3>2
            <3>3. CASE c # b /\ d # b
                  BY <1>1, <2>1, <2>5, <3>3 DEF Receipts
            <3> QED BY <3>1, <3>2, <3>3
      <2> QED BY <2>4, <2>5 DEF Receipts
<1>6. JobKnows(b)'
      <2>1. ~PublishedBy(b)' /\ refs'[b] = "none"
            BY <1>2 DEF PublishedBy
      <2> QED BY <1>3, <2>1 DEF JobKnows
<1> HIDE DEF j
<1> QED BY <1>2, <1>3, <1>4, <1>5, <1>6, JobMoves

LEMMA ResolveChanges ==
    ASSUME IngestInv, NEW b \in Batches, ResolveRows(b)
    PROVE  IngestInv' /\ AllChange
<1>1. WriteShape /\ Receipts /\ JobKnows(b)
      BY DEF IngestInv
<1> DEFINE stale == {k \in BatchKeys[b] : rows[k].live /\ rows[k].ver > At(received[b])}
           write == BatchKeys[b] \ stale
           todo == {TableOf(k) : k \in write}
           j == [pc |-> "resolved", write |-> write, todo |-> todo]
<1>2. /\ job[b].pc = "queued" /\ job' = [job EXCEPT ![b] = j]
      /\ UNCHANGED <<clock, rows, refs, marked, cutoff, feed, acts, watermark, received>>
      BY DEF ResolveRows, storeVars
<1>3. j \in Jobs /\ write \subseteq BatchKeys[b]
      <2>1. write \in SUBSET Keys
            BY KeyOfBatch
      <2>2. todo \in SUBSET Tables
            BY DEF TableOf, Tables
      <2> QED BY <2>1, <2>2 DEF Jobs, Steps
<1>4. \A k \in BatchKeys[b] : k \notin write \/ TableOf(k) \notin todo => rows[k].live /\ rows[k].ver > At(received[b])
      OBVIOUS
<1>5. job'[b] = j /\ j.pc = "resolved" /\ j.write = write /\ j.todo = todo
      BY <1>1, <1>2 DEF WriteShape
<1> HIDE DEF stale, write, todo, j
<1>6. received' = [received EXCEPT ![b] = received[b]] /\ refs' = [refs EXCEPT ![b] = refs[b]]
      /\ received[b] \in Nat /\ refs[b] \in {"none", "pending", "applied"}
      BY <1>1, <1>2 DEF WriteShape
<1>7. \A c \in Batches : PublishedBy(c)' <=> PublishedBy(c)
      BY <1>2 DEF PublishedBy
<1>8. Receipts'
      <2>1. \A c \in Batches : (job'[c].pc = "new" <=> job[c].pc = "new")
            BY <1>1, <1>2, <1>5 DEF WriteShape
      <2> QED BY <1>1, <1>2, <1>7, <2>1 DEF Receipts
<1>9. JobKnows(b)'
      <2>1. \A k \in BatchKeys[b] : Done(b, k)' <=> Done(b, k)
            BY <1>2 DEF Done
      <2>2. AllDone(b) => AllDone(b)'
            BY <1>2, <2>1 DEF AllDone, Kept, Expired
      <2>3. \A k \in BatchKeys[b] : k \notin write \/ TableOf(k) \notin todo => Done(b, k)'
            BY <1>4, <2>1 DEF Done
      <2> QED BY <1>1, <1>2, <1>5, <1>7, <2>2, <2>3 DEF JobKnows
<1> QED BY <1>2, <1>3, <1>5, <1>6, <1>8, <1>9, JobMoves

LEMMA MarkChanges ==
    ASSUME IngestInv, NEW b \in Batches, MarkPending(b)
    PROVE  IngestInv' /\ AllChange
<1>1. WriteShape /\ Receipts /\ JobKnows(b)
      BY DEF IngestInv
<1> DEFINE j == [job[b] EXCEPT !.pc = "writing"]
           s == IF refs[b] = "applied" THEN "applied" ELSE "pending"
<1>2. /\ job[b].pc = "resolved" /\ job' = [job EXCEPT ![b] = j] /\ refs' = [refs EXCEPT ![b] = s]
      /\ UNCHANGED <<clock, rows, marked, cutoff, feed, acts, watermark, received>>
      BY <1>1 DEF MarkPending, WriteShape
<1>3. j \in Jobs /\ j.pc = "writing" /\ j.write = job[b].write /\ j.todo = job[b].todo
      BY <1>1 DEF WriteShape, Jobs, Steps
<1>4. job'[b] = j /\ refs'[b] = s /\ s \in {"none", "pending", "applied"} /\ s # "none"
      BY <1>1, <1>2 DEF WriteShape
<1>5. s = "applied" => refs[b] = "applied"
      OBVIOUS
<1>6. refs[b] = "pending" => s = "pending"
      OBVIOUS
<1> HIDE DEF s, j
<1>7. received' = [received EXCEPT ![b] = received[b]] /\ received[b] \in Nat
      BY <1>1, <1>2 DEF WriteShape
<1>8. \A c \in Batches : PublishedBy(c)' <=> PublishedBy(c)
      BY <1>2 DEF PublishedBy
<1>9. Receipts'
      <2>1. \A c \in Batches : (job'[c].pc = "new" <=> job[c].pc = "new")
            BY <1>1, <1>2, <1>3, <1>4 DEF WriteShape
      <2>2. \A c \in Batches : job[c].pc = "new" => refs'[c] = refs[c]
            BY <1>1, <1>2 DEF WriteShape
      <2> QED BY <1>1, <1>2, <1>8, <2>1, <2>2 DEF Receipts
<1>10. JobKnows(b)'
      <2>1. \A k \in BatchKeys[b] : Done(b, k)' <=> Done(b, k)
            BY <1>2 DEF Done
      <2>2. AllDone(b) => AllDone(b)'
            BY <1>2, <2>1 DEF AllDone, Kept, Expired
      <2>3. \A k \in BatchKeys[b] :
               Kept(k[1])' /\ (k \notin job'[b].write \/ TableOf(k) \notin job'[b].todo) => Done(b, k)'
            BY <1>1, <1>2, <1>3, <1>4, <2>1 DEF JobKnows, Kept, Expired
      <2> QED BY <1>1, <1>3, <1>4, <1>5, <1>8, <2>2, <2>3 DEF JobKnows
<1>11. j.write \subseteq BatchKeys[b]
      BY <1>1, <1>3 DEF WriteShape
<1> QED BY <1>2, <1>3, <1>4, <1>6, <1>7, <1>9, <1>10, <1>11, JobMoves

\* The end of an attempt: references that become applied are of a batch
\* whose rows are stored.
LEMMA EndChanges ==
    ASSUME IngestInv, NEW b \in Batches, ApplyRefs(b) \/ FailJob(b) \/ SettlePublished(b)
    PROVE  IngestInv' /\ AllChange
<1>1. WriteShape /\ Receipts /\ JobKnows(b)
      BY DEF IngestInv
<1>2. PICK j \in Jobs, s \in {"none", "pending", "applied"} :
         /\ job' = [job EXCEPT ![b] = j] /\ refs' = [refs EXCEPT ![b] = s]
         /\ j = job[b] \/ (j.pc \in {"applied", "queued"} /\ j.write \subseteq BatchKeys[b]
                             /\ job[b].pc \in {"writing", "published", "applied"})
         /\ s = refs[b] \/ (s = "applied" /\ (PublishedBy(b) \/ job[b].pc = "published"))
      <2>1. CASE ApplyRefs(b)
            <3> DEFINE j == [job[b] EXCEPT !.pc = "applied"]
            <3>1. j \in Jobs /\ j.pc = "applied" /\ j.write \subseteq BatchKeys[b] /\ job' = [job EXCEPT ![b] = j]
                  BY <1>1, <2>1 DEF ApplyRefs, WriteShape, Jobs, Steps
            <3> HIDE DEF j
            <3> QED BY <2>1, <3>1 DEF ApplyRefs
      <2>2. CASE FailJob(b)
            <3> DEFINE j == [pc |-> "queued", write |-> {}, todo |-> {}]
            <3>1. j \in Jobs /\ j.pc = "queued" /\ j.write \subseteq BatchKeys[b] /\ job' = [job EXCEPT ![b] = j]
                  BY <2>2 DEF FailJob, Jobs, Steps
            <3>2. refs' = [refs EXCEPT ![b] = refs[b]] /\ refs[b] \in {"none", "pending", "applied"}
                  BY <1>1, <2>2 DEF FailJob, WriteShape
            <3>3. job[b].pc \in {"writing", "published", "applied"}
                  BY <2>2 DEF FailJob
            <3> HIDE DEF j
            <3> QED BY <3>1, <3>2, <3>3
      <2>3. CASE SettlePublished(b)
            <3>1. job' = [job EXCEPT ![b] = job[b]] /\ job[b] \in Jobs
                  BY <1>1, <2>3 DEF SettlePublished, WriteShape
            <3> DEFINE s == IF PublishedBy(b) THEN "applied" ELSE refs[b]
            <3>2. refs' = [refs EXCEPT ![b] = s] /\ s \in {"none", "pending", "applied"}
                  BY <1>1, <2>3 DEF SettlePublished, WriteShape
            <3>3. s = refs[b] \/ (s = "applied" /\ PublishedBy(b))
                  OBVIOUS
            <3> HIDE DEF s
            <3> QED BY <3>1, <3>2, <3>3
      <2> QED BY <2>1, <2>2, <2>3
<1>3. UNCHANGED <<clock, rows, marked, cutoff, feed, acts, watermark, received>>
      BY DEF ApplyRefs, FailJob, SettlePublished
<1>4. job'[b] = j /\ refs'[b] = s /\ j.write \subseteq BatchKeys[b]
      BY <1>1, <1>2 DEF WriteShape
<1>5. received' = [received EXCEPT ![b] = received[b]] /\ received[b] \in Nat
      BY <1>1, <1>3 DEF WriteShape
<1>6. \A c \in Batches : PublishedBy(c)' <=> PublishedBy(c)
      BY <1>3 DEF PublishedBy
<1>7. Receipts'
      <2>1. job[b].pc = "new" => s = refs[b]
            BY <1>1, <1>2 DEF Receipts
      <2>2. \A c \in Batches : (job'[c].pc = "new" <=> job[c].pc = "new")
            BY <1>1, <1>2, <1>4 DEF WriteShape
      <2>3. \A c \in Batches : job[c].pc = "new" => refs'[c] = refs[c]
            BY <1>1, <1>2, <1>4, <2>1 DEF WriteShape
      <2> QED BY <1>1, <1>3, <1>6, <2>2, <2>3 DEF Receipts
<1>8. JobKnows(b)'
      <2>1. \A k \in BatchKeys[b] : Done(b, k)' <=> Done(b, k)
            BY <1>3 DEF Done
      <2>2. AllDone(b) => AllDone(b)'
            BY <1>3, <2>1 DEF AllDone, Kept, Expired
      <2>3. (job[b].pc = "published" \/ PublishedBy(b) \/ refs[b] = "applied") => AllDone(b)'
            BY <1>1, <2>2 DEF JobKnows
      <2>4. job'[b].pc = "published" \/ PublishedBy(b)' \/ refs'[b] = "applied" => AllDone(b)'
            BY <1>2, <1>4, <1>6, <2>3
      <2>5. CASE j = job[b]
            <3>1. job[b].pc \in {"resolved", "writing"} => \A k \in BatchKeys[b] :
                     Kept(k[1])' /\ (k \notin job[b].write \/ TableOf(k) \notin job[b].todo) => Done(b, k)'
                  BY <1>1, <1>3, <2>1 DEF JobKnows, Kept, Expired
            <3>2. job[b].pc \in {"writing", "published"} => refs'[b] # "none"
                  BY <1>1, <1>2, <1>4 DEF JobKnows
            <3>3. job[b].pc = "published" => \A t \in TracesOf(b) : <<t, b>> \in acts'
                  BY <1>1, <1>3 DEF JobKnows
            <3> QED BY <1>4, <2>4, <2>5, <3>1, <3>2, <3>3 DEF JobKnows
      <2>6. CASE j.pc \in {"applied", "queued"}
            BY <1>4, <2>4, <2>6 DEF JobKnows
      <2> QED BY <1>2, <2>5, <2>6
<1>9. TracesOf(b) # {} /\ refs[b] = "pending" /\ ~PublishedBy(b) => s = "pending"
      <2>1. job[b].pc = "published" /\ TracesOf(b) # {} => PublishedBy(b)
            BY <1>1, KeyOfBatch DEF JobKnows, PublishedBy, TracesOf
      <2> QED BY <1>2, <2>1
<1> QED BY <1>2, <1>3, <1>4, <1>5, <1>7, <1>8, <1>9, JobMoves

\* A row is written only where nothing newer is stored; where the batch was
\* done with the row before, it stays as it was.
LEMMA WriteChanges ==
    ASSUME IngestInv, NEW b \in Batches, NEW table \in Tables, WriteTable(b, table)
    PROVE  IngestInv' /\ AllChange
<1>1. WriteShape /\ Receipts /\ JobKnows(b)
      BY DEF IngestInv
<1> DEFINE K == {k \in job[b].write : TableOf(k) = table}
           j == [job[b] EXCEPT !.todo = @ \ {table}]
<1>2. /\ job[b].pc = "writing" /\ job' = [job EXCEPT ![b] = j]
      /\ rows' = Put(K, At(received[b]), b, TRUE)
      /\ UNCHANGED <<clock, refs, marked, cutoff, feed, acts, watermark, received>>
      BY <1>1 DEF WriteTable, WriteShape
<1>3. /\ j \in Jobs /\ job'[b] = j /\ j.write \subseteq BatchKeys[b]
      /\ j.pc = "writing" /\ j.write = job[b].write /\ j.todo = job[b].todo \ {table}
      BY <1>1, <1>2 DEF WriteShape, Jobs
<1>4. /\ K \subseteq BatchKeys[b] /\ K \subseteq Keys /\ received[b] \in Nat
      /\ \A k \in BatchKeys[b] : k \in job[b].write /\ TableOf(k) = table => k \in K
      BY <1>1, KeyOfBatch DEF WriteShape
<1>5. ASSUME NEW k \in Keys
      PROVE  /\ rows[k].ver \in Nat /\ rows[k].live \in BOOLEAN
             /\ k \notin K => rows'[k] = rows[k]
             /\ k \in K /\ At(received[b]) >= rows[k].ver => rows'[k] = [ver |-> At(received[b]), by |-> b, live |-> TRUE]
             /\ k \in K /\ ~(At(received[b]) >= rows[k].ver) => rows'[k] = rows[k]
      BY <1>1, <1>2 DEF Put, WriteShape, Rows
<1> HIDE DEF K, j
<1>6. At(received[b]) \in Nat
      BY <1>4 DEF At
<1>7. [ver |-> At(received[b]), by |-> b, live |-> TRUE] \in Rows
      BY <1>6 DEF Rows
<1>8. rows' \in [Keys -> Rows]
      <2>1. \A k \in Keys : rows'[k] \in Rows
            BY <1>1, <1>5, <1>7 DEF WriteShape
      <2>2. rows' = [k \in Keys |-> rows'[k]]
            BY <1>2 DEF Put
      <2> QED BY <2>1, <2>2
<1>9. ASSUME NEW k \in Keys, Kept(k[1]) PROVE ~rows'[k].live => rows'[k].ver = 0
      BY <1>1, <1>5, <1>9 DEF WriteShape
<1>10. \A t \in Traces : Kept(t)' <=> Kept(t)
      BY <1>2 DEF Kept, Expired
<1>11. WriteShape'
      <2>1. \A k \in Keys : k[1] \in Traces
            BY DEF Keys
      <2>2. \A k \in Keys : Kept(k[1])' /\ ~rows'[k].live => rows'[k].ver = 0
            BY <1>9, <1>10, <2>1
      <2>3. job' \in [Batches -> Jobs] /\ \A c \in Batches : job'[c].write \subseteq BatchKeys[c]
            BY <1>1, <1>2, <1>3 DEF WriteShape
      <2>4. \A t \in Traces : Expired(t)' <=> Expired(t)
            BY <1>2 DEF Expired
      <2> QED BY <1>1, <1>2, <1>8, <2>2, <2>3, <2>4 DEF WriteShape
<1>12. \A c \in Batches : PublishedBy(c)' <=> PublishedBy(c)
      BY <1>2 DEF PublishedBy
<1>13. Receipts'
      <2>1. \A c \in Batches : (job'[c].pc = "new" <=> job[c].pc = "new")
            BY <1>1, <1>2, <1>3 DEF WriteShape
      <2> QED BY <1>1, <1>2, <1>12, <2>1 DEF Receipts
\* What a batch was done with stays so: only a batch of the same time could
\* take the row, and there is none.
<1>14. ASSUME NEW c \in Batches, NEW k \in BatchKeys[c], Kept(k[1]), Done(c, k)
       PROVE  Done(c, k)'
      <2>1. k \in Keys /\ k[1] \in TracesOf(c)
            BY KeyOfBatch
      <2>2. /\ rows[k].live
            /\ rows[k].ver > At(received[c]) \/ (rows[k].ver = At(received[c]) /\ rows[k].by = c)
            BY <1>14 DEF Done
      <2>3. received[c] \in Nat /\ received'[c] = received[c]
            BY <1>1, <1>2 DEF WriteShape
      <2>4. CASE k \in K /\ At(received[b]) >= rows[k].ver
            <3>1. rows'[k] = [ver |-> At(received[b]), by |-> b, live |-> TRUE]
                  BY <1>5, <2>1, <2>4
            <3>2. k[1] \in TracesOf(b) /\ received[b] # 0
                  BY <1>1, <1>2, <1>4, <2>4, KeyOfBatch DEF Receipts
            <3>3. received[b] = received[c] => b = c
                  BY <1>1, <2>1, <3>2 DEF Receipts
            <3>4. rows[k].ver \in Nat
                  BY <1>5, <2>1
            <3>5. At(received[b]) > At(received[c]) \/ received[b] = received[c]
                  BY <1>4, <2>2, <2>3, <2>4, <3>4 DEF At
            <3> QED BY <2>3, <3>1, <3>3, <3>5 DEF Done
      <2>5. CASE rows'[k] = rows[k]
            BY <2>2, <2>3, <2>5 DEF Done
      <2> QED BY <1>5, <2>1, <2>4, <2>5
<1>15. ASSUME NEW k \in K, Kept(k[1]) PROVE Done(b, k)'
      <2>1. k \in Keys /\ k \in BatchKeys[b]
            BY <1>4
      <2>2. CASE At(received[b]) >= rows[k].ver
            <3>1. rows'[k] = [ver |-> At(received[b]), by |-> b, live |-> TRUE]
                  BY <1>5, <2>1, <2>2
            <3>2. rows'[k].live /\ rows'[k].ver = At(received[b]) /\ rows'[k].by = b
                  BY <3>1
            <3> QED BY <1>2, <3>2 DEF Done
      <2>3. CASE ~(At(received[b]) >= rows[k].ver)
            <3>1. rows'[k] = rows[k] /\ rows[k].ver > At(received[b]) /\ rows[k].ver # 0
                  BY <1>5, <1>6, <2>1, <2>3
            <3>2. rows[k].live
                  BY <1>1, <1>15, <2>1, <3>1 DEF WriteShape
            <3> QED BY <1>2, <3>1, <3>2 DEF Done
      <2> QED BY <2>2, <2>3
<1>16. ASSUME NEW c \in Batches PROVE AllDone(c) => AllDone(c)'
      BY <1>10, <1>14, KeyOfBatch DEF AllDone
<1>17. JobKnows(b)'
      <2>1. \A k \in BatchKeys[b] :
               Kept(k[1])' /\ (k \notin j.write \/ TableOf(k) \notin j.todo) => Done(b, k)'
            <3>1. ASSUME NEW k \in BatchKeys[b], Kept(k[1])', k \notin j.write \/ TableOf(k) \notin j.todo
                  PROVE  Done(b, k)'
                  <4>1. Kept(k[1])
                        BY <1>10, <3>1, KeyOfBatch
                  <4>2. CASE k \in K
                        BY <1>15, <4>1, <4>2
                  <4>3. CASE k \notin K
                        <5>1. k \notin job[b].write \/ TableOf(k) \notin job[b].todo
                              BY <1>3, <1>4, <3>1, <4>3
                        <5>2. Done(b, k)
                              BY <1>1, <1>2, <4>1, <5>1 DEF JobKnows
                        <5> QED BY <1>14, <4>1, <5>2
                  <4> QED BY <4>2, <4>3
            <3> QED BY <3>1
      <2>2. refs'[b] # "none"
            BY <1>1, <1>2 DEF JobKnows
      <2>3. PublishedBy(b)' \/ refs'[b] = "applied" => AllDone(b)'
            BY <1>1, <1>2, <1>12, <1>16 DEF JobKnows
      <2> QED BY <1>3, <2>1, <2>2, <2>3 DEF JobKnows
<1>18. ASSUME NEW c \in Batches, c # b PROVE JobKnows(c)'
      <2>1. job'[c] = job[c] /\ refs'[c] = refs[c]
            BY <1>1, <1>2, <1>18 DEF WriteShape
      <2> QED BY <1>2, <1>12, <1>14, <2>1, OtherJobs
<1>19. ASSUME NEW t \in Traces, Kept(t)' PROVE Changes(t)
      <2>1. Kept(t)
            BY <1>10, <1>19
      <2>2. InFlight(t) => InFlight(t)'
            BY <1>2, <1>12 DEF InFlight
      <2>3. feed'[t] = feed[t]
            BY <1>2
      <2>4. SameRows(t) \/ InFlight(t)'
            <3>1. CASE refs[b] = "pending" /\ ~PublishedBy(b) /\ t \in TracesOf(b)
                  BY <1>2, <1>12, <3>1 DEF InFlight
            <3>2. CASE t \notin TracesOf(b)
                  BY <1>4, <1>5, <3>2, KeyOfBatch DEF SameRows
            <3>3. CASE refs[b] # "pending" \/ PublishedBy(b)
                  <4>1. refs[b] = "applied" \/ PublishedBy(b)
                        BY <1>1, <1>2, <3>3 DEF JobKnows, WriteShape
                  <4>2. AllDone(b)
                        BY <1>1, <4>1 DEF JobKnows
                  <4>3. ASSUME NEW k \in Keys, k[1] = t PROVE rows'[k] = rows[k]
                        <5>1. CASE k \in K /\ At(received[b]) >= rows[k].ver
                              <6>1. Done(b, k)
                                    BY <1>4, <2>1, <4>2, <4>3, <5>1 DEF AllDone
                              <6>2. rows[k].live /\ rows[k].ver = At(received[b]) /\ rows[k].by = b
                                    BY <1>5, <1>6, <5>1, <6>1 DEF Done
                              <6>3. rows[k] \in Rows
                                    BY <1>1 DEF WriteShape
                              <6>4. rows[k] = [ver |-> At(received[b]), by |-> b, live |-> TRUE]
                                    BY <1>5, <6>2, <6>3 DEF Rows
                              <6> QED BY <1>5, <5>1, <6>4
                        <5> QED BY <1>5, <5>1
                  <4> QED BY <4>3 DEF SameRows
            <3> QED BY <3>1, <3>2, <3>3
      <2>5. Visible(t) => Visible(t)'
            <3>1. RootKey(t) \in Keys
                  BY DEF RootKey, Keys, Parts
            <3> QED BY <1>5, <3>1 DEF Visible
      <2> QED BY <2>1, <2>2, <2>3, <2>4, <2>5 DEF Changes
<1>20. watermark <= watermark'
      BY <1>1, <1>2 DEF WriteShape
<1> QED BY <1>11, <1>13, <1>17, <1>18, <1>19, <1>20 DEF IngestInv, AllChange

\* All traces of the batch get a new version at once, but for those that
\* have one by this batch.
LEMMA PublishChanges ==
    ASSUME IngestInv, NEW b \in Batches, PublishBatch(b)
    PROVE  IngestInv' /\ AllChange
<1>1. WriteShape /\ Receipts /\ JobKnows(b)
      BY DEF IngestInv
<1> DEFINE new == {t \in TracesOf(b) : <<t, b>> \notin acts}
           j == [job[b] EXCEPT !.pc = "published"]
<1>2. /\ job[b].pc = "writing" /\ job[b].todo = {} /\ job' = [job EXCEPT ![b] = j]
      /\ UNCHANGED <<clock, rows, refs, marked, cutoff, received>>
      BY <1>1 DEF PublishBatch, WriteShape
<1>3. /\ j \in Jobs /\ job'[b] = j /\ j.write \subseteq BatchKeys[b] /\ j.pc = "published"
      BY <1>1, <1>2 DEF WriteShape, Jobs, Steps
<1>4. /\ acts' = acts \cup (new \X {b})
      /\ watermark' = IF new = {} THEN watermark ELSE watermark + 1
      /\ \A t \in Traces : feed'[t] = IF t \in new THEN [ver |-> watermark', src |-> Max({feed[t].src, received[b]})] ELSE feed[t]
      /\ feed' = [t \in Traces |-> feed'[t]]
      BY DEF PublishBatch, Publish
<1>5. /\ \A t \in TracesOf(b) : <<t, b>> \in acts'
      /\ \A c \in Batches : c # b => (PublishedBy(c)' <=> PublishedBy(c))
      /\ acts \subseteq acts'
      BY <1>4 DEF PublishedBy
<1>6. watermark' \in Nat /\ watermark <= watermark' /\ (new # {} => watermark' > watermark)
      <2>1. watermark \in Nat
            BY <1>1 DEF WriteShape
      <2>2. CASE new = {}
            <3>1. watermark' = watermark
                  BY <1>4, <2>2
            <3> HIDE DEF new
            <3> QED BY ONLY <2>1, <2>2, <3>1
      <2>3. CASE new # {}
            <3>1. watermark' = watermark + 1
                  BY <1>4, <2>3
            <3> HIDE DEF new
            <3> QED BY ONLY <2>1, <2>3, <3>1
      <2> QED BY <2>2, <2>3
<1>7. new \subseteq TracesOf(b)
      OBVIOUS
<1>8. \A t \in TracesOf(b) : ~PublishedBy(b) /\ t \in Traces => t \in new
      BY DEF PublishedBy
<1> HIDE DEF new, j
<1>9. feed' \in [Traces -> [ver : Nat, src : Nat]] /\ \A t \in Traces : feed'[t].ver <= watermark'
      <2>1. ASSUME NEW t \in Traces PROVE feed'[t] \in [ver : Nat, src : Nat] /\ feed'[t].ver <= watermark'
            <3>1. feed[t].src \in Nat /\ received[b] \in Nat /\ feed[t] \in [ver : Nat, src : Nat]
                  BY <1>1 DEF WriteShape
            <3>2. Max({feed[t].src, received[b]}) \in Nat
                  BY <3>1, LaterOf
            <3>3. feed[t].ver <= watermark /\ feed[t].ver \in Nat /\ watermark \in Nat
                  BY <1>1 DEF WriteShape
            <3>4. CASE t \in new
                  <4>1. feed'[t] = [ver |-> watermark', src |-> Max({feed[t].src, received[b]})]
                        BY <1>4, <3>4
                  <4> QED BY <1>6, <3>2, <4>1
            <3>5. CASE t \notin new
                  <4>1. feed'[t] = feed[t]
                        BY <1>4, <3>5
                  <4> QED BY <1>6, <3>1, <3>3, <4>1
            <3> QED BY <3>4, <3>5
      <2> QED BY <1>4, <2>1
<1>10. \A t \in Traces : (Kept(t)' <=> Kept(t)) /\ (Expired(t)' <=> Expired(t))
      BY <1>2 DEF Kept, Expired
<1>11. WriteShape'
      <2>1. job' \in [Batches -> Jobs] /\ \A c \in Batches : job'[c].write \subseteq BatchKeys[c]
            BY <1>1, <1>2, <1>3 DEF WriteShape
      <2>2. \A k \in Keys : k[1] \in Traces
            BY DEF Keys
      <2> QED BY <1>1, <1>2, <1>6, <1>9, <1>10, <2>1, <2>2 DEF WriteShape
<1>12. Receipts'
      <2>1. \A c \in Batches : (job'[c].pc = "new" <=> job[c].pc = "new")
            BY <1>1, <1>2, <1>3 DEF WriteShape
      <2>2. \A c \in Batches : job[c].pc = "new" => c # b
            BY <1>2
      <2> QED BY <1>1, <1>2, <1>5, <2>1, <2>2 DEF Receipts
<1>13. \A c \in Batches, k \in Keys : Done(c, k)' <=> Done(c, k)
      BY <1>2 DEF Done
<1>14. JobKnows(b)'
      <2>1. AllDone(b)'
            BY <1>1, <1>2, <1>10, <1>13, KeyOfBatch DEF JobKnows, AllDone
      <2>2. refs'[b] # "none"
            BY <1>1, <1>2 DEF JobKnows
      <2> QED BY <1>3, <1>5, <2>1, <2>2 DEF JobKnows
<1>15. ASSUME NEW c \in Batches, c # b PROVE JobKnows(c)'
      <2>1. job'[c] = job[c] /\ refs'[c] = refs[c]
            BY <1>1, <1>2, <1>15 DEF WriteShape
      <2>2. \A k \in BatchKeys[c] : Kept(k[1]) /\ Done(c, k) => Done(c, k)'
            BY <1>13, KeyOfBatch
      <2> QED BY <1>2, <1>5, <1>15, <2>1, <2>2, OtherJobs
<1>16. ASSUME NEW t \in Traces, Kept(t)' PROVE Changes(t)
      <2>1. feed'[t] = feed[t] \/ feed'[t].ver > watermark
            <3>1. CASE t \in new
                  <4>1. feed'[t] = [ver |-> watermark', src |-> Max({feed[t].src, received[b]})]
                        BY <1>4, <3>1
                  <4>2. feed'[t].ver = watermark' /\ new # {}
                        BY <3>1, <4>1
                  <4> QED BY <1>6, <4>2
            <3>2. CASE t \notin new
                  BY <1>4, <3>2
            <3> QED BY <3>1, <3>2
      <2>2. InFlight(t) => InFlight(t)' \/ feed'[t].ver > watermark
            <3>1. SUFFICES ASSUME InFlight(t), ~(feed'[t].ver > watermark) PROVE InFlight(t)'
                  OBVIOUS
            <3>2. PICK c \in Batches : t \in TracesOf(c) /\ refs[c] = "pending" /\ ~PublishedBy(c)
                  BY <3>1 DEF InFlight
            <3>3. t \notin new
                  <4>1. SUFFICES ASSUME t \in new PROVE FALSE
                        OBVIOUS
                  <4>2. feed'[t] = [ver |-> watermark', src |-> Max({feed[t].src, received[b]})]
                        BY <1>4, <4>1
                  <4>3. feed'[t].ver = watermark' /\ new # {}
                        BY <4>1, <4>2
                  <4> QED BY <1>6, <3>1, <4>3
            <3>4. c # b
                  BY <1>8, <3>2, <3>3
            <3> QED BY <1>2, <1>5, <3>2, <3>4 DEF InFlight
      <2> QED BY <1>2, <1>10, <1>16, <2>1, <2>2 DEF Changes, SameRows, Visible
<1> QED BY <1>6, <1>11, <1>12, <1>14, <1>15, <1>16 DEF IngestInv, AllChange

LEMMA NextChanges ==
    ASSUME OnlyBatches, FenceInv, IngestInv, [Next]_vars
    PROVE  IngestInv' /\ AllChange
<1>1. CASE UNCHANGED vars
      BY <1>1, OthersRest DEF vars, storeVars
<1>2. CASE ClockTicks
      BY <1>2, OthersRest DEF ClockTicks, Tick
<1>3. CASE IngestNext
      <2>1. PICK b \in Batches : Accept(b) \/ IngestStep(b) \/ FailJob(b) \/ SettlePublished(b)
            BY <1>3 DEF IngestNext
      <2> QED BY <2>1, AcceptChanges, ResolveChanges, MarkChanges, WriteChanges, PublishChanges,
                 EndChanges DEF IngestStep
<1>4. CASE RetentionNext /\ UNCHANGED ingestVars
      BY <1>4, RetentionChanges
<1>5. CASE ImportNext /\ UNCHANGED ingestVars
      <2>1. LeaseExpires \/ \E t \in Traces : ProviderEdit(t)
            BY <1>5 DEF ImportNext, OnlyBatches
      <2>2. UNCHANGED storeVars
            BY <2>1 DEF LeaseExpires, ProviderEdit
      <2> QED BY <1>5, <2>2, OthersRest DEF storeVars
<1>6. CASE ReadersNext /\ UNCHANGED ingestVars
      <2>1. UNCHANGED storeVars
            BY <1>6, ReadersWriteNothing
      <2> QED BY <1>6, <2>1, OthersRest DEF storeVars
<1> QED BY <1>1, <1>2, <1>3, <1>4, <1>5, <1>6 DEF Next, Step

LEMMA OldVersions ==
    ASSUME WriteShape, AllChange, FixedInv, NEW f \in fixed, NEW t \in Traces, Kept(t)'
    PROVE  /\ f[1][1] = t => Visible(t)'
           /\ OfNow(t, f[1])' => f[2] = Tree(t)' \/ InFlight(t)'
<1>1. Changes(t)
      BY DEF AllChange
<1>2. /\ f[1][2] = "published" => f[1][3] \in 0 .. watermark
      /\ f[1][1] = t => Visible(t)
      /\ OfNow(t, f[1]) => f[2] = Tree(t) \/ InFlight(t)
      BY <1>1 DEF FixedInv, Changes
<1>3. feed[t].ver <= watermark /\ feed[t].ver \in Nat /\ watermark \in Nat
      BY DEF WriteShape
<1>4. ASSUME OfNow(t, f[1])' PROVE f[2] = Tree(t)' \/ InFlight(t)'
      <2>1. CASE feed'[t] = feed[t]
            <3>1. OfNow(t, f[1])
                  BY <1>4, <2>1 DEF OfNow
            <3>2. InFlight(t) => InFlight(t)'
                  BY <1>1, <1>3, <2>1 DEF Changes
            <3> QED BY <1>1, <1>2, <3>1, <3>2, SameTree DEF Changes
      <2>2. CASE feed'[t].ver > watermark
            <3>1. f[1] = Published(t, feed'[t].ver)
                  BY <1>3, <1>4, <2>2 DEF OfNow
            <3>2. f[1][2] = "published" /\ f[1][3] = feed'[t].ver
                  BY <3>1 DEF Published
            <3> QED BY <1>2, <1>3, <2>2, <3>2
      <2>3. CASE ~Visible(t) /\ feed'[t].ver = 0
            BY <1>2, <1>4, <2>3 DEF OfNow
      <2> QED BY <1>1, <2>1, <2>2, <2>3 DEF Changes
<1> QED BY <1>1, <1>2, <1>4 DEF Changes

LEMMA NewVersions ==
    ASSUME WriteShape', NEW u \in Traces, Servable(u)', NEW f, f = <<VersionOf(u), Tree(u)>>'
    PROVE  /\ f = <<f[1], f[2]>>
           /\ f[1][2] = "published" => f[1][3] \in 0 .. watermark'
           /\ \A t \in Traces : f[1][1] = t => Visible(t)'
           /\ \A t \in Traces : OfNow(t, f[1])' => f[2] = Tree(t)' \/ InFlight(t)'
<1>1. f[1] = VersionOf(u)' /\ f[2] = Tree(u)' /\ f = <<f[1], f[2]>>
      OBVIOUS
<1>2. /\ f[1][1] = u
      /\ f[1][2] = "published" => f[1][3] = feed'[u].ver
      BY <1>1 DEF VersionOf, Published, Stored
<1>3. feed'[u].ver \in 0 .. watermark'
      BY DEF WriteShape
<1>4. ASSUME NEW t \in Traces, OfNow(t, f[1])' PROVE t = u
      BY <1>2, <1>4 DEF OfNow, Published
<1>5. Visible(u)'
      BY DEF Servable
<1> QED BY <1>1, <1>2, <1>3, <1>4, <1>5

LEMMA FixedKeeps ==
    ASSUME WriteShape, WriteShape', AllChange, FixedInv, [Next]_vars
    PROVE  FixedInv'
<1>1. Remember \/ (UNCHANGED <<rows, refs, feed, staged>> /\ UNCHANGED fixed)
      BY DEF Next, vars, storeVars
<1>2. cutoff' \in Nat /\ watermark <= watermark' /\ watermark \in Nat /\ watermark' \in Nat
      BY DEF WriteShape, AllChange
<1>3. ASSUME NEW f \in fixed
      PROVE  /\ f = <<f[1], f[2]>>
             /\ f[1][2] = "published" => f[1][3] \in 0 .. watermark'
             /\ \A t \in Traces : Kept(t)' /\ f[1][1] = t => Visible(t)'
             /\ \A t \in Traces : Kept(t)' /\ OfNow(t, f[1])' => f[2] = Tree(t)' \/ InFlight(t)'
      <2>1. f = <<f[1], f[2]>> /\ (f[1][2] = "published" => f[1][3] \in 0 .. watermark)
            BY DEF FixedInv
      <2>2. f[1][2] = "published" => f[1][3] \in 0 .. watermark'
            BY <1>2, <2>1 DEF FixedInv
      <2> QED BY <2>1, <2>2, OldVersions
<1>4. CASE UNCHANGED <<rows, refs, feed, staged>> /\ UNCHANGED fixed
      <2>1. \A t \in Traces : Servable(t)' => Servable(t) /\ VersionOf(t)' = VersionOf(t)
            BY <1>4 DEF Servable, VersionOf, Visible, Pending, RawPending, ImportPending, TraceVersion,
                        LiveKeys
      <2> QED BY <1>3, <1>4, <2>1 DEF FixedInv, Named
<1>5. CASE fixed' = fixed \cup
             {<<VersionOf(u), Tree(u)>>' : u \in {t \in Traces : Servable(t)' /\ ~Named(VersionOf(t)')}}
      <2>1. ASSUME NEW f \in fixed', f \notin fixed
            PROVE  /\ f = <<f[1], f[2]>>
                   /\ f[1][2] = "published" => f[1][3] \in 0 .. watermark'
                   /\ \A t \in Traces : f[1][1] = t => Visible(t)'
                   /\ \A t \in Traces : OfNow(t, f[1])' => f[2] = Tree(t)' \/ InFlight(t)'
            BY <1>5, <2>1, NewVersions
      <2>2. ASSUME NEW t \in Traces, Servable(t)' PROVE Named(VersionOf(t))'
            <3>1. CASE Named(VersionOf(t)')
                  BY <1>5, <3>1 DEF Named
            <3>2. CASE ~Named(VersionOf(t)')
                  <4>1. <<VersionOf(t), Tree(t)>>' \in fixed'
                        BY <1>5, <2>2, <3>2
                  <4> QED BY <4>1 DEF Named
            <3> QED BY <3>1, <3>2
      <2> QED BY <1>3, <2>1, <2>2 DEF FixedInv
<1> QED BY <1>1, <1>4, <1>5 DEF Remember

LEMMA InitFixed ==
    ASSUME OnlyBatches, Init, IngestInv
    PROVE  FixedInv
<1>1. fixed = {<<VersionOf(t), Tree(t)>> : t \in {u \in Traces : Visible(u)}}
      BY DEF Init
<1>2. \A t \in Traces : feed[t].ver = 0
      BY DEF Init, StoreInit, NoFeed
<1>3. \A t \in Traces : VersionOf(t) = <<t, "stored", TraceVersion(t)>>
      BY <1>2 DEF VersionOf, Stored
<1>4. ASSUME NEW f \in fixed
      PROVE  /\ f = <<f[1], f[2]>>
             /\ f[1][2] # "published"
             /\ \A t \in Traces : f[1][1] = t => Visible(t) /\ f[2] = Tree(t)
      <2>1. PICK u \in Traces : Visible(u) /\ f = <<VersionOf(u), Tree(u)>>
            BY <1>1
      <2>2. f[1] = <<u, "stored", TraceVersion(u)>> /\ f[2] = Tree(u)
            BY <1>3, <2>1
      <2> QED BY <2>1, <2>2
<1>5. ASSUME NEW t \in Traces, Servable(t) PROVE Named(VersionOf(t))
      <2>1. <<VersionOf(t), Tree(t)>> \in fixed
            BY <1>1, <1>5 DEF Servable
      <2>2. <<VersionOf(t), Tree(t)>>[1] = VersionOf(t)
            OBVIOUS
      <2> QED BY <2>1, <2>2 DEF Named
<1> QED BY <1>2, <1>4, <1>5 DEF FixedInv, OfNow

LEMMA FixedNamesOne ==
    ASSUME FixedInv
    PROVE  VersionNamesOneTree
<1> SUFFICES ASSUME NEW t \in Traces, Kept(t), Servable(t)
             PROVE  <<VersionOf(t), Tree(t)>> \in fixed
  BY DEF VersionNamesOneTree
<1>1. PICK f \in fixed : f[1] = VersionOf(t)
      BY DEF FixedInv, Named
<1>2. OfNow(t, f[1])
      <2>1. CASE feed[t].ver # 0
            BY <1>1, <2>1 DEF OfNow, VersionOf
      <2>2. CASE feed[t].ver = 0
            <3>1. f[1] = <<t, "stored", TraceVersion(t)>>
                  BY <1>1, <2>2 DEF VersionOf, Stored
            <3> QED BY <2>2, <3>1 DEF OfNow
      <2> QED BY <2>1, <2>2
<1>3. ~InFlight(t)
      BY DEF Servable, Pending, RawPending, InFlight
<1>4. f = <<f[1], f[2]>> /\ f[2] = Tree(t)
      BY <1>2, <1>3 DEF FixedInv
<1> QED BY <1>1, <1>4

\* In a project without pull imports a version names one tree: whatever
\* batches are retried, overlap or come late, and whatever retention removes,
\* a trace is served under a version as it was the first time.
THEOREM VersionsNameOneTree ==
    ASSUME OnlyBatches
    PROVE  Spec => []VersionNamesOneTree
<1>1. Init => FenceInv /\ IngestInv /\ FixedInv
      BY FenceInit, InitIngestInv, InitFixed
<1>2. FenceInv /\ IngestInv /\ FixedInv /\ [Next]_vars => FenceInv' /\ IngestInv' /\ FixedInv'
      BY FenceStep, NextChanges, FixedKeeps DEF IngestInv
<1>3. FixedInv => VersionNamesOneTree
      BY FixedNamesOne
<1> QED BY <1>1, <1>2, <1>3, PTL DEF Spec

-----------------------------------------------------------------------------
(* The exact-version reader.                                                *)

\* What a request has read is the tree as it is now, while the publication
\* is the one it began with and no batch is in flight; once the guard has
\* been read again, it is what the version was served with.
Reading == detail.pc \in {"observations", "after", "guards after", "publication"}
GuardedAgain == detail.pc = "publication" \/ (detail.pc = "guards after" /\ "raw" \in detail.got)
AsRead ==
    /\ detail.root = Tree(detail.trace) \ ObsTree(detail.trace)
    /\ detail.pc # "observations" => detail.obs = ObsTree(detail.trace)

DetailInv ==
    /\ detail = [pc |-> detail.pc, trace |-> detail.trace, pub |-> detail.pub,
                 settled |-> detail.settled, got |-> detail.got, source |-> detail.source,
                 root |-> detail.root, obs |-> detail.obs]
    /\ detail.pc # "idle" => detail.trace \in Traces /\ detail.pub.ver \in 0 .. watermark
    /\ detail.pc \in {"observations", "after"} => detail.got = {}
    /\ Reading /\ Kept(detail.trace) =>
         /\ Visible(detail.trace)
         /\ feed[detail.trace] = detail.pub =>
              /\ InFlight(detail.trace) \/ AsRead
              /\ GuardedAgain => \A f \in fixed : f[1] = Asked => f[2] = detail.root \cup detail.obs

LEMMA InitDetail == Init => DetailInv
BY DEF Init, ReadersInit, NoDetail, DetailInv, Reading

\* The store moves under the request.
LEMMA DetailRests ==
    ASSUME WriteShape, WriteShape', AllChange, DetailInv, [Next]_vars, detail' = detail
    PROVE  DetailInv'
<1> DEFINE t == detail.trace
<1>1. detail.pc # "idle" => t \in Traces /\ detail.pub.ver \in 0 .. watermark'
      <2>1. watermark \in Nat /\ watermark' \in Nat /\ watermark <= watermark'
            BY DEF AllChange, WriteShape
      <2>2. detail.pc # "idle" => t \in Traces /\ detail.pub.ver \in 0 .. watermark
            BY DEF DetailInv
      <2> QED BY <2>1, <2>2
<1>2. ASSUME Reading, Kept(t)'
      PROVE  /\ Visible(t)'
             /\ feed'[t] = detail.pub =>
                  /\ InFlight(t)' \/ AsRead'
                  /\ GuardedAgain => \A f \in fixed' : f[1] = Asked => f[2] = detail.root \cup detail.obs
      <2>1. t \in Traces /\ detail.pub.ver \in 0 .. watermark
            BY <1>2 DEF DetailInv, Reading
      <2>2. Changes(t) /\ Kept(t)
            BY <1>2, <2>1 DEF AllChange, Changes
      <2>3. Visible(t) /\ Visible(t)'
            BY <1>2, <2>2 DEF DetailInv, Changes
      <2> SUFFICES ASSUME feed'[t] = detail.pub
                   PROVE  /\ InFlight(t)' \/ AsRead'
                          /\ GuardedAgain => \A f \in fixed' : f[1] = Asked => f[2] = detail.root \cup detail.obs
          BY <2>3
      <2>4. feed'[t] = feed[t] /\ ~(feed'[t].ver > watermark)
            <3>1. feed[t].ver \in Nat /\ watermark \in Nat
                  BY <2>1 DEF WriteShape
            <3>2. ~(feed'[t].ver > watermark)
                  BY <2>1, <3>1
            <3> QED BY <2>2, <2>3, <3>2 DEF Changes
      <2>5. InFlight(t) \/ AsRead
            BY <1>2, <2>2, <2>4 DEF DetailInv
      <2>6. InFlight(t)' \/ AsRead'
            <3>1. CASE SameRows(t)
                  BY <2>1, <2>2, <2>4, <2>5, <3>1, SameTree DEF Changes, AsRead
            <3> QED BY <2>2, <3>1 DEF Changes
      <2>7. ASSUME GuardedAgain, NEW f \in fixed', f[1] = Asked PROVE f[2] = detail.root \cup detail.obs
            <3>1. CASE f \in fixed
                  BY <1>2, <2>2, <2>4, <2>7, <3>1 DEF DetailInv
            <3>2. CASE f \notin fixed
                  <4>1. fixed' = fixed \cup
                           {<<VersionOf(u), Tree(u)>>' : u \in {v \in Traces : Servable(v)' /\ ~Named(VersionOf(v)')}}
                        BY <3>2 DEF Next, Remember, vars
                  <4>2. PICK u \in Traces : Servable(u)' /\ f = <<VersionOf(u)', Tree(u)'>>
                        BY <3>2, <4>1
                  <4>3. f[1][1] = u /\ f[2] = Tree(u)'
                        BY <4>2 DEF VersionOf, Published, Stored
                  <4>4. u = t
                        BY <2>7, <4>3 DEF Asked, Published, Stored
                  <4>5. AsRead'
                        BY <2>6, <4>2, <4>4 DEF Servable, Pending, RawPending, InFlight
                  <4>6. ObsTree(t)' \subseteq Tree(t)'
                        BY DEF ObsTree, Tree
                  <4>7. detail.pc # "observations"
                        BY <2>7 DEF GuardedAgain
                  <4> QED BY <4>3, <4>4, <4>5, <4>6, <4>7 DEF AsRead
            <3> QED BY <3>1, <3>2
      <2> QED BY <2>6, <2>7
<1>3. detail' = [pc |-> detail'.pc, trace |-> detail'.trace, pub |-> detail'.pub,
                 settled |-> detail'.settled, got |-> detail'.got, source |-> detail'.source,
                 root |-> detail'.root, obs |-> detail'.obs]
      /\ (detail.pc \in {"observations", "after"} => detail.got = {})
      BY DEF DetailInv
<1>4. (Reading' <=> Reading) /\ (GuardedAgain' <=> GuardedAgain) /\ Asked' = Asked
      BY DEF Reading, GuardedAgain, Asked
<1> QED BY <1>1, <1>2, <1>3, <1>4 DEF DetailInv

\* The request reads.
LEMMA DetailReads ==
    ASSUME OnlyBatches, WriteShape, FixedInv, DetailInv, UNCHANGED <<storeVars, fixed>>,
           \/ \E t \in Traces : AskDetail(t)
           \/ ReadBefore \/ ReadObservations \/ ReadAfter \/ Respond
           \/ \E read \in Guards : ReadDetailGuard(read) \/ ReadGuardAfter(read)
    PROVE  DetailInv'
<1> UNCHANGED <<clock, rows, refs, marked, cutoff, feed, acts, watermark>>
    BY DEF storeVars
<1> DEFINE t == detail.trace
<1>1. \A u : /\ Tree(u)' = Tree(u) /\ ObsTree(u)' = ObsTree(u) /\ (Visible(u)' <=> Visible(u))
             /\ (InFlight(u)' <=> InFlight(u)) /\ (Kept(u)' <=> Kept(u))
      BY DEF Tree, ObsTree, LiveKeys, Visible, InFlight, PublishedBy, Kept, Expired
<1>2. NoDetail.pc = "idle" /\ NoDetail = [pc |-> NoDetail.pc, trace |-> NoDetail.trace, pub |-> NoDetail.pub,
                 settled |-> NoDetail.settled, got |-> NoDetail.got, source |-> NoDetail.source,
                 root |-> NoDetail.root, obs |-> NoDetail.obs]
      BY DEF NoDetail
<1>3. CASE detail' = NoDetail
      BY <1>2, <1>3 DEF DetailInv, Reading
<1>4. ASSUME NEW u \in Traces, AskDetail(u) PROVE DetailInv'
      <2>1. /\ detail'.pc = "guards" /\ detail'.trace = u /\ detail'.pub = feed[u]
            /\ detail' = [pc |-> detail'.pc, trace |-> detail'.trace, pub |-> detail'.pub,
                 settled |-> detail'.settled, got |-> detail'.got, source |-> detail'.source,
                 root |-> detail'.root, obs |-> detail'.obs]
            BY <1>4 DEF AskDetail, NoDetail
      <2>2. feed[u].ver \in 0 .. watermark
            BY DEF WriteShape
      <2> QED BY <2>1, <2>2 DEF DetailInv, Reading
<1>5. ASSUME NEW read \in Guards, ReadDetailGuard(read), detail' # NoDetail PROVE DetailInv'
      <2>1. /\ detail'.pc \in {"guards", "before"} /\ detail.pc = "guards"
            /\ detail'.trace = t /\ detail'.pub = detail.pub
            /\ detail' = [pc |-> detail'.pc, trace |-> detail'.trace, pub |-> detail'.pub,
                 settled |-> detail'.settled, got |-> detail'.got, source |-> detail'.source,
                 root |-> detail'.root, obs |-> detail'.obs]
            BY <1>5 DEF ReadDetailGuard, Refuse, DetailInv
      <2> QED BY <2>1 DEF DetailInv, Reading
<1>6. ASSUME ReadBefore, detail' # NoDetail PROVE DetailInv'
      <2>1. /\ detail'.pc = "observations" /\ detail.pc = "before" /\ detail'.got = {}
            /\ detail'.trace = t /\ detail'.pub = detail.pub /\ Visible(t)
            /\ detail'.root = Tree(t) \ ObsTree(t)
            /\ detail' = [pc |-> detail'.pc, trace |-> detail'.trace, pub |-> detail'.pub,
                 settled |-> detail'.settled, got |-> detail'.got, source |-> detail'.source,
                 root |-> detail'.root, obs |-> detail'.obs]
            BY <1>6 DEF ReadBefore, Refuse, DetailInv
      <2> QED BY <1>1, <2>1 DEF DetailInv, AsRead, GuardedAgain
<1>7. ASSUME ReadObservations PROVE DetailInv'
      <2>1. /\ detail'.pc = "after" /\ detail.pc = "observations" /\ detail'.got = detail.got
            /\ detail'.trace = t /\ detail'.pub = detail.pub
            /\ detail'.root = detail.root /\ detail'.obs = ObsTree(t)
            /\ detail' = [pc |-> detail'.pc, trace |-> detail'.trace, pub |-> detail'.pub,
                 settled |-> detail'.settled, got |-> detail'.got, source |-> detail'.source,
                 root |-> detail'.root, obs |-> detail'.obs]
            BY <1>7 DEF ReadObservations, DetailInv
      <2> QED BY <1>1, <2>1 DEF DetailInv, AsRead, GuardedAgain, Reading
<1>8. ASSUME ReadAfter, detail' # NoDetail PROVE DetailInv'
      <2>1. /\ detail'.pc = "guards after" /\ detail.pc = "after" /\ detail'.got = detail.got
            /\ detail'.trace = t /\ detail'.pub = detail.pub
            /\ detail'.root = detail.root /\ detail'.obs = detail.obs
            /\ detail' = [pc |-> detail'.pc, trace |-> detail'.trace, pub |-> detail'.pub,
                 settled |-> detail'.settled, got |-> detail'.got, source |-> detail'.source,
                 root |-> detail'.root, obs |-> detail'.obs]
            BY <1>8 DEF ReadAfter, Refuse, DetailInv
      <2> QED BY <1>1, <2>1 DEF DetailInv, AsRead, GuardedAgain, Reading
<1>9. ASSUME NEW read \in Guards, ReadGuardAfter(read), detail' # NoDetail PROVE DetailInv'
      <2>1. read = "raw"
            BY DEF Guards, OnlyBatches
      <2>2. /\ detail'.pc \in {"guards after", "publication"} /\ detail.pc = "guards after"
            /\ detail'.trace = t /\ detail'.pub = detail.pub /\ detail'.source = detail.source
            /\ detail'.root = detail.root /\ detail'.obs = detail.obs
            /\ detail' = [pc |-> detail'.pc, trace |-> detail'.trace, pub |-> detail'.pub,
                 settled |-> detail'.settled, got |-> detail'.got, source |-> detail'.source,
                 root |-> detail'.root, obs |-> detail'.obs]
            /\ Held(read, {t}) = {}
            BY <1>9 DEF ReadGuardAfter, Refuse, DetailInv
      <2>3. ~InFlight(t)
            BY <2>1, <2>2 DEF Held, RawPending, InFlight
      <2>4. t \in Traces
            BY <2>2 DEF DetailInv
      <2>5. ASSUME Kept(t), feed[t] = detail.pub
            PROVE  AsRead /\ \A f \in fixed : f[1] = Asked => f[2] = detail.root \cup detail.obs
            <3>1. AsRead
                  BY <2>2, <2>3, <2>5 DEF DetailInv, Reading
            <3>2. detail.root \cup detail.obs = Tree(t)
                  <4>1. ObsTree(t) \subseteq Tree(t)
                        BY DEF ObsTree, Tree
                  <4> QED BY <2>2, <3>1, <4>1 DEF AsRead
            <3>3. OfNow(t, Asked)
                  BY <2>5 DEF OfNow, Asked, Stored
            <3> QED BY <2>3, <2>4, <2>5, <3>1, <3>2, <3>3 DEF FixedInv
      <2>6. Asked' = Asked
            BY <2>2 DEF Asked
      <2>7. Kept(t)' => Visible(t)'
            BY <1>1, <2>2 DEF DetailInv, Reading
      <2>8. detail'.pc # "idle" => t \in Traces /\ detail'.pub.ver \in 0 .. watermark'
            BY <2>2 DEF DetailInv
      <2>9. Kept(t)' /\ feed'[t] = detail'.pub =>
               AsRead' /\ \A f \in fixed' : f[1] = Asked' => f[2] = detail'.root \cup detail'.obs
            BY <1>1, <2>2, <2>5, <2>6 DEF AsRead
      <2> QED BY <2>2, <2>7, <2>8, <2>9 DEF DetailInv
<1> QED BY <1>3, <1>4, <1>5, <1>6, <1>7, <1>8, <1>9 DEF Respond

LEMMA DetailKeeps ==
    ASSUME OnlyBatches, WriteShape, WriteShape', AllChange, FixedInv, DetailInv, [Next]_vars
    PROVE  DetailInv'
<1>1. CASE detail' = detail
      BY <1>1, DetailRests
<1>2. CASE /\ \/ \E t \in Traces : AskDetail(t)
              \/ ReadBefore \/ ReadObservations \/ ReadAfter \/ Respond
              \/ \E read \in Guards : ReadDetailGuard(read) \/ ReadGuardAfter(read)
           /\ Remember
      <2>1. UNCHANGED storeVars
            BY <1>2 DEF AskDetail, ReadBefore, ReadObservations, ReadAfter, Respond, ReadDetailGuard,
                        ReadGuardAfter, DetailReader
      <2>2. UNCHANGED fixed
            BY <1>2, <2>1 DEF Remember, storeVars
      <2> QED BY <1>2, <2>1, <2>2, DetailReads
<1>3. CASE ReadersNext /\ Remember
      BY <1>1, <1>2, <1>3 DEF ReadersNext, ListSettled, RespondScan, ListLive, Walk, ReadTraceAgain,
         ReadScanGuard, ReadGuardAgain, ReadLive, FeedReader
<1> QED BY <1>1, <1>3 DEF Next, Step, vars, readerVars, ClockTicks

LEMMA DetailReadsWhole ==
    ASSUME FixedInv, DetailInv
    PROVE  ReadsWhole
<1> SUFFICES ASSUME detail.trace \in Traces, Kept(detail.trace), Answers, Named(Asked)
             PROVE  <<Asked, detail.root \cup detail.obs>> \in fixed
  BY DEF ReadsWhole, WholeAnswer
<1>1. PICK f \in fixed : f[1] = Asked
      BY DEF Named
<1>2. Reading /\ GuardedAgain /\ feed[detail.trace] = detail.pub
      BY DEF Answers, Unchanged, Reading, GuardedAgain
<1>3. f[2] = detail.root \cup detail.obs
      BY <1>1, <1>2 DEF DetailInv
<1>4. f = <<f[1], f[2]>>
      BY DEF FixedInv
<1> QED BY <1>1, <1>3, <1>4

\* In a project without pull imports the exact-version endpoint answers with
\* the tree of the version it was asked for: what it read from two stores,
\* one after the other, was not changed in between, or the guards read again
\* and the publication say so.
THEOREM ReadsAreWhole ==
    ASSUME OnlyBatches
    PROVE  Spec => []ReadsWhole
<1>1. Init => FenceInv /\ IngestInv /\ FixedInv /\ DetailInv
      BY FenceInit, InitIngestInv, InitFixed, InitDetail
<1>2. /\ FenceInv /\ IngestInv /\ FixedInv /\ DetailInv /\ [Next]_vars
      => FenceInv' /\ IngestInv' /\ FixedInv' /\ DetailInv'
      BY FenceStep, NextChanges, FixedKeeps, DetailKeeps DEF IngestInv
<1>3. FixedInv /\ DetailInv => ReadsWhole
      BY DetailReadsWhole
<1> QED BY <1>1, <1>2, <1>3, PTL DEF Spec

-----------------------------------------------------------------------------
(* The consumer of the feed.                                                *)

Place(t) == <<feed[t].ver, t>>

\* A page in the order of the positions, behind the cursor.
Ordered(page) ==
    /\ Len(page) >= 1
    /\ \A i \in DOMAIN page : Before(cursor.at, Position(page[i]))
    /\ \A i, j \in DOMAIN page : i < j => Before(Position(page[i]), Position(page[j]))

Polls == [pc |-> poll.pc, page |-> poll.page, settled |-> poll.settled, shown |-> poll.shown,
          got |-> poll.got, pending |-> poll.pending, version |-> poll.version]

LiveEntries == [trace : Traces, ver : Nat, src : Nat, fresh : BOOLEAN]

\* An entry is what the feed has of the trace, or the trace moved on.
EntriesKnown ==
    \A i \in DOMAIN poll.page :
        LET e == poll.page[i] IN
        /\ e.ver \in 1 .. watermark
        /\ Kept(e.trace) /\ feed[e.trace].ver = e.ver => feed[e.trace].src = e.src

\* What the feed has behind the cursor is on the page, or behind it.
NoneBetween ==
    \A t \in Traces : Kept(t) /\ feed[t].ver # 0 /\ Before(cursor.at, Place(t)) =>
        \/ \E j \in DOMAIN poll.page : poll.page[j].trace = t /\ poll.page[j].ver = feed[t].ver
        \/ Before(Position(poll.page[Len(poll.page)]), Place(t))

\* What a trace that looks removed was found to be, it is, or a batch is in
\* flight.
AgainKnown ==
    poll.pc = "guards final" =>
        LET t == poll.page[1].trace IN
        Kept(t) /\ feed[t].ver = poll.page[1].ver => InFlight(t) \/ poll.version[t] = TraceVersion(t)

LivePage ==
    poll.page \in Seq(LiveEntries) /\ Ordered(poll.page) /\ EntriesKnown /\ NoneBetween /\ AgainKnown

\* A publication that the cursor has passed was offered, or was not to be
\* served, and will be only under a later version.
LivePassed ==
    \A t \in Traces : Kept(t) /\ feed[t].ver # 0 /\ ~Before(cursor.at, Place(t)) =>
        Published(t, feed[t].ver) \in offered \/ InFlight(t) \/ TraceVersion(t) # feed[t].src

LiveInv ==
    consumer = "live" =>
        /\ cursor = [kind |-> "live", at |-> cursor.at, through |-> 0]
        /\ cursor.at \in Nat \X Nat /\ cursor.at[1] <= watermark
        /\ poll = Polls /\ DOMAIN poll.version = Traces
        /\ poll.pc \in {"idle", "read", "walk", "guards after", "again", "guards final"}
        /\ poll.pc # "idle" => LivePage
        /\ LivePassed

\* A trace that was stored before there was a feed, and was not touched since.
Old(t) == Kept(t) /\ feed[t].ver = 0 /\ Visible(t) /\ ~InFlight(t)

ScanEntries == [trace : Traces, ver : Int]

\* The page of the scan has the old traces as they are.
ScanPage ==
    /\ cursor.kind = "bootstrap"
    /\ poll.page \in Seq(ScanEntries)
    /\ Len(poll.page) <= Limit + 1
    /\ poll.page # <<>> => Ordered(poll.page)
    /\ poll.settled \in Int /\ \A i \in DOMAIN poll.page : poll.page[i].ver <= poll.settled
    /\ \A t \in Traces : Old(t) /\ 1 <= poll.settled /\ Before(cursor.at, <<1, t>>) =>
          \/ \E j \in DOMAIN poll.page : poll.page[j] = [trace |-> t, ver |-> 1]
          \/ Len(poll.page) = Limit + 1 /\ Before(Position(poll.page[Limit + 1]), <<1, t>>)

ScanInv ==
    consumer = "scan" =>
        /\ cursor = [kind |-> cursor.kind, at |-> cursor.at, through |-> cursor.through]
        /\ cursor.kind \in {"new", "bootstrap", "live"} /\ cursor.at \in Int \X Int
        /\ cursor.kind = "bootstrap" => cursor.through \in Nat \ {0}
        /\ poll = Polls /\ poll.pc \in {"idle", "guards", "pubs"}
        /\ poll.pc # "idle" => ScanPage
        /\ \A t \in Traces : Old(t) =>
              /\ TraceVersion(t) = 1
              /\ ~Before(cursor.at, <<1, t>>) \/ cursor.kind = "live" => Stored(t, 1) \in offered

FollowInv == LiveInv /\ ScanInv

\* Positions are ordered.
LEMMA BeforeOrders ==
    ASSUME NEW p \in Int \X Int, NEW q \in Int \X Int, NEW r \in Int \X Int
    PROVE  /\ ~Before(p, p)
           /\ Before(p, q) /\ Before(q, r) => Before(p, r)
           /\ p = q \/ Before(p, q) \/ Before(q, p)
<1>1. /\ p[1] \in Int /\ p[2] \in Int /\ q[1] \in Int /\ q[2] \in Int /\ r[1] \in Int /\ r[2] \in Int
      /\ p = <<p[1], p[2]>> /\ q = <<q[1], q[2]>>
      OBVIOUS
<1> QED BY <1>1 DEF Before

\* What a page is cut from: at most one entry of a trace.
Pageable(entries) ==
    /\ IsFiniteSet(entries)
    /\ \A e \in entries : Position(e) \in Int \X Int
    /\ \A e, f \in entries : Position(e) = Position(f) => e = f

AheadOf(entries, e) == {x \in entries : Before(Position(x), Position(e))}

LEMMA AheadIs ==
    ASSUME NEW S, Pageable(S)
    PROVE  /\ Cardinality(S) \in Nat
           /\ \A e \in S : Cardinality(AheadOf(S, e)) \in Nat /\ Cardinality(AheadOf(S, e)) < Cardinality(S)
           /\ \A e, f \in S : Before(Position(e), Position(f))
                => Cardinality(AheadOf(S, e)) < Cardinality(AheadOf(S, f))
           /\ \A e, f \in S : Cardinality(AheadOf(S, e)) = Cardinality(AheadOf(S, f)) => e = f
<1>1. Cardinality(S) \in Nat /\ IsFiniteSet(S)
      BY FS_CardinalityType DEF Pageable
<1>2. ASSUME NEW T \in SUBSET S, NEW U \in SUBSET T, NEW t \in T, t \notin U
      PROVE  Cardinality(U) \in Nat /\ Cardinality(U) < Cardinality(T)
      <2>1. IsFiniteSet(T)
            BY <1>1, FS_Subset
      <2>2. IsFiniteSet(U) /\ Cardinality(U) <= Cardinality(T) /\ Cardinality(U) # Cardinality(T)
            BY <2>1, <1>2, FS_Subset
      <2>3. Cardinality(T) \in Nat /\ Cardinality(U) \in Nat
            BY <2>1, <2>2, FS_CardinalityType
      <2> QED BY ONLY <2>2, <2>3
<1>3. ASSUME NEW e \in S PROVE e \notin AheadOf(S, e) /\ AheadOf(S, e) \in SUBSET S
      <2>1. ~Before(Position(e), Position(e))
            BY BeforeOrders DEF Pageable
      <2> QED BY <2>1 DEF AheadOf
<1>4. ASSUME NEW e \in S
      PROVE  Cardinality(AheadOf(S, e)) \in Nat /\ Cardinality(AheadOf(S, e)) < Cardinality(S)
      <2>1. S \in SUBSET S
            OBVIOUS
      <2> QED BY <1>2, <1>3, <2>1
<1>5. ASSUME NEW e \in S, NEW f \in S, Before(Position(e), Position(f))
      PROVE  Cardinality(AheadOf(S, e)) < Cardinality(AheadOf(S, f))
      <2>1. e \in AheadOf(S, f)
            BY <1>5 DEF AheadOf
      <2>2. ASSUME NEW x \in AheadOf(S, e) PROVE x \in AheadOf(S, f)
            <3>1. x \in S /\ Before(Position(x), Position(e))
                  BY <2>2 DEF AheadOf
            <3>2. Before(Position(x), Position(f))
                  BY <1>5, <3>1, BeforeOrders DEF Pageable
            <3> QED BY <3>1, <3>2 DEF AheadOf
      <2>3. AheadOf(S, e) \in SUBSET AheadOf(S, f)
            BY <2>2
      <2> QED BY <1>2, <1>3, <2>1, <2>3
<1>6. ASSUME NEW e \in S, NEW f \in S, Cardinality(AheadOf(S, e)) = Cardinality(AheadOf(S, f)) PROVE e = f
      <2>1. Position(e) = Position(f) \/ Before(Position(e), Position(f)) \/ Before(Position(f), Position(e))
            BY BeforeOrders DEF Pageable
      <2>2. PICK c \in Nat : c = Cardinality(AheadOf(S, e)) /\ c = Cardinality(AheadOf(S, f))
            BY <1>4, <1>6
      <2>a. ~(c < c)
            OBVIOUS
      <2>3. ~Before(Position(e), Position(f)) /\ ~Before(Position(f), Position(e))
            <3>1. Before(Position(e), Position(f)) => Cardinality(AheadOf(S, e)) < Cardinality(AheadOf(S, f))
                  BY <1>5
            <3>2. Before(Position(f), Position(e)) => Cardinality(AheadOf(S, f)) < Cardinality(AheadOf(S, e))
                  BY <1>5
            <3> QED BY <2>2, <2>a, <3>1, <3>2
      <2> QED BY <2>1, <2>3 DEF Pageable
<1> QED BY <1>1, <1>4, <1>5, <1>6

\* There is one at every place.
LEMMA AheadTaken ==
    ASSUME NEW S, Pageable(S), NEW i \in 1 .. Cardinality(S)
    PROVE  \E e \in S : Cardinality(AheadOf(S, e)) + 1 = i
<1> DEFINE n == Cardinality(S)
           f == [e \in S |-> Cardinality(AheadOf(S, e)) + 1]
<1>1. n \in Nat /\ \A e \in S : Cardinality(AheadOf(S, e)) \in Nat /\ Cardinality(AheadOf(S, e)) < n
      BY AheadIs
<1>2. \A e, g \in S : Cardinality(AheadOf(S, e)) = Cardinality(AheadOf(S, g)) => e = g
      BY AheadIs
<1> HIDE DEF n
<1>4. f \in [S -> 1 .. n]
      BY <1>1
<1>5. \A e, g \in S : f[e] = f[g] => e = g
      <2> SUFFICES ASSUME NEW e \in S, NEW g \in S, f[e] = f[g] PROVE e = g
          OBVIOUS
      <2>1. Cardinality(AheadOf(S, e)) = Cardinality(AheadOf(S, g))
            BY <1>1
      <2> QED BY <1>2, <2>1
<1>6. f \in Injection(S, 1 .. n)
      BY <1>4, <1>5 DEF Injection, IsInjective
<1>7. IsFiniteSet(1 .. n) /\ Cardinality(1 .. n) = n
      BY <1>1, FS_Interval
<1>8. f \in Surjection(S, 1 .. n)
      BY <1>6, <1>7, FS_Injection DEF n
<1>9. PICK e \in S : f[e] = i
      BY <1>8 DEF Surjection, n
<1> QED BY <1>9

LEMMA LessOf ==
    ASSUME NEW a \in Int, NEW b \in Int
    PROVE  Min({a, b}) \in Int /\ Min({a, b}) \in {a, b} /\ Min({a, b}) <= a /\ Min({a, b}) <= b
<1>1. \E x \in {a, b} : \A y \in {a, b} : x <= y
      OBVIOUS
<1> QED BY <1>1 DEF Min

\* A page has the first entries, in order, and if one is left out it is full.
LEMMA PageOfIs ==
    ASSUME NEW S, Pageable(S), NEW page, page = PageOf(S)
    PROVE  /\ page \in Seq(S) /\ Len(page) <= Limit + 1
           /\ S # {} => Len(page) >= 1
           /\ \A i, j \in DOMAIN page : i < j => Before(Position(page[i]), Position(page[j]))
           /\ \A e \in S : \/ \E j \in DOMAIN page : page[j] = e
                           \/ /\ Len(page) = Limit + 1
                              /\ Before(Position(page[Limit + 1]), Position(e))
<1> DEFINE rank(e) == Cardinality(AheadOf(S, e))
           n == Min({Limit + 1, Cardinality(S)})
           nth(i) == CHOOSE e \in S : rank(e) + 1 = i
<1>1. page = [i \in 1 .. n |-> nth(i)]
      BY DEF PageOf, AheadOf
<1>2. /\ Cardinality(S) \in Nat
      /\ \A e \in S : rank(e) \in Nat /\ rank(e) < Cardinality(S)
      /\ \A e, f \in S : Before(Position(e), Position(f)) => rank(e) < rank(f)
      /\ \A e, f \in S : rank(e) = rank(f) => e = f
      BY AheadIs
<1>3. Limit \in Nat \ {0}
      BY ReaderAssumption DEF ReaderAssumption
<1>4. n \in Nat /\ n <= Limit + 1 /\ n <= Cardinality(S) /\ n \in {Limit + 1, Cardinality(S)}
      <2>1. Limit + 1 \in Nat /\ Limit + 1 \in Int /\ Cardinality(S) \in Int
            BY <1>2, <1>3
      <2>2. n <= Limit + 1 /\ n <= Cardinality(S) /\ n \in {Limit + 1, Cardinality(S)}
            BY <2>1, LessOf
      <2> QED BY <1>2, <2>1, <2>2
<1>5. \A i \in 1 .. Cardinality(S) : \E e \in S : rank(e) + 1 = i
      BY AheadTaken
<1> HIDE DEF rank, n
<1>6. \A i \in 1 .. n : nth(i) \in S /\ rank(nth(i)) + 1 = i
      <2> TAKE i \in 1 .. n
      <2>1. i \in 1 .. Cardinality(S)
            BY <1>2, <1>4
      <2> QED BY <1>5, <2>1
<1> HIDE DEF nth
<1>7. page \in Seq(S) /\ Len(page) = n /\ DOMAIN page = 1 .. n
      BY <1>1, <1>4, <1>6
<1>8. \A i \in 1 .. n : page[i] \in S /\ rank(page[i]) + 1 = i
      BY <1>1, <1>6
<1>9. S # {} => n >= 1
      <2>1. S # {} => Cardinality(S) # 0
            BY FS_EmptySet DEF Pageable
      <2> QED BY <1>2, <1>3, <1>4, <2>1
<1>10. ASSUME NEW i \in 1 .. n, NEW e \in S, rank(e) + 1 > i
       PROVE  Before(Position(page[i]), Position(e))
       <2>1. page[i] \in S /\ rank(page[i]) + 1 = i /\ rank(e) \in Nat /\ rank(page[i]) \in Nat
             BY <1>2, <1>8
       <2>2. Position(page[i]) = Position(e) \/ Before(Position(page[i]), Position(e))
                \/ Before(Position(e), Position(page[i]))
             BY <2>1, BeforeOrders DEF Pageable
       <2>3. ~(rank(e) < rank(page[i])) /\ rank(e) # rank(page[i])
             BY <1>10, <2>1
       <2> QED BY <1>2, <2>1, <2>2, <2>3 DEF Pageable
<1>11. ASSUME NEW i \in 1 .. n, NEW j \in 1 .. n, i < j
       PROVE  Before(Position(page[i]), Position(page[j]))
       <2>1. page[j] \in S /\ rank(page[j]) + 1 = j
             BY <1>8
       <2> QED BY <1>10, <1>11, <2>1
<1>12. ASSUME NEW e \in S
       PROVE  \/ \E j \in 1 .. n : page[j] = e
              \/ n = Limit + 1 /\ Before(Position(page[Limit + 1]), Position(e))
       <2>1. rank(e) \in Nat /\ rank(e) < Cardinality(S)
             BY <1>2
       <2>2. PICK k \in Nat : k = rank(e) + 1
             BY <2>1
       <2>3. CASE k <= n
             <3>1. k \in 1 .. n
                   BY <1>4, <2>1, <2>2, <2>3
             <3>2. rank(page[k]) = rank(e) /\ page[k] \in S
                   BY <1>2, <1>8, <2>1, <2>2, <3>1
             <3> QED BY <1>2, <3>1, <3>2
       <2>4. CASE ~(k <= n)
             <3>1. n = Limit + 1
                   BY <1>2, <1>3, <1>4, <2>1, <2>2, <2>4
             <3>2. Limit + 1 \in 1 .. n
                   BY <1>3, <3>1
             <3>3. rank(e) + 1 > Limit + 1
                   BY <1>3, <2>1, <2>2, <2>4, <3>1
             <3> QED BY <1>10, <3>1, <3>2, <3>3
       <2> QED BY <2>3, <2>4
<1> QED BY <1>4, <1>7, <1>9, <1>11, <1>12

\* What a step of the store may do to a trace that the consumer follows.
LEMMA OldWasOld ==
    ASSUME WriteShape, AllChange, NEW t \in Traces, Old(t)'
    PROVE  Old(t) /\ TraceVersion(t)' = TraceVersion(t)
<1>1. Changes(t) /\ Kept(t)' /\ feed'[t].ver = 0 /\ ~InFlight(t)' /\ Visible(t)'
      BY DEF Old, AllChange
<1>2. SameRows(t) /\ Kept(t)
      BY <1>1 DEF Changes
<1>3. Visible(t) /\ TraceVersion(t)' = TraceVersion(t)
      BY <1>1, <1>2, SameTree
<1>4. watermark \in Nat /\ ~(feed'[t].ver > watermark)
      BY <1>1 DEF WriteShape
<1>5. feed[t].ver = 0 /\ ~InFlight(t)
      BY <1>1, <1>3, <1>4 DEF Changes
<1> QED BY <1>2, <1>3, <1>5 DEF Old

LEMMA EntryStays ==
    ASSUME WriteShape, AllChange, NEW t \in Traces, Kept(t)', feed'[t].ver # 0
    PROVE  /\ Kept(t)
           /\ feed'[t] = feed[t] \/ feed'[t].ver > watermark
           /\ feed'[t] = feed[t] /\ ~(feed'[t].ver > watermark) /\ ~InFlight(t)' =>
                 ~InFlight(t) /\ TraceVersion(t)' = TraceVersion(t)
<1>1. Changes(t)
      BY DEF AllChange
<1>2. feed'[t] = feed[t] /\ ~(feed'[t].ver > watermark) /\ ~InFlight(t)' =>
         ~InFlight(t) /\ SameRows(t)
      BY <1>1 DEF Changes
<1> QED BY <1>1, <1>2, SameTree DEF Changes

LEMMA LiveRests ==
    ASSUME WriteShape, WriteShape', AllChange, LiveInv, UNCHANGED <<consumer, cursor, poll, offered>>
    PROVE  LiveInv'
<1> SUFFICES ASSUME consumer = "live"
             PROVE  /\ cursor.at[1] <= watermark'
                    /\ poll.pc # "idle" => LivePage'
                    /\ LivePassed'
    BY DEF LiveInv, Polls
<1>1. /\ watermark \in Nat /\ watermark' \in Nat /\ watermark <= watermark'
      /\ \A t \in Traces : feed[t].ver \in Nat /\ feed'[t].ver \in Nat
      BY DEF WriteShape, AllChange
<1>2. cursor.at \in Nat \X Nat /\ cursor.at[1] <= watermark
      BY DEF LiveInv
<1>3. \A t \in Traces : t \in Nat
      BY StoreAssumption DEF StoreAssumption
<1>4. ASSUME NEW t \in Traces, feed'[t].ver > watermark PROVE Before(cursor.at, Place(t)')
      <2>1. cursor.at[1] \in Nat /\ cursor.at[1] < feed'[t].ver
            BY <1>1, <1>2, <1>4
      <2> QED BY <2>1 DEF Before, Place
<1>5. LivePassed'
      <2> SUFFICES ASSUME NEW t \in Traces, Kept(t)', feed'[t].ver # 0, ~Before(cursor.at, Place(t)'),
                          ~InFlight(t)'
                   PROVE  Published(t, feed'[t].ver) \in offered \/ TraceVersion(t)' # feed'[t].src
          BY DEF LivePassed
      <2>1. ~(feed'[t].ver > watermark)
            BY <1>4
      <2>2. Kept(t) /\ feed'[t] = feed[t] /\ ~InFlight(t) /\ TraceVersion(t)' = TraceVersion(t)
            BY <2>1, EntryStays
      <2>3. Place(t)' = Place(t)
            BY <2>2 DEF Place
      <2> QED BY <2>2, <2>3 DEF LiveInv, LivePassed
<1>6. ASSUME poll.pc # "idle" PROVE LivePage'
      <2> DEFINE page == poll.page
      <2>1. page \in Seq(LiveEntries) /\ Ordered(page) /\ Ordered(page)'
            BY <1>6 DEF LiveInv, LivePage, EntriesKnown, NoneBetween, AgainKnown, Ordered
      <2>2. \A i \in DOMAIN page : /\ page[i].trace \in Traces /\ page[i].ver \in 1 .. watermark
                                   /\ page[i].ver \in Nat /\ page[i].ver # 0
            <3> TAKE i \in DOMAIN page
            <3>1. page[i] \in LiveEntries
                  BY <2>1
            <3>2. page[i].ver \in 1 .. watermark
                  BY <1>6 DEF LiveInv, LivePage, EntriesKnown, NoneBetween, AgainKnown
            <3> QED BY <1>1, <3>1, <3>2 DEF LiveEntries
      <2>3. ASSUME NEW i \in DOMAIN page, Kept(page[i].trace)', feed'[page[i].trace].ver = page[i].ver
            PROVE  /\ Kept(page[i].trace) /\ feed'[page[i].trace] = feed[page[i].trace]
                   /\ feed[page[i].trace].src = page[i].src
                   /\ ~InFlight(page[i].trace)' =>
                         ~InFlight(page[i].trace) /\ TraceVersion(page[i].trace)' = TraceVersion(page[i].trace)
            <3>1. ~(feed'[page[i].trace].ver > watermark) /\ feed'[page[i].trace].ver # 0
                  BY <1>1, <2>2, <2>3
            <3>2. /\ Kept(page[i].trace) /\ feed'[page[i].trace] = feed[page[i].trace]
                  /\ ~InFlight(page[i].trace)' =>
                        ~InFlight(page[i].trace) /\ TraceVersion(page[i].trace)' = TraceVersion(page[i].trace)
                  BY <2>2, <2>3, <3>1, EntryStays
            <3> QED BY <1>6, <2>3, <3>2 DEF LiveInv, LivePage, EntriesKnown, NoneBetween, AgainKnown
      <2>4. ASSUME NEW t \in Traces, Kept(t)', feed'[t].ver # 0, Before(cursor.at, Place(t)')
            PROVE  \/ \E j \in DOMAIN page : page[j].trace = t /\ page[j].ver = feed'[t].ver
                   \/ Before(Position(page[Len(page)]), Place(t)')
            <3>1. CASE feed'[t].ver > watermark
                  <4>1. Len(page) \in DOMAIN page
                        BY <2>1 DEF Ordered
                  <4>2. page[Len(page)].ver \in Nat /\ page[Len(page)].ver < feed'[t].ver
                        BY <1>1, <2>2, <3>1, <4>1
                  <4> QED BY <4>2 DEF Before, Position, Place
            <3>2. CASE ~(feed'[t].ver > watermark)
                  <4>1. Kept(t) /\ feed'[t] = feed[t]
                        BY <2>4, <3>2, EntryStays
                  <4>2. Place(t)' = Place(t)
                        BY <4>1 DEF Place
                  <4> QED BY <1>6, <2>4, <4>1, <4>2 DEF LiveInv, LivePage, EntriesKnown, NoneBetween, AgainKnown
            <3> QED BY <3>1, <3>2
      <2>5. ASSUME poll.pc = "guards final", Kept(page[1].trace)', feed'[page[1].trace].ver = page[1].ver
            PROVE  InFlight(page[1].trace)' \/ poll.version[page[1].trace] = TraceVersion(page[1].trace)'
            <3>1. 1 \in DOMAIN page
                  BY <2>1 DEF Ordered
            <3> QED BY <1>6, <2>3, <2>5, <3>1 DEF LiveInv, LivePage, EntriesKnown, NoneBetween, AgainKnown
      <2>6. \A i \in DOMAIN page : page[i].ver \in 1 .. watermark'
            BY <1>1, <2>2
      <2> QED BY <2>1, <2>3, <2>4, <2>5, <2>6 DEF LivePage, EntriesKnown, NoneBetween, AgainKnown
<1> QED BY <1>1, <1>2, <1>5, <1>6

LEMMA ScanRests ==
    ASSUME WriteShape, AllChange, ScanInv, UNCHANGED <<consumer, cursor, poll, offered>>
    PROVE  ScanInv'
<1>1. \A t \in Traces : Old(t)' => Old(t) /\ TraceVersion(t)' = TraceVersion(t)
      BY OldWasOld
<1>2. ASSUME ScanPage PROVE ScanPage'
      BY <1>1, <1>2 DEF ScanPage, Ordered
<1> QED BY <1>1, <1>2 DEF ScanInv, Polls

LEMMA InitFollow == WriteShape /\ Init => FollowInv
<1> SUFFICES ASSUME WriteShape, Init PROVE FollowInv
    OBVIOUS
<1>1. \A t \in Traces : feed[t].ver = 0
      BY DEF Init, StoreInit, NoFeed
<1>2. /\ consumer \in Consumers /\ poll = Polls /\ poll.pc = "idle" /\ DOMAIN poll.version = Traces
      /\ cursor = [kind |-> IF consumer = "live" THEN "live" ELSE "new", at |-> <<0, 0>>, through |-> 0]
      BY DEF Init, ReadersInit, Unread, Polls, Origin
<1>3. LiveInv
      BY <1>1, <1>2 DEF LiveInv, LivePassed, WriteShape
<1>4. ASSUME consumer = "scan", NEW t \in Traces, Visible(t) PROVE TraceVersion(t) = 1
      <2>1. RootKey(t) \in Keys /\ RootKey(t)[1] = t
            BY DEF RootKey, Keys, Parts
      <2>2. rows = [k \in Keys |-> IF k[1] \in Legacy THEN [ver |-> At(1), by |-> None, live |-> TRUE] ELSE NoRow]
            BY <1>4 DEF Init, StoreInit
      <2>3. t \in Legacy
            BY <1>4, <2>1, <2>2 DEF Visible, NoRow
      <2>4. \A k \in LiveKeys(t) : rows[k].ver = 2
            BY <2>2, <2>3 DEF LiveKeys, At
      <2>5. RootKey(t) \in LiveKeys(t)
            BY <1>4, <2>1 DEF LiveKeys, Visible
      <2>6. {rows[k].ver : k \in LiveKeys(t)} = {2}
            BY <2>4, <2>5
      <2>7. Max({2}) = 2
            BY DEF Max
      <2>8. TraceVersion(t) = Max({2}) \div 2
            BY <1>4, <2>6 DEF TraceVersion
      <2>9. 2 \div 2 = 1
            OBVIOUS
      <2> QED BY <2>7, <2>8, <2>9
<1>5. \A t \in Traces : Before(<<0, 0>>, <<1, t>>)
      BY DEF Before
<1>6. ScanInv
      BY <1>2, <1>4, <1>5 DEF ScanInv, Old
<1> QED BY <1>2, <1>3, <1>6 DEF FollowInv

\* A page is cut from entries of different traces.
LEMMA EntriesPage ==
    ASSUME NEW S, \A e \in S : e.trace \in Traces /\ e.ver \in Int,
           \A e, f \in S : e.trace = f.trace => e = f
    PROVE  Pageable(S)
<1>0. \A t \in Traces : t \in Int
      BY StoreAssumption DEF StoreAssumption
<1>1. \A e \in S : e.trace \in Int /\ e.ver \in Int
      BY <1>0
<1>2. IsFiniteSet(S)
      <2> DEFINE f == [e \in S |-> e.trace]
      <2>1. f \in Injection(S, Traces)
            BY DEF Injection, IsInjective
      <2>2. IsFiniteSet(Traces)
            BY StoreAssumption DEF StoreAssumption
      <2> HIDE DEF f
      <2> QED BY <2>1, <2>2, FS_Injection
<1> QED BY <1>1, <1>2 DEF Pageable, Position

StoreRests == UNCHANGED <<clock, rows, refs, marked, cutoff, feed, acts, watermark>>

LEMMA StoreRestsIs ==
    ASSUME StoreRests
    PROVE  /\ \A t : /\ (Kept(t)' <=> Kept(t)) /\ (InFlight(t)' <=> InFlight(t))
                     /\ TraceVersion(t)' = TraceVersion(t) /\ (Visible(t)' <=> Visible(t))
                     /\ Place(t)' = Place(t) /\ (Old(t)' <=> Old(t))
           /\ LivePassed /\ UNCHANGED <<cursor, offered>> => LivePassed'
<1>1. \A t : /\ (Kept(t)' <=> Kept(t)) /\ (InFlight(t)' <=> InFlight(t))
             /\ TraceVersion(t)' = TraceVersion(t) /\ (Visible(t)' <=> Visible(t))
             /\ Place(t)' = Place(t)
      BY DEF StoreRests, Kept, Expired, InFlight, PublishedBy, TraceVersion, LiveKeys, Visible, Place
<1>2. \A t : Old(t)' <=> Old(t)
      BY <1>1 DEF Old, StoreRests
<1>3. LivePassed /\ UNCHANGED <<cursor, offered>> => LivePassed'
      BY <1>1 DEF LivePassed, StoreRests
<1> QED BY <1>1, <1>2, <1>3

LEMMA ListLiveKeeps ==
    ASSUME WriteShape, LiveInv, ListLive
    PROVE  LiveInv'
<1>0. StoreRests /\ consumer = "live" /\ UNCHANGED <<consumer, cursor, offered>>
      BY DEF ListLive, FeedReader, StoreRests, storeVars
<1> DEFINE S == {[trace |-> t, ver |-> feed[t].ver, src |-> feed[t].src,
                  fresh |-> feed[t].src > SettledBefore] : t \in Ahead}
<1>1. poll' = [Unread EXCEPT !.pc = "read", !.page = PageOf(S)]
      BY DEF ListLive
<1>2. /\ poll' = Polls' /\ DOMAIN poll'.version = Traces /\ poll'.pc = "read" /\ poll'.page = PageOf(S)
      BY <1>1 DEF Unread, Polls
<1>3. PICK page : page = PageOf(S)
      OBVIOUS
<1>4. Ahead \in SUBSET Traces /\ \A t \in Ahead : feed[t].ver \in 1 .. watermark /\ feed[t].src \in Nat
                                                 /\ Before(cursor.at, Place(t))
      BY DEF Ahead, WriteShape, Place
<1>5. Ahead # {}
      BY DEF ListLive
<1>6. \A e \in S : /\ e \in LiveEntries /\ e.trace \in Ahead /\ e.ver = feed[e.trace].ver
                   /\ e.src = feed[e.trace].src /\ Position(e) = Place(e.trace)
      <2> TAKE e \in S
      <2>1. PICK t \in Ahead : e = [trace |-> t, ver |-> feed[t].ver, src |-> feed[t].src,
                                    fresh |-> feed[t].src > SettledBefore]
            OBVIOUS
      <2>2. e.trace = t /\ e.ver = feed[t].ver /\ e.src = feed[t].src
            BY <2>1
      <2>3. t \in Traces /\ feed[t].ver \in Nat /\ feed[t].src \in Nat
            BY <1>4
      <2>4. (feed[t].src > SettledBefore) \in BOOLEAN
            BY ONLY TRUE
      <2>5. e \in LiveEntries
            BY <2>1, <2>3, <2>4 DEF LiveEntries
      <2> QED BY <2>2, <2>5 DEF Position, Place
<1>7. \A t \in Ahead : \E e \in S : e.trace = t /\ e.ver = feed[t].ver
      <2> TAKE t \in Ahead
      <2> DEFINE e == [trace |-> t, ver |-> feed[t].ver, src |-> feed[t].src,
                       fresh |-> feed[t].src > SettledBefore]
      <2>1. e \in S /\ e.trace = t /\ e.ver = feed[t].ver
            OBVIOUS
      <2> QED BY <2>1
<1>8. \A e, f \in S : e.trace = f.trace => e = f
      OBVIOUS
<1> HIDE DEF S
<1>9. Pageable(S)
      BY <1>4, <1>6, <1>8, EntriesPage
<1>10. /\ page \in Seq(S) /\ Len(page) <= Limit + 1 /\ Len(page) >= 1
       /\ \A i, j \in DOMAIN page : i < j => Before(Position(page[i]), Position(page[j]))
       /\ \A e \in S : \/ \E j \in DOMAIN page : page[j] = e
                       \/ /\ Len(page) = Limit + 1
                          /\ Before(Position(page[Limit + 1]), Position(e))
       BY <1>3, <1>5, <1>7, <1>9, PageOfIs
<1>11. \A i \in DOMAIN page : page[i] \in S
       BY <1>10
<1>12. page \in Seq(LiveEntries)
       BY <1>6, <1>10
<1>13. \A i \in DOMAIN page : /\ Before(cursor.at, Position(page[i])) /\ page[i].ver \in 1 .. watermark
                              /\ feed[page[i].trace].src = page[i].src
       BY <1>4, <1>6, <1>11
<1>14. ASSUME NEW t \in Traces, feed[t].ver # 0, Before(cursor.at, Place(t))
       PROVE  \/ \E j \in DOMAIN page : page[j].trace = t /\ page[j].ver = feed[t].ver
              \/ Before(Position(page[Len(page)]), Place(t))
       <2>1. t \in Ahead
             BY <1>14 DEF Ahead, Place
       <2>2. PICK e \in S : e.trace = t /\ e.ver = feed[t].ver
             BY <1>7, <2>1
       <2>3. Position(e) = Place(t)
             BY <1>6, <2>2
       <2> QED BY <1>10, <2>2, <2>3
<1>15. LivePage'
       <2>1. Ordered(poll.page)'
             BY <1>0, <1>2, <1>3, <1>10, <1>13 DEF Ordered
       <2>2. poll'.pc # "guards final" /\ poll'.page = page
             BY <1>2, <1>3
       <2> QED BY <1>0, <1>12, <1>13, <1>14, <2>1, <2>2, StoreRestsIs DEF LivePage, EntriesKnown, NoneBetween, AgainKnown, StoreRests
<1>16. LivePassed'
       BY <1>0, StoreRestsIs DEF LiveInv
<1> QED BY <1>0, <1>2, <1>15, <1>16 DEF LiveInv, StoreRests

\* A step that leaves the page, and has not read a trace again.
LEMMA PageRests ==
    ASSUME LiveInv, consumer = "live", StoreRests, UNCHANGED <<consumer, cursor, offered>>,
           poll.pc # "idle", poll'.page = poll.page, poll' = Polls', DOMAIN poll'.version = Traces,
           poll'.pc \in {"read", "walk", "guards after", "again", "guards final"},
           poll'.pc = "guards final" =>
               \/ poll.pc = "guards final" /\ poll'.version = poll.version
               \/ poll'.version[poll.page[1].trace] = TraceVersion(poll.page[1].trace)
    PROVE  LiveInv'
<1>1. LivePage /\ LivePassed /\ LivePassed'
      BY StoreRestsIs DEF LiveInv
<1>2. \A t : (Kept(t)' <=> Kept(t)) /\ (InFlight(t)' <=> InFlight(t))
             /\ TraceVersion(t)' = TraceVersion(t) /\ Place(t)' = Place(t)
      BY StoreRestsIs
<1>3. Ordered(poll.page)'
      BY <1>1 DEF LivePage, EntriesKnown, NoneBetween, AgainKnown, Ordered
<1>4. ASSUME NEW u, u = poll.page[1].trace, poll'.pc = "guards final",
             Kept(u)', feed'[u].ver = poll.page[1].ver
      PROVE  InFlight(u)' \/ poll'.version[u] = TraceVersion(u)'
      <2>1. Kept(u) /\ feed[u].ver = poll.page[1].ver
            BY <1>2, <1>4 DEF StoreRests
      <2>2. poll.pc = "guards final" => InFlight(u) \/ poll.version[u] = TraceVersion(u)
            BY <1>1, <1>4, <2>1 DEF LivePage, EntriesKnown, NoneBetween, AgainKnown
      <2> QED BY <1>2, <1>4, <2>2
<1>5. /\ poll.page \in Seq(LiveEntries)
      /\ \A i \in DOMAIN poll.page :
            /\ poll.page[i].ver \in 1 .. watermark
            /\ Kept(poll.page[i].trace)' /\ feed[poll.page[i].trace].ver = poll.page[i].ver
                  => feed[poll.page[i].trace].src = poll.page[i].src
      BY <1>1, <1>2 DEF LivePage, EntriesKnown, NoneBetween, AgainKnown
<1>6. \A t \in Traces : Kept(t)' /\ feed[t].ver # 0 /\ Before(cursor.at, Place(t)') =>
          \/ \E j \in DOMAIN poll.page : poll.page[j].trace = t /\ poll.page[j].ver = feed[t].ver
          \/ Before(Position(poll.page[Len(poll.page)]), Place(t)')
      BY <1>1, <1>2 DEF LivePage, EntriesKnown, NoneBetween, AgainKnown
<1>7. UNCHANGED <<cursor, feed, watermark>> /\ poll'.page = poll.page
      BY DEF StoreRests
<1>8. LivePage'
      <2>1. (poll.page \in Seq(LiveEntries))' /\ Ordered(poll.page)'
            BY <1>3, <1>5, <1>7
      <2>2. EntriesKnown'
            BY <1>5, <1>7 DEF EntriesKnown
      <2>3. NoneBetween'
            BY <1>6, <1>7 DEF NoneBetween
      <2>4. AgainKnown'
            BY <1>4, <1>7 DEF AgainKnown
      <2> QED BY <2>1, <2>2, <2>3, <2>4 DEF LivePage
<1> QED BY <1>1, <1>8 DEF LiveInv, StoreRests

LEMMA BlockedKeeps ==
    ASSUME LiveInv, consumer = "live", StoreRests, UNCHANGED consumer, Blocked
    PROVE  LiveInv'
<1>1. LivePassed'
      BY StoreRestsIs DEF LiveInv, Blocked
<1>2. poll' = Polls' /\ DOMAIN poll'.version = Traces /\ poll'.pc = "idle"
      BY DEF Blocked, Unread, Polls
<1> QED BY <1>1, <1>2 DEF LiveInv, StoreRests, Blocked

\* The cursor moves past an entry that was offered, or is not to be served.
LEMMA ConsumeKeeps ==
    ASSUME WriteShape, LiveInv, consumer = "live", StoreRests, UNCHANGED consumer,
           poll.pc # "idle", NEW shows, Consume(shows),
           Kept(Entry.trace) /\ feed[Entry.trace].ver = Entry.ver =>
               \/ Entry \in shows \/ InFlight(Entry.trace)
               \/ TraceVersion(Entry.trace) # feed[Entry.trace].src
    PROVE  LiveInv'
<1>a. PICK page : page = poll.page
      OBVIOUS
<1>b. PICK n : n = Len(page)
      OBVIOUS
<1>1. LivePage /\ LivePassed /\ cursor.at \in Nat \X Nat
      BY DEF LiveInv
<1>2. /\ page \in Seq(LiveEntries) /\ n \in Nat /\ n >= 1 /\ DOMAIN page = 1 .. n /\ 1 \in 1 .. n /\ n \in 1 .. n
      /\ Entry = page[1]
      <2>1. page \in Seq(LiveEntries) /\ n >= 1
            BY <1>1, <1>a, <1>b DEF LivePage, Ordered
      <2>2. n \in Nat /\ DOMAIN page = 1 .. n
            BY <1>b, <2>1
      <2>3. Entry = page[1]
            BY <1>a, <2>1 DEF Entry
      <2>4. 1 \in 1 .. n /\ n \in 1 .. n
            BY <2>1, <2>2
      <2> QED BY <2>1, <2>2, <2>3, <2>4
<1>3. \A i \in 1 .. n : /\ page[i] \in LiveEntries /\ page[i].ver \in 1 .. watermark
                        /\ page[i].trace \in Traces /\ Position(page[i]) \in Nat \X Nat
      <2> TAKE i \in 1 .. n
      <2>1. page[i] \in LiveEntries
            BY <1>2
      <2>2. page[i].ver \in 1 .. watermark
            BY <1>1, <1>2, <1>a DEF LivePage, EntriesKnown
      <2>3. page[i].trace \in Nat /\ page[i].ver \in Nat /\ page[i].trace \in Traces
            BY <2>1, StoreAssumption DEF StoreAssumption, LiveEntries
      <2> QED BY <2>1, <2>2, <2>3 DEF Position
<1>4. /\ cursor' = [kind |-> "live", at |-> Position(Entry), through |-> 0]
      /\ cursor'.at = Position(page[1])
      <2>1. cursor = [kind |-> "live", at |-> cursor.at, through |-> 0]
            BY DEF LiveInv
      <2>2. cursor' = [cursor EXCEPT !.at = Position(Entry)]
            BY DEF Consume
      <2>3. PICK k : k = Position(Entry)
            OBVIOUS
      <2>4. cursor' = [kind |-> "live", at |-> k, through |-> 0]
            BY ONLY <2>1, <2>2, <2>3
      <2> QED BY <1>2, <2>3, <2>4
<1>5. cursor'.at \in Nat \X Nat /\ cursor'.at[1] <= watermark'
      <2>1. cursor'.at[1] = page[1].ver
            BY <1>4 DEF Position
      <2> QED BY <1>2, <1>3, <1>4, <2>1 DEF StoreRests, WriteShape
<1>6. \A t : (Kept(t)' <=> Kept(t)) /\ (InFlight(t)' <=> InFlight(t))
             /\ TraceVersion(t)' = TraceVersion(t) /\ Place(t)' = Place(t)
      BY StoreRestsIs
<1>7. \A t \in Traces : Place(t) \in Nat \X Nat /\ t \in Nat
      BY StoreAssumption DEF StoreAssumption, WriteShape, Place
<1>8. \A i, j \in 1 .. n : i < j => Before(Position(page[i]), Position(page[j]))
      BY <1>1, <1>2, <1>a DEF LivePage, Ordered
<1>9. Before(cursor.at, Position(page[1]))
      BY <1>1, <1>2, <1>a DEF LivePage, Ordered
<1>10. ASSUME NEW t \in Traces, Kept(t), feed[t].ver # 0, Before(cursor.at, Place(t)), ~Before(Position(page[1]), Place(t))
       PROVE  t = page[1].trace /\ feed[t].ver = page[1].ver
       <2>1. ~Before(Position(page[n]), Place(t))
             <3>1. n = 1 \/ Before(Position(page[1]), Position(page[n]))
                   BY <1>2, <1>8
             <3> QED BY <1>2, <1>3, <1>7, <1>10, <3>1, BeforeOrders
       <2>2. PICK j \in 1 .. n : page[j].trace = t /\ page[j].ver = feed[t].ver
             BY <1>1, <1>2, <1>10, <1>a, <1>b, <2>1 DEF LivePage, NoneBetween
       <2>3. Position(page[j]) = Place(t)
             BY <2>2 DEF Position, Place
       <2>4. ~(1 < j)
             BY <1>2, <1>8, <1>10, <2>3
       <2>5. j = 1
             BY <1>2, <2>4
       <2> QED BY <2>2, <2>5
<1>11. LivePassed'
       <2> SUFFICES ASSUME NEW t \in Traces, Kept(t), feed[t].ver # 0, ~Before(Position(page[1]), Place(t)),
                           ~InFlight(t), TraceVersion(t) = feed[t].src
                    PROVE  Published(t, feed[t].ver) \in offered'
           BY <1>4, <1>6 DEF LivePassed, StoreRests
       <2>1. offered' = offered \cup {Published(e.trace, e.ver) : e \in shows}
             BY DEF Consume
       <2>2. CASE Before(cursor.at, Place(t))
             <3>1. t = Entry.trace /\ feed[t].ver = Entry.ver
                   BY <1>2, <1>10, <2>2
             <3>2. Entry \in shows
                   BY <3>1
             <3> QED BY <2>1, <3>1, <3>2
       <2>3. CASE ~Before(cursor.at, Place(t))
             BY <1>1, <2>1, <2>3 DEF LivePassed
       <2> QED BY <2>2, <2>3
<1>12. CASE poll' = Unread
       <2>1. poll' = Polls' /\ DOMAIN poll'.version = Traces /\ poll'.pc = "idle"
             BY <1>12 DEF Unread, Polls
       <2> QED BY <1>4, <1>5, <1>11, <2>1 DEF LiveInv
<1>13. CASE poll' # Unread
       <2>1. /\ n # 1
             /\ poll' = [poll EXCEPT !.pc = "walk", !.page = Tail(@),
                                     !.shown = poll.shown + Cardinality(shows), !.got = {}]
             BY <1>13, <1>a, <1>b DEF Consume
       <2>2. /\ poll' = Polls' /\ DOMAIN poll'.version = Traces /\ poll'.pc = "walk" /\ poll'.page = Tail(page)
             BY <1>a, <2>1 DEF LiveInv, Polls
       <2>3. PICK rest : rest = Tail(page)
             OBVIOUS
       <2>4. /\ rest \in Seq(LiveEntries) /\ Len(rest) = n - 1 /\ DOMAIN rest = 1 .. (n - 1)
             /\ \A i \in 1 .. (n - 1) : rest[i] = page[i + 1]
             BY <1>2, <1>b, <2>1, <2>3
       <2>5. \A i \in 1 .. (n - 1) : i + 1 \in 1 .. n /\ 1 < i + 1 /\ 1 \in 1 .. n
             BY <1>2
       <2>6. Ordered(poll.page)'
             <3>1. \A i \in 1 .. (n - 1) : Before(Position(page[1]), Position(rest[i]))
                   BY <1>8, <2>4, <2>5
             <3>2. ASSUME NEW i \in 1 .. (n - 1), NEW j \in 1 .. (n - 1), i < j
                   PROVE  Before(Position(rest[i]), Position(rest[j]))
                   <4>1. i + 1 < j + 1
                         BY <1>2, <3>2
                   <4> QED BY <1>8, <2>4, <2>5, <4>1
             <3>3. n - 1 >= 1
                   BY <1>2, <2>1
             <3> QED BY <1>4, <2>2, <2>3, <2>4, <3>1, <3>2, <3>3 DEF Ordered
       <2>7. EntriesKnown'
             <3>1. \A i \in 1 .. (n - 1) :
                      /\ rest[i].ver \in 1 .. watermark
                      /\ Kept(rest[i].trace) /\ feed[rest[i].trace].ver = rest[i].ver
                            => feed[rest[i].trace].src = rest[i].src
                   <4> TAKE i \in 1 .. (n - 1)
                   <4>1. i + 1 \in DOMAIN page /\ rest[i] = page[i + 1]
                         BY <1>2, <2>4, <2>5
                   <4> QED BY <1>1, <1>a, <4>1 DEF LivePage, EntriesKnown
             <3> QED BY <1>6, <2>2, <2>3, <2>4, <3>1 DEF EntriesKnown, StoreRests
       <2>8. ASSUME NEW t \in Traces, Kept(t), feed[t].ver # 0, Before(Position(page[1]), Place(t))
             PROVE  \/ \E j \in DOMAIN rest : rest[j].trace = t /\ rest[j].ver = feed[t].ver
                    \/ Before(Position(rest[Len(rest)]), Place(t))
             <3>1. rest[Len(rest)] = page[n]
                   BY <1>2, <2>1, <2>4
             <3>2. Before(cursor.at, Place(t))
                   BY <1>1, <1>2, <1>3, <1>7, <1>9, <2>8, BeforeOrders
             <3>3. CASE Before(Position(page[n]), Place(t))
                   BY <3>1, <3>3
             <3>4. ASSUME NEW j \in 1 .. n, page[j].trace = t, page[j].ver = feed[t].ver
                   PROVE  \E i \in DOMAIN rest : rest[i].trace = t /\ rest[i].ver = feed[t].ver
                   <4>1. Position(page[j]) = Place(t)
                         BY <3>4 DEF Position, Place
                   <4>2. j # 1
                         BY <1>2, <1>7, <2>8, <4>1, BeforeOrders
                   <4>3. j - 1 \in 1 .. (n - 1) /\ (j - 1) + 1 = j
                         BY <1>2, <4>2
                   <4>4. rest[j - 1] = page[j]
                         BY <2>4, <4>3
                   <4> QED BY <2>4, <3>4, <4>3, <4>4
             <3> QED BY <1>1, <1>2, <1>a, <1>b, <2>8, <3>2, <3>3, <3>4 DEF LivePage, NoneBetween
       <2>9. NoneBetween'
             <3>1. cursor'.at = Position(page[1]) /\ poll'.page = rest /\ feed' = feed
                   BY <1>4, <2>2, <2>3 DEF StoreRests
             <3> QED BY <1>6, <2>8, <3>1 DEF NoneBetween
       <2>10. AgainKnown'
             BY <2>2 DEF AgainKnown
       <2>11. LivePage'
             BY <2>2, <2>3, <2>4, <2>6, <2>7, <2>9, <2>10 DEF LivePage
       <2> QED BY <1>4, <1>5, <1>11, <2>2, <2>11 DEF LiveInv
<1> QED BY <1>12, <1>13

\* The request looks at its first entry.
LEMMA WalkKeeps ==
    ASSUME OnlyBatches, WriteShape, LiveInv, consumer = "live", UNCHANGED consumer, StoreRests,
           Walk \/ \E read \in Guards : ReadGuardAgain(read)
    PROVE  LiveInv'
<1>1. poll.pc # "idle" /\ poll = Polls /\ DOMAIN poll.version = Traces
      BY DEF Walk, ReadGuardAgain, LiveInv
<1>2. CASE Blocked
      BY <1>2, BlockedKeeps
<1>3. ASSUME NEW shows, Consume(shows), Entry \in shows PROVE LiveInv'
      BY <1>1, <1>3, ConsumeKeeps
<1>4. ASSUME Walk, ~Blocked PROVE LiveInv'
      <2>1. CASE poll' = [poll EXCEPT !.pc = "guards after", !.got = {}] /\ UNCHANGED <<cursor, offered>>
            <3>1. /\ poll' = Polls' /\ DOMAIN poll'.version = Traces /\ poll'.page = poll.page
                  /\ poll'.pc = "guards after"
                  BY <1>1, <2>1 DEF Polls
            <3> QED BY <1>1, <2>1, <3>1, PageRests
      <2>2. CASE poll.version[Entry.trace] = Entry.src /\ Consume({Entry})
            BY <1>3, <2>2
      <2> QED BY <1>4, <2>1, <2>2 DEF Walk, Decide
<1>5. ASSUME NEW read \in Guards, ReadGuardAgain(read), ~Blocked PROVE LiveInv'
      <2> DEFINE got == poll.got \cup {read}
                 pending == poll.pending \cup Held(read, {Entry.trace})
      <2>1. CASE /\ poll' = [poll EXCEPT !.got = got, !.pending = pending] \/
                       (/\ poll' = [poll EXCEPT !.pc = "again", !.got = {}])
                 /\ UNCHANGED <<cursor, offered>>
            <3>1. /\ poll' = Polls' /\ DOMAIN poll'.version = Traces /\ poll'.page = poll.page
                  /\ poll'.version = poll.version
                  /\ poll'.pc \in {poll.pc, "again"} /\ poll.pc \in {"guards after", "guards final"}
                  BY <1>1, <1>5, <2>1 DEF Polls, ReadGuardAgain
            <3> QED BY <1>1, <2>1, <3>1, PageRests
      <2>2. CASE /\ poll.pc = "guards final" /\ Entry.trace \notin pending
                 /\ Decide(poll.version[Entry.trace])
            <3>1. read = "raw"
                  BY DEF Guards, OnlyBatches
            <3>2. ~InFlight(Entry.trace)
                  BY <2>2, <3>1 DEF Held, RawPending, InFlight
            <3>3. CASE poll.version[Entry.trace] < Entry.src /\ Consume({})
                  <4>1. LivePage
                        BY <1>1 DEF LiveInv
                  <4>2. 1 \in DOMAIN poll.page /\ poll.page[1] \in LiveEntries /\ Entry = poll.page[1]
                        BY <4>1 DEF LivePage, Ordered, Entry
                  <4>3. ASSUME Kept(Entry.trace), feed[Entry.trace].ver = Entry.ver
                        PROVE  TraceVersion(Entry.trace) # feed[Entry.trace].src
                        <5>1. feed[Entry.trace].src = Entry.src
                              BY <4>1, <4>2, <4>3 DEF LivePage, EntriesKnown
                        <5>2. poll.version[Entry.trace] = TraceVersion(Entry.trace)
                              BY <2>2, <3>2, <4>1, <4>2, <4>3 DEF LivePage, AgainKnown
                        <5>3. Entry.src \in Nat
                              BY <4>2 DEF LiveEntries
                        <5>4. poll.version[Entry.trace] # Entry.src
                              BY <3>3, <5>3
                        <5> QED BY <5>1, <5>2, <5>4
                  <4> QED BY <1>1, <3>3, <4>3, ConsumeKeeps
            <3>4. CASE poll.version[Entry.trace] = Entry.src /\ Consume({Entry})
                  BY <1>3, <3>4
            <3> QED BY <1>5, <2>2, <3>3, <3>4 DEF Decide
      <2> QED BY <1>5, <2>1, <2>2 DEF ReadGuardAgain
<1> QED BY <1>2, <1>4, <1>5

LEMMA ReadTraceKeeps ==
    ASSUME LiveInv, consumer = "live", UNCHANGED consumer, StoreRests,
           ReadTraceAgain \/ \E read \in Guards \cup {"trace"} : ReadLive(read)
    PROVE  LiveInv'
<1>1. /\ poll.pc # "idle" /\ poll = Polls /\ DOMAIN poll.version = Traces /\ UNCHANGED <<cursor, offered>>
      /\ LivePage
      BY DEF ReadTraceAgain, ReadLive, LiveInv
<1>2. CASE ReadTraceAgain
      <2>1. Entry.trace \in Traces /\ Entry = poll.page[1]
            <3>1. 1 \in DOMAIN poll.page /\ poll.page[1] \in LiveEntries /\ Entry = poll.page[1]
                  BY <1>1 DEF LivePage, Ordered, Entry
            <3> QED BY <3>1 DEF LiveEntries
      <2>2. poll' = [poll EXCEPT !.pc = "guards final", !.version[Entry.trace] = TraceVersion(Entry.trace)]
            BY <1>2 DEF ReadTraceAgain
      <2>3. /\ poll' = Polls' /\ DOMAIN poll'.version = Traces /\ poll'.page = poll.page
            /\ poll'.pc = "guards final" /\ poll'.version[Entry.trace] = TraceVersion(Entry.trace)
            BY <1>1, <2>1, <2>2 DEF Polls
      <2> QED BY <1>1, <2>1, <2>3, PageRests
<1>3. ASSUME NEW read \in Guards \cup {"trace"}, ReadLive(read) PROVE LiveInv'
      <2>1. poll.pc = "read"
            BY <1>3 DEF ReadLive
      <2>2. /\ poll' = Polls' /\ DOMAIN poll'.version = Traces /\ poll'.page = poll.page
            /\ poll'.pc \in {"read", "walk"}
            BY <1>1, <1>3, <2>1 DEF Polls, ReadLive
      <2> QED BY <1>1, <2>2, PageRests
<1> QED BY <1>2, <1>3

\* A nonempty finite set of numbers has a greatest.
LEMMA GreatestOf ==
    ASSUME NEW S \in SUBSET Nat, IsFiniteSet(S), S # {}
    PROVE  Max(S) \in S
<1>n. \A y \in S : y \in Nat
      OBVIOUS
<1> DEFINE From(x) == {y \in S : y >= x}
           T == {From(x) : x \in S}
           R == StrictSubsetOrdering(S)
<1>1. T \subseteq FiniteSubsetsOf(S) /\ T # {}
      <2>1. \A x \in S : From(x) \in SUBSET S
            OBVIOUS
      <2>2. \A X \in SUBSET S : IsFiniteSet(X)
            BY FS_Subset
      <2> HIDE DEF From
      <2> QED BY <2>1, <2>2 DEF FiniteSubsetsOf
<1>2. PICK least \in T : \A X \in T : ~(<<X, least>> \in R)
      <2> HIDE DEF T, R
      <2>1. IsWellFoundedOn(R, FiniteSubsetsOf(S))
            BY FS_StrictSubsetOrderingWellFounded DEF R
      <2> QED BY <1>1, <2>1, WFMin
<1>3. PICK x \in S : least = From(x)
      BY <1>2
<1>4. ASSUME NEW y \in S PROVE x >= y
      <2>1. CASE y > x
            <3>1. From(y) \in T /\ From(y) \subseteq S /\ From(x) \subseteq S
                  OBVIOUS
            <3>2. x \in From(x) /\ x \notin From(y)
                  BY <1>n, <2>1
            <3>3. \A z \in From(y) : z \in From(x)
                  BY <1>n, <2>1
            <3> HIDE DEF From, T
            <3>4. <<From(y), From(x)>> \in R
                  BY <3>1, <3>2, <3>3 DEF StrictSubsetOrdering
            <3> QED BY <1>2, <1>3, <3>1, <3>4
      <2> QED BY <1>n, <2>1
<1> QED BY <1>4 DEF Max

LEMMA VersionIsNumber ==
    ASSUME \A k \in Keys : rows[k].ver \in Nat, NEW t \in Traces
    PROVE  TraceVersion(t) \in Nat
<1> DEFINE V == {rows[k].ver : k \in LiveKeys(t)}
<1>1. IsFiniteSet(LiveKeys(t))
      <2>1. IsFiniteSet(Parts) /\ IsFiniteSet(Traces)
            <3>1. IsFiniteSet({Root}) /\ IsFiniteSet(Obs) /\ IsFiniteSet(Traces)
                  BY FS_Singleton, StoreAssumption DEF StoreAssumption
            <3> QED BY <3>1, FS_Union DEF Parts
      <2>2. IsFiniteSet(Keys)
            BY <2>1, FS_Product DEF Keys
      <2>3. LiveKeys(t) \in SUBSET Keys
            BY DEF LiveKeys
      <2> QED BY <2>2, <2>3, FS_Subset
<1>2. V \in SUBSET Nat
      <2>1. \A k \in LiveKeys(t) : rows[k].ver \in Nat
            BY DEF LiveKeys
      <2> QED BY <2>1
<1>3. IsFiniteSet(V)
      <2> DEFINE f == [k \in LiveKeys(t) |-> rows[k].ver]
      <2>1. f \in Surjection(LiveKeys(t), V)
            BY DEF Surjection
      <2> HIDE DEF f, V
      <2> QED BY <1>1, <2>1, FS_Surjection
<1>4. CASE Visible(t)
      <2>1. RootKey(t) \in LiveKeys(t)
            BY <1>4 DEF Visible, LiveKeys, RootKey, Keys, Parts
      <2>2. V # {}
            BY <2>1
      <2> HIDE DEF V
      <2>3. Max(V) \in Nat
            BY <1>2, <1>3, <2>2, GreatestOf
      <2>4. PICK m \in Nat : m = Max(V)
            BY <2>3
      <2>5. TraceVersion(t) = m \div 2
            BY <1>4, <2>4 DEF TraceVersion, V
      <2>6. m \div 2 \in Nat
            BY <2>4
      <2> QED BY <2>5, <2>6
<1> QED BY <1>4 DEF TraceVersion

LEMMA LastIsNumber == LastTrace \in Int
<1> DEFINE S == Traces \cup {0}
<1>1. S \in SUBSET Nat /\ IsFiniteSet(S) /\ S # {}
      <2>1. IsFiniteSet({0}) /\ IsFiniteSet(Traces)
            BY FS_Singleton, StoreAssumption DEF StoreAssumption
      <2>2. IsFiniteSet(S)
            BY <2>1, FS_Union
      <2> QED BY <2>2, StoreAssumption DEF StoreAssumption
<1> HIDE DEF S
<1>2. Max(S) \in Nat
      BY <1>1, GreatestOf
<1>3. LastTrace = Max(S) + 1
      BY DEF LastTrace, S
<1> QED BY <1>2, <1>3

LEMMA ListSettledKeeps ==
    ASSUME WriteShape, ScanInv, ListSettled
    PROVE  ScanInv'
<1>0. StoreRests /\ consumer = "scan" /\ UNCHANGED <<consumer, offered>> /\ poll.pc = "idle" /\ cursor.kind # "live"
      BY DEF ListSettled, FeedReader, StoreRests, storeVars
<1>1. \A t : (Old(t)' <=> Old(t)) /\ TraceVersion(t)' = TraceVersion(t)
      BY <1>0, StoreRestsIs
<1>2. /\ cursor' = [kind |-> "bootstrap", at |-> cursor'.at, through |-> cursor'.through]
      /\ cursor'.at \in Int \X Int /\ cursor'.through \in Nat \ {0}
      /\ cursor'.at = cursor.at \/ cursor'.at = <<0, 0>>
      <2>1. cursor' = Bootstrap
            BY DEF ListSettled
      <2>2. CASE cursor.kind = "new"
            <3>1. cursor' = [kind |-> "bootstrap", at |-> <<0, 0>>, through |-> clock]
                  BY <2>1, <2>2 DEF Bootstrap, Origin
            <3>2. clock \in Nat \ {0}
                  BY DEF WriteShape
            <3> QED BY <3>1, <3>2
      <2>3. CASE cursor.kind # "new"
            <3>1. cursor' = cursor /\ cursor.kind = "bootstrap"
                  BY <1>0, <2>1, <2>3 DEF Bootstrap, ScanInv
            <3> QED BY <1>0, <3>1 DEF ScanInv
      <2> QED BY <2>2, <2>3
<1>3. ASSUME NEW t \in Traces, Old(t), ~Before(cursor'.at, <<1, t>>) PROVE Stored(t, 1) \in offered
      <2>1. Before(<<0, 0>>, <<1, t>>)
            BY DEF Before
      <2> QED BY <1>0, <1>2, <1>3, <2>1 DEF ScanInv
<1> DEFINE to == WindowTo(cursor')
           found == {[trace |-> t, ver |-> TraceVersion(t)] :
                       t \in {u \in Traces : Visible(u) /\ TraceVersion(u) <= to}}
           S == {e \in found : Before(cursor'.at, Position(e))}
<1>4. to \in Int
      <2>1. SettledBefore \in Int
            BY ReaderAssumption DEF ReaderAssumption, WriteShape, SettledBefore
      <2>2. cursor'.through \in Int
            BY <1>2
      <2>3. PICK a \in Int, b \in Int : a = SettledBefore /\ b = cursor'.through
            BY <2>1, <2>2
      <2>4. to = Min({a, b})
            BY <2>3 DEF WindowTo
      <2> QED BY <2>4, LessOf
<1>5. poll' = [Unread EXCEPT !.pc = "guards", !.settled = to, !.page = PageOf(S)]
      BY DEF ListSettled
<1> HIDE DEF to
<1>6. \A t \in Traces : TraceVersion(t) \in Nat
      <2>1. \A k \in Keys : rows[k].ver \in Nat
            BY DEF WriteShape, Rows
      <2> QED BY <2>1, VersionIsNumber
<1>7. \A e \in S : /\ e.trace \in Traces /\ e.ver \in Nat /\ e.ver <= to /\ e \in ScanEntries
                   /\ e.ver = TraceVersion(e.trace) /\ Before(cursor'.at, Position(e))
      <2> TAKE e \in S
      <2>1. PICK t \in Traces : e = [trace |-> t, ver |-> TraceVersion(t)] /\ TraceVersion(t) <= to
            OBVIOUS
      <2>2. TraceVersion(t) \in Nat /\ TraceVersion(t) \in Int
            BY <1>6
      <2> QED BY <2>1, <2>2 DEF ScanEntries
<1>8. \A e, f \in S : e.trace = f.trace => e = f
      OBVIOUS
<1>9. ASSUME NEW t \in Traces, Old(t), 1 <= to, Before(cursor'.at, <<1, t>>)
      PROVE  [trace |-> t, ver |-> 1] \in S /\ Position([trace |-> t, ver |-> 1]) = <<1, t>>
      <2>1. Visible(t) /\ TraceVersion(t) = 1
            BY <1>0, <1>9 DEF ScanInv, Old
      <2>2. Position([trace |-> t, ver |-> 1]) = <<1, t>>
            BY DEF Position
      <2>3. [trace |-> t, ver |-> 1] \in found
            BY <1>9, <2>1
      <2> QED BY <1>9, <2>2, <2>3
<1> HIDE DEF S
<1>10. Pageable(S)
       BY <1>7, <1>8, EntriesPage
<1>11. PICK page : page = PageOf(S)
       OBVIOUS
<1>12. /\ page \in Seq(S) /\ Len(page) <= Limit + 1
       /\ S # {} => Len(page) >= 1
       /\ \A i, j \in DOMAIN page : i < j => Before(Position(page[i]), Position(page[j]))
       /\ \A e \in S : \/ \E j \in DOMAIN page : page[j] = e
                       \/ /\ Len(page) = Limit + 1
                          /\ Before(Position(page[Limit + 1]), Position(e))
       BY <1>10, <1>11, PageOfIs
<1>13. /\ poll' = Polls' /\ poll'.pc = "guards" /\ poll'.page = page /\ poll'.settled = to
       BY <1>5, <1>11 DEF Unread, Polls
<1>14. page \in Seq(ScanEntries) /\ \A i \in DOMAIN page : page[i] \in S
       BY <1>7, <1>12
<1>15. (poll.page # <<>> => Ordered(poll.page))'
       <2>1. page # <<>> => Len(page) >= 1
             BY <1>12
       <2> QED BY <1>7, <1>12, <1>13, <1>14, <2>1 DEF Ordered
<1>16. ASSUME NEW t \in Traces, Old(t), 1 <= to, Before(cursor'.at, <<1, t>>)
       PROVE  \/ \E j \in DOMAIN page : page[j] = [trace |-> t, ver |-> 1]
              \/ Len(page) = Limit + 1 /\ Before(Position(page[Limit + 1]), <<1, t>>)
       BY <1>9, <1>12, <1>16
<1>17. ScanPage'
       <2>1. cursor'.kind = "bootstrap"
             BY <1>2
       <2>2. \A i \in DOMAIN page : page[i].ver <= to
             BY <1>7, <1>14
       <2> QED BY <1>1, <1>4, <1>12, <1>13, <1>14, <1>15, <1>16, <2>1, <2>2 DEF ScanPage
<1> QED BY <1>0, <1>1, <1>2, <1>3, <1>13, <1>17 DEF ScanInv

LEMMA ScanGuardKeeps ==
    ASSUME ScanInv, consumer = "scan", NEW read \in Guards, ReadScanGuard(read)
    PROVE  ScanInv'
<1>1. StoreRests /\ UNCHANGED <<consumer, cursor, offered>> /\ poll.pc = "guards"
      BY DEF ReadScanGuard, FeedReader, StoreRests, storeVars
<1>2. \A t : (Old(t)' <=> Old(t)) /\ TraceVersion(t)' = TraceVersion(t)
      BY <1>1, StoreRestsIs
<1>3. /\ poll' = Polls' /\ poll'.pc \in {"guards", "pubs"} /\ poll'.page = poll.page
      /\ poll'.settled = poll.settled
      BY <1>1 DEF ReadScanGuard, ScanInv, Polls
<1>4. ScanPage'
      BY <1>1, <1>2, <1>3 DEF ScanInv, ScanPage, Ordered
<1> QED BY <1>1, <1>2, <1>3, <1>4 DEF ScanInv

\* The answer to a page of the scan.
LEMMA RespondScanKeeps ==
    ASSUME WriteShape, ScanInv, consumer = "scan", RespondScan
    PROVE  ScanInv'
<1>0. StoreRests /\ UNCHANGED consumer /\ poll.pc = "pubs" /\ poll' = Unread
      BY DEF RespondScan, FeedReader, StoreRests, storeVars
<1>1. \A t : (Old(t)' <=> Old(t)) /\ TraceVersion(t)' = TraceVersion(t)
      BY <1>0, StoreRestsIs
<1>2. ScanPage /\ cursor.at \in Int \X Int /\ cursor.through \in Nat \ {0} /\ cursor.kind = "bootstrap"
      /\ cursor = [kind |-> "bootstrap", at |-> cursor.at, through |-> cursor.through]
      BY <1>0 DEF ScanInv, ScanPage
<1>3. PICK all : all = poll.page
      OBVIOUS
<1>4. PICK l \in Nat : l = Len(all) /\ DOMAIN all = 1 .. l /\ all \in Seq(ScanEntries) /\ l <= Limit + 1
      BY <1>2, <1>3 DEF ScanPage
<1>5. Limit \in Nat \ {0}
      BY ReaderAssumption DEF ReaderAssumption
<1>6. PICK m \in Nat : /\ m = Min({Limit, Len(all)}) /\ m <= l /\ m <= Limit /\ (m = l \/ m = Limit)
      <2>1. Min({Limit, l}) \in {Limit, l} /\ Min({Limit, l}) <= l /\ Min({Limit, l}) <= Limit
            <3>1. Limit \in Int /\ l \in Int
                  BY <1>4, <1>5
            <3> QED BY <3>1, LessOf
      <2> QED BY <1>4, <1>5, <2>1
<1>7. PICK page : /\ page = SubSeq(all, 1, m) /\ Len(page) = m /\ DOMAIN page = 1 .. m
                  /\ \A i \in 1 .. m : page[i] = all[i] /\ i \in 1 .. l
      <2>0. m \in 0 .. Len(all)
            BY <1>4, <1>6
      <2>1. SubSeq(all, 1, m) \in Seq(ScanEntries) /\ Len(SubSeq(all, 1, m)) = m
            BY <1>4, <2>0
      <2>2. \A i \in 1 .. m : i \in 1 .. l
            BY <1>4, <1>6
      <2>3. \A i \in 1 .. m : SubSeq(all, 1, m)[i] = all[i]
            BY <1>4, <1>6, <2>2
      <2>4. DOMAIN SubSeq(all, 1, m) = 1 .. m
            BY <2>1
      <2> QED BY <2>1, <2>2, <2>3, <2>4
<1> DEFINE stopped == {i \in DOMAIN page : Stops(page[i])}
           n == IF stopped = {} THEN Len(page) ELSE Min(stopped) - 1
           shown == {page[i] : i \in {j \in 1 .. n : ~Passed(page[j])}}
<1>8. PICK s : s = stopped
      OBVIOUS
<1>9. PICK k \in Nat : /\ k = n /\ k <= m /\ \A j \in 1 .. k : j \in 1 .. m /\ ~Stops(all[j])
                       /\ s = {} => k = m
      <2>1. CASE s = {}
            <3>1. n = m
                  BY <1>7, <1>8, <2>1
            <3>2. \A j \in 1 .. m : j \in 1 .. m /\ ~Stops(all[j])
                  BY <1>7, <1>8, <2>1
            <3>3. m <= m
                  BY <1>6
            <3> HIDE DEF n
            <3> QED BY <1>6, <2>1, <3>1, <3>2, <3>3
      <2>2. CASE s # {}
            <3>1. s \in SUBSET Nat /\ s \in SUBSET (1 .. m)
                  BY <1>6, <1>7, <1>8
            <3>2. PICK q \in Nat : q = Min(s) /\ q \in s /\ \A y \in s : q <= y
                  BY <2>2, <3>1, LeastOf
            <3>4. n = q - 1 /\ q \in 1 .. m
                  BY <1>8, <2>2, <3>1, <3>2
            <3>5. q - 1 \in Nat /\ q - 1 <= m
                  BY <1>6, <3>4
            <3>6. ASSUME NEW j \in 1 .. (q - 1) PROVE j \in 1 .. m /\ ~Stops(all[j])
                  <4>1. j \in 1 .. m /\ j < q
                        BY <1>6, <3>4
                  <4>2. j \notin s
                        BY <3>2, <4>1
                  <4> QED BY <1>7, <1>8, <4>1, <4>2
            <3> QED BY <2>2, <3>4, <3>5, <3>6
      <2> QED BY <2>1, <2>2
<1>10. /\ offered' = offered \cup
                 {IF feed[e.trace].ver # 0 THEN Published(e.trace, feed[e.trace].ver)
                  ELSE Stored(e.trace, e.ver) : e \in shown}
       /\ cursor' = ScanCursor(page, n, Len(poll.page) > Limit, stopped # {})
       BY <1>3, <1>6, <1>7 DEF RespondScan
<1>11. ASSUME NEW t \in Traces, Old(t), NEW j \in 1 .. k, all[j] = [trace |-> t, ver |-> 1]
       PROVE  Stored(t, 1) \in offered'
       <2>1. feed[t].ver = 0
             BY <1>11 DEF Old
       <2>2. page[j] = all[j]
             BY <1>7, <1>9
       <2>3. ~Passed(page[j])
             <3>1. page[j].trace = t
                   BY <1>11, <2>2
             <3> QED BY <2>1, <3>1 DEF Passed
       <2>4. all[j] \in shown
             BY <1>9, <2>2, <2>3
       <2> QED BY <1>10, <1>11, <2>1, <2>4
<1>12. offered \subseteq offered'
       BY <1>10
<1>13. cursor' = ScanCursor(page, k, l > Limit, s # {})
       BY <1>3, <1>4, <1>8, <1>9, <1>10
<1> HIDE DEF stopped, n, shown
<1>14. ASSUME NEW t \in Traces, Old(t), 1 <= poll.settled, Before(cursor.at, <<1, t>>)
       PROVE  \/ \E j \in 1 .. l : all[j] = [trace |-> t, ver |-> 1]
              \/ l = Limit + 1 /\ Before(Position(all[Limit + 1]), <<1, t>>)
       BY <1>2, <1>3, <1>4, <1>14 DEF ScanPage
<1>15. ASSUME NEW t \in Traces, Old(t), ~Before(cursor.at, <<1, t>>) PROVE Stored(t, 1) \in offered'
       BY <1>12, <1>15 DEF ScanInv
<1>16. ASSUME l > 0
       PROVE  /\ \A i \in 1 .. l : /\ all[i].trace \in Traces /\ Position(all[i]) \in Int \X Int
                                   /\ all[i].ver <= poll.settled /\ all[i].ver \in Int
              /\ \A i, j \in 1 .. l : i < j => Before(Position(all[i]), Position(all[j]))
       <2>1. all # <<>>
             BY <1>4, <1>16
       <2>2. Ordered(all)
             BY <1>2, <1>3, <2>1 DEF ScanPage
       <2>3. ASSUME NEW i \in 1 .. l
             PROVE  all[i].trace \in Traces /\ Position(all[i]) \in Int \X Int /\ all[i].ver \in Int
             <3>1. all[i] \in ScanEntries
                   BY <1>4
             <3>2. all[i].trace \in Traces /\ all[i].ver \in Int
                   BY <3>1 DEF ScanEntries
             <3>3. all[i].trace \in Int
                   <4>1. \A t \in Traces : t \in Int
                         BY StoreAssumption DEF StoreAssumption
                   <4> QED BY <3>2, <4>1
             <3> QED BY <3>2, <3>3 DEF Position
       <2>4. \A i \in 1 .. l : all[i].ver <= poll.settled
             BY <1>2, <1>3, <1>4 DEF ScanPage
       <2> QED BY <1>4, <2>2, <2>3, <2>4 DEF Ordered
<1>17. poll.settled \in Int /\ \A t \in Traces : t \in Int
       BY <1>2, StoreAssumption DEF ScanPage, StoreAssumption
<1>p. \A i \in 1 .. m : page[i] = all[i]
      BY <1>7
<1>18. /\ poll' = Polls' /\ poll'.pc = "idle"
       BY <1>0 DEF Unread, Polls
\* Everything up to the last entry of the answer was offered.
<1>19. ASSUME NEW t \in Traces, Old(t), k > 0, ~Before(Position(all[k]), <<1, t>>) PROVE Stored(t, 1) \in offered'
       <2>1. CASE ~Before(cursor.at, <<1, t>>)
             BY <1>15, <1>19, <2>1
       <2>2. CASE Before(cursor.at, <<1, t>>)
             <3>1. l > 0 /\ k \in 1 .. l
                   BY <1>4, <1>6, <1>9, <1>19
             <3>2. /\ Position(all[k]) \in Int \X Int /\ all[k].ver <= poll.settled /\ all[k].ver \in Int
                   /\ Position(all[k])[1] = all[k].ver /\ <<1, t>> \in Int \X Int
                   BY <1>16, <1>17, <3>1 DEF Position
             <3>3. 1 <= poll.settled
                   <4>1. ~(all[k].ver < 1)
                         BY <1>19, <3>2 DEF Before
                   <4> QED BY <1>17, <3>2, <4>1
             <3>4. CASE l = Limit + 1 /\ Before(Position(all[Limit + 1]), <<1, t>>)
                   <4>1. l \in 1 .. l /\ Position(all[l]) \in Int \X Int
                         BY <1>16, <3>1
                   <4>2. k = l \/ Before(Position(all[k]), Position(all[l]))
                         BY <1>16, <3>1, <4>1
                   <4> QED BY <1>19, <3>2, <3>4, <4>1, <4>2, BeforeOrders
             <3>5. ASSUME NEW j \in 1 .. l, all[j] = [trace |-> t, ver |-> 1] PROVE j \in 1 .. k
                   <4>1. Position(all[j]) = <<1, t>>
                         BY <3>5 DEF Position
                   <4>2. ~(k < j)
                         BY <1>16, <1>19, <3>1, <4>1
                   <4> QED BY <1>4, <1>9, <4>2
             <3> QED BY <1>11, <1>14, <1>19, <2>2, <3>3, <3>4, <3>5
       <2> QED BY <2>1, <2>2
\* The whole of the page was the answer.
<1>20. ASSUME NEW t \in Traces, Old(t), k = l, ~(l > Limit), 1 <= poll.settled PROVE Stored(t, 1) \in offered'
       <2>1. CASE ~Before(cursor.at, <<1, t>>)
             BY <1>15, <1>20, <2>1
       <2>2. CASE Before(cursor.at, <<1, t>>)
             <3>1. l # Limit + 1
                   BY <1>4, <1>5, <1>20
             <3> QED BY <1>11, <1>14, <1>20, <2>2, <3>1
       <2> QED BY <2>1, <2>2
<1>21. CASE ((l > Limit) \/ s # {}) /\ k > 0
       <2>1. k \in 1 .. m /\ k \in 1 .. l /\ l > 0
             BY <1>4, <1>6, <1>9, <1>21
       <2>2. cursor' = [cursor EXCEPT !.at = Position(page[k])]
             BY <1>13, <1>21 DEF ScanCursor
       <2>3. PICK p \in Int \X Int : p = Position(all[k]) /\ p = Position(page[k])
             BY <1>16, <1>p, <2>1
       <2>4. cursor' = [kind |-> "bootstrap", at |-> p, through |-> cursor.through]
             BY ONLY <1>2, <2>2, <2>3
       <2>5. \A t \in Traces : Old(t) /\ ~Before(p, <<1, t>>) => Stored(t, 1) \in offered'
             BY <1>19, <1>21, <2>3
       <2> QED BY <1>0, <1>1, <1>2, <1>18, <2>4, <2>5 DEF ScanInv
<1>22. CASE s # {} /\ k = 0
       <2>1. cursor' = cursor
             BY <1>13, <1>22 DEF ScanCursor
       <2> QED BY <1>0, <1>1, <1>2, <1>15, <1>18, <2>1 DEF ScanInv
<1>23. CASE s = {} /\ ~(l > Limit) /\ poll.settled < cursor.through
       <2>0. k = l
             BY <1>4, <1>5, <1>6, <1>9, <1>23
       <2> DEFINE p == IF k > 0 THEN Position(page[k]) ELSE <<poll.settled, LastTrace>>
       <2>1. cursor' = [cursor EXCEPT !.at = p]
             BY <1>13, <1>23 DEF ScanCursor
       <2>2. p \in Int \X Int
             <3>1. CASE k > 0
                   <4>1. k \in 1 .. m /\ k \in 1 .. l /\ l > 0
                         BY <1>4, <1>6, <1>9, <3>1
                   <4> QED BY <1>16, <1>p, <3>1, <4>1
             <3>2. CASE ~(k > 0)
                   BY <1>17, <3>2, LastIsNumber
             <3> QED BY <3>1, <3>2
       <2>3. ASSUME NEW t \in Traces, Old(t), ~Before(p, <<1, t>>) PROVE Stored(t, 1) \in offered'
             <3>1. CASE k > 0
                   <4>1. k \in 1 .. m
                         BY <1>6, <1>9, <3>1
                   <4> QED BY <1>19, <1>p, <2>3, <3>1, <4>1
             <3>2. CASE ~(k > 0)
                   <4>1. ~(poll.settled < 1)
                         BY <2>3, <3>2 DEF Before
                   <4> QED BY <1>17, <1>20, <1>23, <2>0, <2>3, <4>1
             <3> QED BY <3>1, <3>2
       <2> HIDE DEF p
       <2>4. cursor' = [kind |-> "bootstrap", at |-> p, through |-> cursor.through]
             BY ONLY <1>2, <2>1
       <2> QED BY <1>0, <1>1, <1>2, <1>18, <2>2, <2>3, <2>4 DEF ScanInv
<1>24. CASE s = {} /\ ~(l > Limit) /\ ~(poll.settled < cursor.through)
       <2>0. k = l
             BY <1>4, <1>5, <1>6, <1>9, <1>24
       <2>1. cursor' = [kind |-> "live", at |-> <<0, 0>>, through |-> 0]
             BY <1>13, <1>24 DEF ScanCursor, LiveCursor, Origin
       <2>2. 1 <= poll.settled
             BY <1>2, <1>17, <1>24
       <2>3. \A t \in Traces : Old(t) => Stored(t, 1) \in offered'
             BY <1>20, <1>24, <2>0, <2>2
       <2>4. \A t \in Traces : Old(t)' => TraceVersion(t)' = 1 /\ Stored(t, 1) \in offered'
             BY <1>1, <2>3 DEF ScanInv
       <2>5. /\ cursor' = [kind |-> cursor'.kind, at |-> cursor'.at, through |-> cursor'.through]
             /\ cursor'.kind = "live" /\ cursor'.at \in Int \X Int
             BY <2>1
       <2> QED BY <1>18, <2>4, <2>5 DEF ScanInv
<1>25. s = {} /\ l > Limit => k > 0
       BY <1>4, <1>5, <1>6, <1>9
<1>26. k > 0 \/ k = 0
       BY <1>9
<1> QED BY <1>21, <1>22, <1>23, <1>24, <1>25, <1>26

LEMMA FollowKeeps ==
    ASSUME OnlyBatches, WriteShape, WriteShape', AllChange, FollowInv, [Next]_vars
    PROVE  FollowInv'
<1>0. LiveInv /\ ScanInv
      BY DEF FollowInv
<1>1. CASE UNCHANGED <<consumer, cursor, poll, offered>>
      BY <1>0, <1>1, LiveRests, ScanRests DEF FollowInv
<1> DEFINE Live == \/ ListLive \/ Walk \/ ReadTraceAgain \/ (\E read \in Guards : ReadGuardAgain(read))
                   \/ (\E read \in Guards \cup {"trace"} : ReadLive(read))
           Scan == ListSettled \/ RespondScan \/ (\E read \in Guards : ReadScanGuard(read))
<1>2. Live \/ Scan => StoreRests /\ UNCHANGED consumer
      BY DEF ListLive, Walk, ReadTraceAgain, ReadGuardAgain, ReadLive, ListSettled, RespondScan, ReadScanGuard,
             FeedReader, StoreRests, storeVars
<1>3. CASE Live
      <2>1. consumer = "live" => LiveInv'
            BY <1>0, <1>2, <1>3, ListLiveKeeps, WalkKeeps, ReadTraceKeeps
      <2>2. consumer # "scan"
            <3>1. consumer = "live" \/ poll.pc \in {"walk", "again", "guards after", "guards final", "read"}
                  BY <1>3 DEF ListLive, Walk, ReadTraceAgain, ReadGuardAgain, ReadLive
            <3> QED BY <1>0, <3>1 DEF ScanInv
      <2>3. LiveInv' /\ ScanInv'
            BY <1>2, <1>3, <2>1, <2>2 DEF LiveInv, ScanInv
      <2> QED BY <2>3 DEF FollowInv
<1>4. CASE Scan
      <2>1. consumer = "scan" => ScanInv'
            BY <1>0, <1>4, ListSettledKeeps, RespondScanKeeps, ScanGuardKeeps
      <2>2. consumer # "live"
            <3>1. consumer = "scan" \/ poll.pc \in {"guards", "pubs"}
                  BY <1>4 DEF ListSettled, RespondScan, ReadScanGuard
            <3> QED BY <1>0, <3>1 DEF LiveInv
      <2>3. LiveInv' /\ ScanInv'
            BY <1>2, <1>4, <2>1, <2>2 DEF LiveInv, ScanInv
      <2> QED BY <2>3 DEF FollowInv
<1>5. CASE ReadersNext
      BY <1>1, <1>3, <1>4, <1>5 DEF ReadersNext, AskDetail, ReadDetailGuard, ReadGuardAfter, ReadBefore,
         ReadObservations, ReadAfter, Respond, DetailReader
<1> QED BY <1>1, <1>5 DEF Next, Step, vars, readerVars, ClockTicks

LEMMA FollowsAll ==
    ASSUME OnlyBatches, FollowInv
    PROVE  NothingSkipped /\ LegacyOffered
<1>1. \A t \in Traces : Servable(t) => Visible(t) /\ ~InFlight(t) /\ (feed[t].ver # 0 => TraceVersion(t) = feed[t].src)
      BY DEF Servable, Pending, RawPending, InFlight
<1>2. NothingSkipped
      <2> SUFFICES ASSUME NEW t \in Traces, Kept(t), feed[t].ver # 0, Servable(t), consumer = "live",
                          ~Before(cursor.at, <<feed[t].ver, t>>)
                   PROVE  VersionOf(t) \in offered
          BY DEF NothingSkipped
      <2>1. Published(t, feed[t].ver) \in offered
            BY <1>1 DEF FollowInv, LiveInv, LivePassed, Place
      <2> QED BY <2>1 DEF VersionOf
<1>3. LegacyOffered
      <2> SUFFICES ASSUME NEW t \in Traces, Kept(t), feed[t].ver = 0, Servable(t), consumer = "scan",
                          cursor.kind = "live"
                   PROVE  VersionOf(t) \in offered
          BY DEF LegacyOffered
      <2>1. Old(t)
            BY <1>1 DEF Old
      <2>2. TraceVersion(t) = 1 /\ Stored(t, 1) \in offered
            BY <2>1 DEF FollowInv, ScanInv
      <2> QED BY <2>2 DEF VersionOf
<1> QED BY <1>2, <1>3

LEMMA FollowHolds ==
    ASSUME OnlyBatches
    PROVE  Spec => [](NothingSkipped /\ LegacyOffered)
<1>1. Init => FenceInv /\ IngestInv /\ FollowInv
      BY FenceInit, InitIngestInv, InitFollow DEF IngestInv
<1>2. FenceInv /\ IngestInv /\ FollowInv /\ [Next]_vars => FenceInv' /\ IngestInv' /\ FollowInv'
      BY FenceStep, NextChanges, FollowKeeps DEF IngestInv
<1>3. FollowInv => NothingSkipped /\ LegacyOffered
      BY FollowsAll
<1> QED BY <1>1, <1>2, <1>3, PTL DEF Spec

\* In a project without pull imports the live cursor passes no version that
\* can be served and was not offered: what looks removed is passed over only
\* if no batch was writing it between the two looks at the guards.
THEOREM NothingIsSkipped ==
    ASSUME OnlyBatches
    PROVE  Spec => []NothingSkipped
<1> QED BY FollowHolds, PTL

\* In such a project a bootstrap scan that hands over to the live feed has
\* offered every trace that was stored before the feed and not touched since.
THEOREM LegacyIsOffered ==
    ASSUME OnlyBatches
    PROVE  Spec => []LegacyOffered
<1> QED BY FollowHolds, PTL

-----------------------------------------------------------------------------
(* Traces that imports write.  A run that lost its lease may still remove   *)
(* and insert rows, among the statements of the run that took over: neither *)
(* brings back a row of an earlier tree nor takes one of the last.          *)

OnlyImports == Batches = {} /\ Legacy = {} /\ ~StrayObservations

TreeRows == [ver : Nat, by : Trees \cup {None}, live : BOOLEAN]

RowsShape ==
    /\ rows \in [Keys -> TreeRows] /\ clock > 0
    /\ marked \subseteq {t \in Traces : Expired(t)}

Replacing(w) == run[w].pc \in {"tombstone", "insert", "publish"} /\ run[w].snap.required

\* The tables whose earlier rows the run has removed, and those it has filled.
Removed(w) == IF run[w].pc = "tombstone" THEN Tables \ run[w].todo ELSE Tables
Inserted(w) ==
    IF run[w].pc = "insert" THEN Tables \ run[w].todo
    ELSE {table \in Tables : run[w].pc = "publish"}

\* What a run did, nothing undoes.
ReplacedSoFar(w) ==
    LET t == run[w].cur
        s == run[w].snap
    IN  Replacing(w) /\ Kept(t) =>
          /\ \A table \in Removed(w) : \A k \in KeysIn(t, table) :
               rows[k].live => rows[k].ver >= At(s.gen)
          /\ \A table \in Inserted(w) : \A k \in TreeKeys(t, s.hash.tree) \cap KeysIn(t, table) :
               rows[k].ver >= At(s.gen)

\* What it still does is without effect once its snapshot has been published:
\* its tree was stored, and only the trees that followed are live.
ReplacedAlready(w) ==
    LET t == run[w].cur
        s == run[w].snap
    IN  Replacing(w) /\ Kept(t) =>
          /\ s.gen < staged[t].gen \/ ~staged[t].required =>
               \A k \in TreeKeys(t, s.hash.tree) : rows[k].ver >= At(s.gen)
          /\ ~staged[t].required => \A k \in LiveKeys(t) : rows[k].ver >= At(s.gen)

RunTimes(w) ==
    /\ Materializing(w) => run[w].snap.gen > 0
    /\ run[w].pc = "scores" => ~run[w].snap.required
    /\ run[w].pc = "stage" => run[w].cand > 0

RunReplaces(w) == ReplacedSoFar(w) /\ ReplacedAlready(w) /\ RunTimes(w)

\* No row is of a later generation than the snapshot; one written with the
\* generation of a tree is live until a later generation, and one of this
\* generation is of its tree.
RowKnown(t, k) ==
    /\ rows[k].ver <= At(staged[t].gen)
    /\ \A m \in Nat \ {0} : rows[k].ver = At(m) => rows[k].live
    /\ rows[k].live /\ rows[k].ver = At(staged[t].gen) =>
         k \in TreeKeys(t, staged[t].hash.tree)

Exact(t) == LiveKeys(t) = TreeKeys(t, staged[t].hash.tree)

StoredKnown(t) ==
    /\ staged[t].required => staged[t].pending
    /\ staged[t].hash # None => staged[t].gen > 0
    /\ Kept(t) => \A k \in Keys : k[1] = t => RowKnown(t, k)
    /\ Kept(t) /\ staged[t].hash # None /\ ~staged[t].required => Exact(t)

ExactInv ==
    /\ RowsShape
    /\ \A w \in Workers : RunReplaces(w)
    /\ \A t \in Traces : StoredKnown(t)
-----------------------------------------------------------------------------
LEMMA KeysOfTrace ==
    ASSUME NEW t \in Traces
    PROVE  /\ \A table \in Tables : \A k \in KeysIn(t, table) : k \in Keys /\ k[1] = t
           /\ \A tree \in Trees : \A k \in TreeKeys(t, tree) : k \in Keys /\ k[1] = t
           /\ \A k \in Keys : k[1] = t => \E table \in Tables : k \in KeysIn(t, table)
<1>1. \A table \in Tables : \A k \in KeysIn(t, table) : k \in Keys /\ k[1] = t
  BY DEF Tables, KeysIn, RootKey, ObsKeys, Keys, Parts
<1>2. \A tree \in Trees : \A k \in TreeKeys(t, tree) : k \in Keys /\ k[1] = t
  BY ImportAssumption DEF TreeKeys, RootKey, Keys, Parts
<1>3. ASSUME NEW k \in Keys, k[1] = t PROVE \E table \in Tables : k \in KeysIn(t, table)
  <2>1. k = <<t, k[2]>> /\ k[2] \in {Root} \cup Obs
    BY <1>3 DEF Keys, Parts
  <2>2. k[2] = Root => k \in KeysIn(t, Root)
    BY <2>1 DEF KeysIn, RootKey
  <2>3. k[2] \in Obs => k \in KeysIn(t, "observations")
    BY <2>1 DEF KeysIn, ObsKeys, Root
  <2> QED
    BY <2>1, <2>2, <2>3 DEF Tables
<1> QED
  BY <1>1, <1>2, <1>3

\* What one step may do to a trace's rows and snapshot: versions grow, a row
\* that comes to life is of the last generation, and a snapshot is replaced or
\* cleared when there is none to publish or all of it is stored.
StoredWhole(t) ==
    /\ \A k \in TreeKeys(t, staged[t].hash.tree) : rows'[k].ver >= At(staged[t].gen)
    /\ \A k \in LiveKeys(t)' : rows'[k].ver >= At(staged[t].gen)

Advances(t) ==
    /\ Kept(t)
    /\ \A k \in Keys : k[1] = t =>
         /\ rows'[k].ver >= rows[k].ver
         /\ rows'[k].live => rows[k].live \/ rows'[k].ver >= At(staged[t].gen)
    /\ \/ staged'[t].gen = staged[t].gen /\ staged'[t].required = staged[t].required
       \/ ~staged[t].required
       \/ StoredWhole(t)

AllAdvance == \A t \in Traces : Kept(t)' => Advances(t)

\* Such a step leaves the other runs what they knew.
LEMMA AlreadyStays ==
    ASSUME ImportInv, ImportShape', Grows, RowsShape, RowsShape', AllAdvance,
           NEW v \in Workers, ReplacedAlready(v),
           run'[v].cur = run[v].cur, run'[v].snap = run[v].snap, Replacing(v)' => Replacing(v)
    PROVE  ReplacedAlready(v)'
<1> DEFINE t == run[v].cur
           s == run[v].snap
           tree == s.hash.tree
<1> SUFFICES ASSUME Replacing(v)', Kept(t)'
             PROVE  /\ s.gen < staged'[t].gen \/ ~staged'[t].required =>
                         \A k \in TreeKeys(t, tree) : rows'[k].ver >= At(s.gen)
                    /\ ~staged'[t].required => \A k \in LiveKeys(t)' : rows'[k].ver >= At(s.gen)
  BY DEF ReplacedAlready
<1>1. /\ Replacing(v) /\ Materializing(v)
  BY DEF Replacing, Materializing, SnapshotSteps
<1>2. /\ run[v] \in Runs /\ staged \in [Traces -> Snapshots] /\ staged' \in [Traces -> Snapshots]
      /\ SnapshotKnown(v)
  BY DEF ImportInv, ImportShape, RunKnows
<1>3. /\ t \in Traces /\ s.hash # None /\ s.gen <= staged[t].gen
      /\ s.gen = staged[t].gen => s.hash = staged[t].hash
  BY <1>1, <1>2 DEF SnapshotKnown
<1>4. s.gen \in Nat /\ staged[t].gen \in Nat /\ staged'[t].gen \in Nat /\ tree \in Trees
  BY <1>2, <1>3 DEF Runs, Snapshots, Contents
<1>5. Advances(t)
  BY <1>3 DEF AllAdvance
<1>6. /\ s.gen < staged[t].gen \/ ~staged[t].required =>
           \A k \in TreeKeys(t, tree) : rows[k].ver >= At(s.gen)
      /\ ~staged[t].required => \A k \in LiveKeys(t) : rows[k].ver >= At(s.gen)
  BY <1>1, <1>5 DEF ReplacedAlready, Advances
<1>7. \A k \in TreeKeys(t, tree) : k \in Keys /\ k[1] = t
  BY <1>3, <1>4, KeysOfTrace
<1>8. \A k \in Keys : rows[k].ver \in Nat /\ rows'[k].ver \in Nat
  BY DEF RowsShape, TreeRows
<1>9. ASSUME NEW k \in LiveKeys(t)' PROVE k \in Keys /\ k[1] = t /\ rows'[k].live
  BY DEF LiveKeys
<1>10. staged[t].gen <= staged'[t].gen
  BY <1>3 DEF Grows
<1> HIDE DEF t, s, tree
<1>11. CASE StoredWhole(t) /\ ~(~staged[t].required)
  <2>1. CASE s.gen = staged[t].gen
    <3>1. tree = staged[t].hash.tree
      BY <1>3, <2>1 DEF tree
    <3> QED
      BY <1>11, <2>1, <3>1 DEF StoredWhole
  <2>2. CASE s.gen < staged[t].gen
    <3>1. \A k \in TreeKeys(t, tree) : rows'[k].ver >= At(s.gen)
      BY <2>2, <1>4, <1>5, <1>6, <1>7, <1>8 DEF Advances, At
    <3>2. \A k \in LiveKeys(t)' : rows'[k].ver >= At(s.gen)
      BY <1>11, <2>2, <1>4, <1>8, <1>9 DEF StoredWhole, At
    <3> QED
      BY <3>1, <3>2
  <2> QED
    BY <2>1, <2>2, <1>3, <1>4
<1>12. CASE ~staged[t].required
  <2>1. \A k \in TreeKeys(t, tree) : rows'[k].ver >= At(s.gen)
    BY <1>12, <1>4, <1>5, <1>6, <1>7, <1>8 DEF Advances, At
  <2>2. ASSUME NEW k \in LiveKeys(t)' PROVE rows'[k].ver >= At(s.gen)
    <3>1. CASE rows[k].live
      <4>1. k \in LiveKeys(t)
        BY <1>9, <3>1 DEF LiveKeys
      <4> QED
        BY <4>1, <1>12, <1>4, <1>5, <1>6, <1>8, <1>9 DEF Advances, At
    <3>2. CASE ~rows[k].live
      <4>1. rows'[k].ver >= At(staged[t].gen)
        BY <3>2, <1>5, <1>9 DEF Advances
      <4> QED
        BY <4>1, <1>3, <1>4, <1>8, <1>9 DEF At
    <3> QED
      BY <3>1, <3>2
  <2> QED
    BY <2>1, <2>2
<1>13. CASE /\ staged'[t].gen = staged[t].gen /\ staged'[t].required = staged[t].required
            /\ staged[t].required
  <2>1. s.gen < staged'[t].gen => \A k \in TreeKeys(t, tree) : rows'[k].ver >= At(s.gen)
    BY <1>13, <1>4, <1>5, <1>6, <1>7, <1>8 DEF Advances, At
  <2> QED
    BY <2>1, <1>13
<1> QED
  BY <1>5, <1>11, <1>12, <1>13 DEF Advances

LEMMA OthersReplace ==
    ASSUME ImportInv, ImportShape', Grows, RowsShape, RowsShape', AllAdvance,
           NEW v \in Workers, RunReplaces(v), run'[v] = run[v]
    PROVE  RunReplaces(v)'
<1>1. ReplacedAlready(v)'
  BY AlreadyStays DEF RunReplaces, Replacing
<1>2. RunTimes(v)'
  BY DEF RunReplaces, RunTimes, Materializing
<1>3. ReplacedSoFar(v)'
  <2> DEFINE t == run[v].cur
             s == run[v].snap
             tree == s.hash.tree
  <2> SUFFICES ASSUME Replacing(v), Kept(t)'
               PROVE  /\ \A table \in Removed(v) : \A k \in KeysIn(t, table) :
                           rows'[k].live => rows'[k].ver >= At(s.gen)
                      /\ \A table \in Inserted(v) :
                           \A k \in TreeKeys(t, tree) \cap KeysIn(t, table) :
                             rows'[k].ver >= At(s.gen)
    BY DEF ReplacedSoFar, Replacing, Removed, Inserted
  <2>1. Materializing(v) /\ SnapshotKnown(v) /\ run[v] \in Runs /\ staged \in [Traces -> Snapshots]
    BY DEF Replacing, Materializing, SnapshotSteps, ImportInv, ImportShape, RunKnows
  <2>2. t \in Traces /\ s.hash # None /\ s.gen <= staged[t].gen
    BY <2>1 DEF SnapshotKnown
  <2>3. s.gen \in Nat /\ staged[t].gen \in Nat
    BY <2>1, <2>2 DEF Runs, Snapshots
  <2>4. Advances(t)
    BY <2>2 DEF AllAdvance
  <2>5. /\ \A table \in Removed(v) : \A k \in KeysIn(t, table) :
              rows[k].live => rows[k].ver >= At(s.gen)
        /\ \A table \in Inserted(v) : \A k \in TreeKeys(t, tree) \cap KeysIn(t, table) :
              rows[k].ver >= At(s.gen)
    BY <2>4 DEF RunReplaces, ReplacedSoFar, Advances
  <2>6. \A table \in Removed(v) \cup Inserted(v) : table \in Tables
    BY DEF Removed, Inserted
  <2>7. \A k \in Keys : rows[k].ver \in Nat /\ rows'[k].ver \in Nat
    BY DEF RowsShape, TreeRows
  <2> HIDE DEF t, s, tree
  <2>8. \A table \in Tables : \A k \in KeysIn(t, table) : k \in Keys /\ k[1] = t
    BY <2>2, KeysOfTrace
  <2>9. ASSUME NEW table \in Removed(v), NEW k \in KeysIn(t, table), rows'[k].live
        PROVE  rows'[k].ver >= At(s.gen)
    <3>1. k \in Keys /\ k[1] = t
      BY <2>6, <2>8
    <3>2. rows'[k].ver >= rows[k].ver /\ (rows[k].live \/ rows'[k].ver >= At(staged[t].gen))
      BY <3>1, <2>4, <2>9 DEF Advances
    <3>3. rows[k].live => rows[k].ver >= At(s.gen)
      BY <2>5
    <3> QED
      BY <3>1, <3>2, <3>3, <2>2, <2>3, <2>7 DEF At
  <2>10. ASSUME NEW table \in Inserted(v), NEW k \in TreeKeys(t, tree) \cap KeysIn(t, table)
         PROVE  rows'[k].ver >= At(s.gen)
    <3>1. k \in Keys /\ k[1] = t
      BY <2>6, <2>8
    <3>2. rows'[k].ver >= rows[k].ver
      BY <3>1, <2>4 DEF Advances
    <3>3. rows[k].ver >= At(s.gen)
      BY <2>5
    <3> QED
      BY <3>1, <3>2, <3>3, <2>3, <2>7 DEF At
  <2> QED
    BY <2>9, <2>10
<1> QED
  BY <1>1, <1>2, <1>3 DEF RunReplaces

\* A trace that a step leaves alone.
Rests(t) ==
    /\ Kept(t)' => Kept(t) /\ SameRows(t)
    /\ staged'[t].hash = staged[t].hash /\ staged'[t].gen = staged[t].gen
    /\ staged'[t].pending = staged[t].pending /\ staged'[t].required = staged[t].required

LEMMA RestsKnown ==
    ASSUME RowsShape, NEW t \in Traces, Rests(t), StoredKnown(t)
    PROVE  StoredKnown(t)' /\ (Kept(t)' => Advances(t))
<1>1. SameRows(t) => LiveKeys(t)' = LiveKeys(t)
  BY DEF SameRows, LiveKeys
<1>2. ASSUME Kept(t)' PROVE \A k \in Keys : k[1] = t => RowKnown(t, k)'
  BY <1>2 DEF Rests, SameRows, StoredKnown, RowKnown
<1>3. StoredKnown(t)'
  BY <1>1, <1>2 DEF Rests, StoredKnown, Exact
<1>4. ASSUME Kept(t)' PROVE Advances(t)
  <2>1. \A k \in Keys : rows[k].ver >= rows[k].ver
    BY DEF RowsShape, TreeRows
  <2> QED
    BY <1>4, <2>1 DEF Rests, SameRows, Advances
<1> QED
  BY <1>3, <1>4

\* A run that is at no step of a snapshot knows nothing of the rows.
LEMMA IdleReplaces ==
    ASSUME NEW w \in Workers, run'[w].pc \notin SnapshotSteps \cup {"stage"}
    PROVE  RunReplaces(w)'
BY DEF RunReplaces, ReplacedSoFar, ReplacedAlready, RunTimes, Replacing, Materializing,
       SnapshotSteps

LEMMA ExactMoves ==
    ASSUME ImportInv, ExactInv, NEW w \in Workers, Moved(w), RowsShape', AllAdvance,
           RunReplaces(w)', \A t \in Traces : StoredKnown(t)'
    PROVE  ExactInv'
<1>1. ASSUME NEW v \in Workers PROVE RunReplaces(v)'
  BY OthersReplace DEF Moved, ExactInv
<1> QED
  BY <1>1 DEF ExactInv

LEMMA QuietMoves ==
    ASSUME ImportInv, ExactInv, NEW w \in Workers, Moved(w), RowsShape',
           \A t \in Traces : Rests(t), RunReplaces(w)'
    PROVE  ExactInv'
<1>1. \A t \in Traces : StoredKnown(t)' /\ (Kept(t)' => Advances(t))
  BY RestsKnown DEF ExactInv
<1> QED
  BY <1>1, ExactMoves DEF AllAdvance

\* Steps of no run.
LEMMA NobodyMoves ==
    ASSUME ImportInv, ExactInv, ImportShape', cutoff <= cutoff', UNCHANGED <<run, staged, told>>,
           RowsShape', \A t \in Traces : Kept(t)' => SameRows(t)
    PROVE  ExactInv'
<1>1. ASSUME NEW t \in Traces PROVE Rests(t)
  BY KeptWasKept DEF Rests, ImportInv, ImportShape
<1>2. \A t \in Traces : StoredKnown(t)' /\ (Kept(t)' => Advances(t))
  BY <1>1, RestsKnown DEF ExactInv
<1>3. Grows
  BY SameSnapshots
<1>4. ASSUME NEW v \in Workers PROVE RunReplaces(v)'
  BY <1>2, <1>3, OthersReplace DEF ExactInv, AllAdvance
<1> QED
  BY <1>2, <1>4 DEF ExactInv
-----------------------------------------------------------------------------
(* The steps of a run.                                                      *)

\* Those that write no row, and stage nothing.
LEMMA StillRests ==
    ASSUME ImportInv, ExactInv, NEW w \in Workers, Moved(w),
           UNCHANGED <<rows, clock, cutoff, marked>>,
           \A t \in Traces : /\ staged'[t].hash = staged[t].hash
                             /\ staged'[t].gen = staged[t].gen
                             /\ staged'[t].pending = staged[t].pending
                             /\ staged'[t].required = staged[t].required,
           RunReplaces(w)'
    PROVE  ExactInv'
<1>1. RowsShape'
  BY DEF ExactInv, RowsShape, Expired
<1>2. \A t \in Traces : Rests(t)
  BY DEF Rests, SameRows, Kept, Expired
<1> QED
  BY <1>1, <1>2, QuietMoves

LEMMA ThrowExact ==
    ASSUME ImportInv, ExactInv, NEW w \in Workers, Moved(w), Throw(w)
    PROVE  ExactInv'
<1>1. UNCHANGED <<rows, clock, cutoff, marked, staged>> /\ run' = [run EXCEPT ![w] = Off]
  BY DEF Throw
<1>2. run'[w] = Off
  BY <1>1 DEF ImportInv, ImportShape
<1>3. RunReplaces(w)'
  BY <1>2, OffIsRun, IdleReplaces DEF SnapshotSteps
<1> QED
  BY <1>1, <1>3, StillRests

LEMMA ClaimExact ==
    ASSUME ImportInv, ExactInv, NEW w \in Workers, Claim(w)
    PROVE  ExactInv'
<1>1. UNCHANGED <<rows, clock, cutoff, marked, staged>>
  BY DEF Claim, storeVars
<1>2. run'[w].pc = "claim"
  <2>1. PICK phase \in {"import", "recovery"} :
           run' = [run EXCEPT ![w] = [Off EXCEPT !.pc = "claim", !.phase = phase]]
    BY DEF Claim
  <2>2. [Off EXCEPT !.pc = "claim", !.phase = phase].pc = "claim"
    BY DEF Off
  <2> QED
    BY <2>1, <2>2 DEF ImportInv, ImportShape
<1>3. RunReplaces(w)'
  BY <1>2, IdleReplaces DEF SnapshotSteps
<1> QED
  BY <1>1, <1>3, StillRests, ClaimMoves

LEMMA ClaimPendingExact ==
    ASSUME ImportInv, ExactInv, NEW w \in Workers, ClaimPending(w)
    PROVE  ExactInv'
<1>1. CASE Throw(w)
  BY <1>1, ThrowExact, ClaimPendingMoves
<1>2. CASE ~Throw(w)
  <2> DEFINE queue == {t \in Traces : staged[t].pending}
  <2>1. /\ UNCHANGED <<rows, clock, cutoff, marked>>
        /\ staged' = [t \in Traces |->
              IF t \in queue THEN [staged[t] EXCEPT !.token = w] ELSE staged[t]]
        /\ run' = [run EXCEPT ![w].pc = "next", ![w].queue = queue]
    BY <1>2 DEF ClaimPending
  <2>2. run \in [Workers -> Runs] /\ staged \in [Traces -> Snapshots]
    BY DEF ImportInv, ImportShape
  <2>3. run'[w].pc = "next"
    BY <2>1, <2>2 DEF Runs
  <2>4. \A t \in Traces : /\ staged'[t].hash = staged[t].hash
                          /\ staged'[t].gen = staged[t].gen
                          /\ staged'[t].pending = staged[t].pending
                          /\ staged'[t].required = staged[t].required
    BY <2>1, <2>2 DEF Snapshots
  <2>5. RunReplaces(w)'
    BY <2>3, IdleReplaces DEF SnapshotSteps
  <2> QED
    BY <2>1, <2>4, <2>5, StillRests, ClaimPendingMoves
<1> QED
  BY <1>1, <1>2

LEMMA BeginSnapshotExact ==
    ASSUME ImportInv, ExactInv, NEW w \in Workers, BeginSnapshot(w)
    PROVE  ExactInv'
<1>1. CASE Throw(w)
  BY <1>1, ThrowExact, BeginSnapshotMoves
<1>2. CASE ~Throw(w)
  <2> DEFINE t == Min(run[w].queue)
  <2>1. /\ UNCHANGED <<rows, clock, cutoff, marked, staged>>
        /\ run' = [run EXCEPT ![w].pc = FirstStep(t, staged[t]), ![w].cur = t,
                              ![w].queue = @ \ {t}, ![w].snap = staged[t], ![w].todo = Tables]
        /\ run[w].queue # {}
    BY <1>2 DEF BeginSnapshot
  <2>2. run \in [Workers -> Runs] /\ staged \in [Traces -> Snapshots]
    BY DEF ImportInv, ImportShape
  <2>3. t \in run[w].queue /\ t \in Traces
    BY <2>1, <2>2, LeastOf, StoreAssumption DEF StoreAssumption, Runs
  <2> DEFINE pc == FirstStep(t, staged[t])
  <2>4. /\ pc \in {"expire", "tombstone", "scores"}
        /\ pc = "tombstone" => staged[t].required
        /\ pc = "scores" => ~staged[t].required
    BY DEF FirstStep
  <2>5. /\ run'[w].pc = pc /\ run'[w].cur = t /\ run'[w].snap = staged[t]
        /\ run'[w].todo = Tables
    BY <2>1, <2>2 DEF Runs
  <2>6. staged[t].hash # None /\ staged[t].gen \in Nat /\ staged[t].gen > 0
    BY <2>2, <2>3 DEF ImportInv, RunKnows, ExactInv, StoredKnown, Snapshots
  <2> HIDE DEF t, pc
  <2>7. RunTimes(w)'
    BY <2>4, <2>5, <2>6 DEF RunTimes, Materializing
  <2>8. ~(staged[t].gen < staged[t].gen)
    BY <2>6
  <2>9. ReplacedSoFar(w)' /\ ReplacedAlready(w)'
    <3>1. Replacing(w)' => staged[t].required /\ Removed(w)' = {} /\ Inserted(w)' = {}
      BY <2>4, <2>5 DEF Replacing, Removed, Inserted
    <3>2. staged' = staged
      BY <2>1
    <3> QED
      BY <2>5, <2>8, <3>1, <3>2 DEF ReplacedSoFar, ReplacedAlready
  <2> QED
    BY <2>1, <2>7, <2>9, StillRests, BeginSnapshotMoves DEF RunReplaces
<1> QED
  BY <1>1, <1>2

LEMMA FetchPageExact ==
    ASSUME ImportInv, ExactInv, NEW w \in Workers, FetchPage(w)
    PROVE  ExactInv'
<1>1. CASE Throw(w)
  BY <1>1, ThrowExact, FetchPageMoves
<1>2. CASE ~Throw(w)
  <2>1. /\ UNCHANGED <<rows, clock, cutoff, marked, staged>>
        /\ run' = [run EXCEPT ![w].pc = "stage", ![w].page = provider, ![w].cand = clock]
    BY <1>2 DEF FetchPage, storeVars
  <2>2. run'[w].pc = "stage" /\ run'[w].cand = clock
    BY <2>1 DEF ImportInv, ImportShape, Runs
  <2>3. clock > 0
    BY DEF ExactInv, RowsShape
  <2>4. RunReplaces(w)'
    BY <2>2, <2>3 DEF RunReplaces, ReplacedSoFar, ReplacedAlready, RunTimes, Replacing,
                      Materializing, SnapshotSteps
  <2> QED
    BY <2>1, <2>4, StillRests, FetchPageMoves
<1> QED
  BY <1>1, <1>2

LEMMA FinishRunExact ==
    ASSUME ImportInv, ExactInv, NEW w \in Workers, FinishRun(w)
    PROVE  ExactInv'
<1>1. CASE Throw(w)
  BY <1>1, ThrowExact, FinishRunMoves
<1>2. CASE ~Throw(w)
  <2>1. UNCHANGED <<rows, clock, cutoff, marked, staged>> /\ run' = [run EXCEPT ![w] = Off]
    BY <1>2 DEF FinishRun, storeVars
  <2>2. run'[w] = Off
    BY <2>1 DEF ImportInv, ImportShape
  <2>3. RunReplaces(w)'
    BY <2>2, OffIsRun, IdleReplaces DEF SnapshotSteps
  <2> QED
    BY <2>1, <2>3, StillRests, FinishRunMoves
<1> QED
  BY <1>1, <1>2

LEMMA PublishScoresExact ==
    ASSUME ImportInv, ExactInv, NEW w \in Workers, PublishScores(w)
    PROVE  ExactInv'
<1>1. /\ UNCHANGED <<rows, clock, cutoff, marked, staged>> /\ run[w].pc = "scores"
      /\ run' = [run EXCEPT ![w].pc = "publish"]
  BY DEF PublishScores, storeVars
<1>2. run'[w].pc = "publish" /\ run'[w].snap = run[w].snap
  BY <1>1 DEF ImportInv, ImportShape, Runs
<1>3. ~run[w].snap.required /\ run[w].snap.gen > 0
  BY <1>1 DEF ExactInv, RunReplaces, RunTimes, Materializing, SnapshotSteps
<1>4. RunReplaces(w)'
  BY <1>2, <1>3 DEF RunReplaces, ReplacedSoFar, ReplacedAlready, RunTimes, Replacing,
                    Materializing
<1> QED
  BY <1>1, <1>4, StillRests, PublishScoresMoves

LEMMA DiscardExact ==
    ASSUME ImportInv, ExactInv, NEW w \in Workers, Discard(w)
    PROVE  ExactInv'
<1>1. CASE Throw(w)
  BY <1>1, ThrowExact, DiscardMoves
<1>2. CASE ~Throw(w)
  <2>1. /\ UNCHANGED <<rows, clock, cutoff, marked>> /\ staged' = Cleared(w)
        /\ run' = [run EXCEPT ![w] = Between(w)] /\ run[w].pc = "discard"
    BY <1>2 DEF Discard
  <2>2. PICK t \in Traces : run[w].cur = t /\ Expired(t)
    BY <2>1 DEF ImportInv, RunKnows, SnapshotKnown, Materializing, SnapshotSteps
  <2>3. staged \in [Traces -> Snapshots] /\ run \in [Workers -> Runs]
    BY DEF ImportInv, ImportShape
  <2>4. /\ ~staged'[t].required /\ staged'[t].hash = staged[t].hash
        /\ staged'[t].gen = staged[t].gen
        /\ \A u \in Traces \ {t} : staged'[u] = staged[u]
    BY <2>1, <2>2, <2>3 DEF Cleared, Snapshots
  <2>5. run'[w].pc = "next"
    BY <2>1, <2>3 DEF Between, Off
  <2>6. RunReplaces(w)'
    BY <2>5, IdleReplaces DEF SnapshotSteps
  <2>7. RowsShape'
    BY <2>1 DEF ExactInv, RowsShape, Expired
  <2>8. ASSUME NEW u \in Traces PROVE StoredKnown(u)' /\ (Kept(u)' => Advances(u))
    <3>1. CASE u = t
      <4>1. ~Kept(t)'
        BY <2>1, <2>2 DEF Kept, Expired
      <4> QED
        BY <3>1, <4>1, <2>4 DEF ExactInv, StoredKnown
    <3>2. CASE u # t
      <4>1. Rests(u)
        BY <3>2, <2>1, <2>4 DEF Rests, SameRows, Kept, Expired
      <4> QED
        BY <4>1, RestsKnown DEF ExactInv
    <3> QED
      BY <3>1, <3>2
  <2> QED
    BY <2>6, <2>7, <2>8, ExactMoves, DiscardMoves DEF AllAdvance
<1> QED
  BY <1>1, <1>2

LEMMA TombstoneExpiredExact ==
    ASSUME ImportInv, ExactInv, NEW w \in Workers, NEW table \in Tables,
           TombstoneExpired(w, table)
    PROVE  ExactInv'
<1> DEFINE t == run[w].cur
           s == run[w].snap
           K == {k \in KeysIn(t, table) : rows[k].live}
<1>1. /\ UNCHANGED <<clock, cutoff, staged>> /\ marked' = marked \cup {t}
      /\ rows' = Put(K, JustAfter(s.gen), None, FALSE) /\ run[w].pc = "expire"
      /\ run' = [run EXCEPT ![w].todo = @ \ {table},
                            ![w].pc = IF @ = "expire" /\ run[w].todo = {table}
                                        THEN "discard" ELSE @]
  BY DEF TombstoneExpired, Tombstone
<1>2. t \in Traces /\ Expired(t) /\ run[w] \in Runs /\ run \in [Workers -> Runs]
      /\ staged \in [Traces -> Snapshots]
  BY <1>1 DEF ImportInv, ImportShape, RunKnows, SnapshotKnown, Materializing, SnapshotSteps
<1>3. s.gen \in Nat
  BY <1>2 DEF Runs, Snapshots
<1>4. run'[w].pc \in {"expire", "discard"} /\ run'[w].snap = s
  BY <1>1, <1>2 DEF Runs
<1>5. RunReplaces(w)'
  <2>1. s.gen > 0
    BY <1>1 DEF ExactInv, RunReplaces, RunTimes, Materializing, SnapshotSteps
  <2> QED
    BY <1>4, <2>1 DEF RunReplaces, ReplacedSoFar, ReplacedAlready, RunTimes, Replacing
<1>6. K \subseteq {k \in Keys : k[1] = t}
  BY <1>2, KeysOfTrace
<1> HIDE DEF K, t, s
<1>7. RowsShape'
  <2>1. [ver |-> JustAfter(s.gen), by |-> None, live |-> FALSE] \in TreeRows
    BY <1>3 DEF JustAfter, TreeRows
  <2>2. rows' \in [Keys -> TreeRows]
    BY <1>1, <2>1 DEF Put, ExactInv, RowsShape
  <2> QED
    BY <1>1, <1>2, <2>2 DEF ExactInv, RowsShape, Expired
<1>8. ASSUME NEW u \in Traces PROVE Rests(u)
  <2>1. Kept(u)' => Kept(u) /\ u # t
    BY <1>1, <1>2 DEF Kept, Expired
  <2>2. u # t => SameRows(u)
    BY <1>1, <1>6 DEF Put, SameRows
  <2> QED
    BY <1>1, <2>1, <2>2 DEF Rests
<1> QED
  BY <1>5, <1>7, <1>8, QuietMoves, RemovingMoves

\* What a run knows of the snapshot it is storing.
LEMMA Storing ==
    ASSUME ImportInv, ExactInv, NEW w \in Workers, Replacing(w)
    PROVE  LET t == run[w].cur
               s == run[w].snap
           IN  /\ t \in Traces /\ run[w] \in Runs /\ s.required /\ s.hash.tree \in Trees
               /\ s.gen \in Nat /\ s.gen > 0 /\ staged[t].gen \in Nat /\ s.gen <= staged[t].gen
               /\ s.gen = staged[t].gen => s.hash = staged[t].hash
               /\ staged[t].hash # None
<1> DEFINE t == run[w].cur
           s == run[w].snap
<1>1. Materializing(w)
  BY DEF Replacing, Materializing, SnapshotSteps
<1>2. /\ run[w] \in Runs /\ staged \in [Traces -> Snapshots] /\ s.gen > 0
      /\ t \in Traces /\ s.hash # None /\ s.gen <= staged[t].gen
      /\ s.gen = staged[t].gen => s.hash = staged[t].hash
  BY <1>1 DEF ImportInv, ImportShape, RunKnows, SnapshotKnown, ExactInv, RunReplaces, RunTimes
<1>3. s.gen \in Nat /\ staged[t].gen \in Nat /\ s.hash.tree \in Trees
  BY <1>2 DEF Runs, Snapshots, Contents
<1>4. staged[t].hash # None
  <2>1. staged[t].hash = None => staged[t].gen = 0
    BY <1>2 DEF ImportInv, Announced
  <2> QED
    BY <2>1, <1>2, <1>3
<1> QED
  BY <1>2, <1>3, <1>4 DEF Replacing

LEMMA TombstoneTreeExact ==
    ASSUME ImportInv, ExactInv, NEW w \in Workers, NEW table \in Tables, TombstoneTree(w, table)
    PROVE  ExactInv'
<1>1. Replacing(w) /\ Materializing(w)
  <2>1. Materializing(w) /\ SnapshotKnown(w)
    BY DEF TombstoneTree, ImportInv, RunKnows, Materializing, SnapshotSteps
  <2> QED
    BY <2>1 DEF TombstoneTree, Replacing, SnapshotKnown
<1>2. PICK t \in Traces, s \in Snapshots : run[w].cur = t /\ run[w].snap = s
  BY <1>1, Storing DEF Runs
<1> DEFINE tree == s.hash.tree
           K == {k \in KeysIn(t, table) : rows[k].live}
<1>3. /\ UNCHANGED <<clock, cutoff, staged, marked>>
      /\ rows' = Put(K, JustBefore(s.gen), None, FALSE)
      /\ run[w].pc = "tombstone" /\ table \in run[w].todo
      /\ run' = [run EXCEPT ![w].todo = IF @ = {table} THEN Tables ELSE @ \ {table},
                            ![w].pc = IF run[w].todo = {table} THEN "insert" ELSE @]
  BY <1>2 DEF TombstoneTree, Tombstone
<1>4. /\ t \in Traces /\ run[w] \in Runs /\ s.required /\ tree \in Trees
      /\ s.gen \in Nat /\ s.gen > 0 /\ staged[t].gen \in Nat /\ s.gen <= staged[t].gen
  BY <1>1, <1>2, Storing
<1>5. /\ run'[w].cur = t /\ run'[w].snap = s
      /\ \/ run'[w].pc = "tombstone" /\ run'[w].todo = run[w].todo \ {table}
         \/ run'[w].pc = "insert" /\ run'[w].todo = Tables /\ run[w].todo = {table}
  BY <1>3, <1>2 DEF ImportInv, ImportShape, Runs
<1>6. /\ \A u \in Tables : \A k \in KeysIn(t, u) : k \in Keys /\ k[1] = t
      /\ \A k \in TreeKeys(t, tree) : k \in Keys /\ k[1] = t
  BY <1>4, KeysOfTrace
<1> HIDE DEF tree
<1>7. rows \in [Keys -> TreeRows]
  BY DEF ExactInv, RowsShape
<1>8. ASSUME NEW k \in Keys
      PROVE  /\ rows[k].ver \in Nat
             /\ IF k \in K /\ JustBefore(s.gen) >= rows[k].ver
                  THEN rows'[k] = [ver |-> JustBefore(s.gen), by |-> None, live |-> FALSE]
                  ELSE rows'[k] = rows[k]
  BY <1>3, <1>7 DEF Put, TreeRows
<1>9. RowsShape'
  <2>1. [ver |-> JustBefore(s.gen), by |-> None, live |-> FALSE] \in TreeRows
    BY <1>4 DEF JustBefore, TreeRows
  <2>2. rows' \in [Keys -> TreeRows]
    BY <1>3, <1>7, <2>1 DEF Put
  <2> QED
    BY <1>3, <2>2 DEF ExactInv, RowsShape, Expired
<1>10. ASSUME NEW k \in Keys
      PROVE  /\ rows'[k].ver >= rows[k].ver /\ rows'[k].ver \in Nat
             /\ rows'[k].live => rows'[k] = rows[k]
             /\ rows'[k].live /\ k \in K => rows[k].ver >= At(s.gen)
             /\ k[1] # t => rows'[k] = rows[k]
             /\ rows[k].live /\ rows[k].ver >= At(s.gen) => rows'[k] = rows[k]
             /\ rows'[k] # rows[k] => rows'[k].ver = 2 * s.gen - 1 /\ ~rows'[k].live
  <2>1. k[1] # t => k \notin K
    BY <1>6
  <2>2. CASE k \in K /\ JustBefore(s.gen) >= rows[k].ver
    <3>1. /\ rows'[k].ver = 2 * s.gen - 1 /\ rows'[k].live = FALSE
          /\ 2 * s.gen - 1 >= rows[k].ver
      BY <1>8, <2>2 DEF JustBefore
    <3> QED
      BY <3>1, <2>1, <2>2, <1>4, <1>8 DEF At
  <2>3. CASE ~(k \in K /\ JustBefore(s.gen) >= rows[k].ver)
    <3>1. rows'[k] = rows[k] /\ (k \in K => ~(2 * s.gen - 1 >= rows[k].ver))
      BY <1>8, <2>3 DEF JustBefore
    <3> QED
      BY <3>1, <1>4, <1>8 DEF At
  <2> QED
    BY <2>2, <2>3
<1>11. AllAdvance
  BY <1>3, <1>10 DEF AllAdvance, Advances, Kept, Expired
<1>12. RunReplaces(w)'
  <2>1. ReplacedAlready(w)'
    <3>1. Replacing(w)' => Replacing(w)
      BY <1>1
    <3> QED
      BY <1>5, <1>9, <1>11, <1>2, <3>1, AlreadyStays, RemovingMoves
         DEF Moved, ExactInv, RunReplaces
  <2>2. RunTimes(w)'
    BY <1>4, <1>5 DEF RunTimes
  <2>3. ReplacedSoFar(w)'
    <3> SUFFICES ASSUME Kept(t)'
                 PROVE  /\ \A u \in Removed(w)' : \A k \in KeysIn(t, u) :
                             rows'[k].live => rows'[k].ver >= At(s.gen)
                        /\ Inserted(w)' = {}
      BY <1>5 DEF ReplacedSoFar
    <3>1. Inserted(w)' = {}
      BY <1>5 DEF Inserted
    <3>2. Removed(w)' = Removed(w) \cup {table} /\ Removed(w)' \subseteq Tables
      BY <1>3, <1>5 DEF Removed
    <3>3. \A u \in Removed(w) : \A k \in KeysIn(t, u) : rows[k].live => rows[k].ver >= At(s.gen)
      <4>1. Kept(t)
        BY <1>3 DEF Kept, Expired
      <4> QED
        BY <4>1, <1>1, <1>2 DEF ExactInv, RunReplaces, ReplacedSoFar
    <3>4. ASSUME NEW u \in Removed(w) \cup {table}, NEW k \in KeysIn(t, u), rows'[k].live
          PROVE  rows'[k].ver >= At(s.gen)
      <4>1. k \in Keys /\ rows'[k] = rows[k]
        BY <3>2, <3>4, <1>6, <1>10
      <4>2. CASE u \in Removed(w)
        BY <4>1, <4>2, <3>3, <3>4
      <4>3. CASE u = table
        <5>1. k \in K
          BY <4>1, <4>3, <3>4
        <5> QED
          BY <4>1, <5>1, <3>4, <1>10
      <4> QED
        BY <4>2, <4>3
    <3> QED
      BY <3>1, <3>2, <3>4
  <2> QED
    BY <2>1, <2>2, <2>3 DEF RunReplaces
<1>13. ASSUME NEW u \in Traces PROVE StoredKnown(u)'
  <2>1. CASE u # t
    <3>1. Rests(u)
      BY <1>3, <1>10, <2>1 DEF Rests, SameRows, Kept, Expired
    <3> QED
      BY <3>1, RestsKnown DEF ExactInv
  <2>2. CASE u = t
    <3>1. StoredKnown(t) /\ staged' = staged /\ (Kept(t)' => Kept(t))
      BY <1>3, <1>4 DEF ExactInv, Kept, Expired
    <3>2. ASSUME Kept(t)', NEW k \in Keys, k[1] = t PROVE RowKnown(t, k)'
      <4>1. RowKnown(t, k)
        BY <3>1, <3>2 DEF StoredKnown
      <4>2. CASE rows'[k] = rows[k]
        BY <3>1, <4>1, <4>2 DEF RowKnown
      <4>3. CASE rows'[k] # rows[k]
        <5>1. rows'[k].ver = 2 * s.gen - 1 /\ ~rows'[k].live
          BY <4>3, <1>10
        <5> QED
          BY <5>1, <3>1, <1>4 DEF RowKnown, At
      <4> QED
        BY <4>2, <4>3
    <3>3. ASSUME Kept(t)', staged[t].hash # None, ~staged[t].required PROVE Exact(t)'
      <4>1. Exact(t)
        BY <3>1, <3>3 DEF StoredKnown
      <4>2. \A k \in LiveKeys(t) : rows[k].ver >= At(s.gen)
        BY <3>1, <3>3, <1>1, <1>2 DEF ExactInv, RunReplaces, ReplacedAlready
      <4>3. LiveKeys(t)' = LiveKeys(t)
        BY <4>2, <1>10 DEF LiveKeys
      <4> QED
        BY <3>1, <4>1, <4>3 DEF Exact
    <3> QED
      BY <2>2, <3>1, <3>2, <3>3 DEF StoredKnown
  <2> QED
    BY <2>1, <2>2
<1> QED
  BY <1>9, <1>11, <1>12, <1>13, RemovingMoves, ExactMoves

LEMMA InsertTreeExact ==
    ASSUME ImportInv, ExactInv, NEW w \in Workers, NEW table \in Tables, InsertTree(w, table)
    PROVE  ExactInv'
<1>1. Replacing(w) /\ Materializing(w)
  <2>1. Materializing(w) /\ SnapshotKnown(w)
    BY DEF InsertTree, ImportInv, RunKnows, Materializing, SnapshotSteps
  <2> QED
    BY <2>1 DEF InsertTree, Replacing, SnapshotKnown
<1>2. PICK t \in Traces, s \in Snapshots : run[w].cur = t /\ run[w].snap = s
  BY <1>1, Storing DEF Runs
<1> DEFINE tree == s.hash.tree
           K == TreeKeys(t, tree) \cap KeysIn(t, table)
<1>3. /\ UNCHANGED <<clock, cutoff, staged, marked>>
      /\ rows' = Put(K, At(s.gen), tree, TRUE)
      /\ run[w].pc = "insert" /\ table \in run[w].todo
      /\ run' = [run EXCEPT ![w].todo = IF @ = {table} THEN Tables ELSE @ \ {table},
                            ![w].pc = CASE run[w].todo # {table} -> @
                                       [] run[w].todo = {table} /\ Expired(run[w].cur) -> "expire"
                                       [] OTHER -> "publish"]
  BY <1>2 DEF InsertTree
<1>4. /\ run[w] \in Runs /\ s.required /\ tree \in Trees
      /\ s.gen \in Nat /\ s.gen > 0 /\ staged[t].gen \in Nat /\ s.gen <= staged[t].gen
      /\ s.gen = staged[t].gen => tree = staged[t].hash.tree
  BY <1>1, <1>2, Storing
<1>5. /\ run'[w].cur = t /\ run'[w].snap = s
      /\ \/ run'[w].pc = "insert" /\ run'[w].todo = run[w].todo \ {table}
         \/ run'[w].pc = "expire"
         \/ run'[w].pc = "publish" /\ run[w].todo = {table}
  BY <1>2, <1>3 DEF ImportInv, ImportShape, Runs
<1>6. /\ \A u \in Tables : \A k \in KeysIn(t, u) : k \in Keys /\ k[1] = t
      /\ \A k \in TreeKeys(t, tree) : k \in Keys /\ k[1] = t
  BY <1>4, KeysOfTrace
<1> HIDE DEF tree
<1>7. rows \in [Keys -> TreeRows]
  BY DEF ExactInv, RowsShape
<1>8. ASSUME NEW k \in Keys
      PROVE  /\ rows[k].ver \in Nat
             /\ IF k \in K /\ At(s.gen) >= rows[k].ver
                  THEN rows'[k] = [ver |-> At(s.gen), by |-> tree, live |-> TRUE]
                  ELSE rows'[k] = rows[k]
  BY <1>3, <1>7 DEF Put, TreeRows
<1>9. RowsShape'
  <2>1. [ver |-> At(s.gen), by |-> tree, live |-> TRUE] \in TreeRows
    BY <1>4 DEF At, TreeRows
  <2>2. rows' \in [Keys -> TreeRows]
    BY <1>3, <1>7, <2>1 DEF Put
  <2> QED
    BY <1>3, <2>2 DEF ExactInv, RowsShape, Expired
<1>10. ASSUME NEW k \in Keys
       PROVE  /\ rows'[k].ver >= rows[k].ver /\ rows'[k].ver \in Nat
              /\ k[1] # t => rows'[k] = rows[k]
              /\ rows[k].live => rows'[k].live
              /\ k \in K => rows'[k].ver >= At(s.gen)
              /\ rows'[k] = rows[k] \/ (k \in K /\ rows'[k].ver = At(s.gen) /\ rows'[k].live)
  <2>1. k[1] # t => k \notin K
    BY <1>6
  <2> HIDE DEF K
  <2>2. CASE k \in K /\ At(s.gen) >= rows[k].ver
    <3>1. rows'[k].ver = 2 * s.gen /\ rows'[k].live = TRUE /\ 2 * s.gen >= rows[k].ver
      BY <1>8, <2>2 DEF At
    <3> QED
      BY <3>1, <2>1, <2>2, <1>4, <1>8 DEF At
  <2>3. CASE ~(k \in K /\ At(s.gen) >= rows[k].ver)
    <3>1. rows'[k] = rows[k] /\ (k \in K => ~(2 * s.gen >= rows[k].ver))
      BY <1>8, <2>3 DEF At
    <3> QED
      BY <3>1, <1>4, <1>8 DEF At
  <2> QED
    BY <2>2, <2>3
\* Once the snapshot has been published, or replaced, nothing comes to life.
<1>11. ASSUME Kept(t), s.gen < staged[t].gen \/ ~staged[t].required, NEW k \in Keys, rows'[k].live
       PROVE  rows[k].live
  <2>1. CASE rows'[k] = rows[k]
    BY <2>1, <1>11
  <2>2. CASE k \in K /\ rows'[k].ver = At(s.gen)
    <3>1. k \in TreeKeys(t, tree) /\ k[1] = t
      BY <2>2, <1>6
    <3>2. rows[k].ver >= At(s.gen)
      BY <3>1, <1>1, <1>2, <1>11 DEF ExactInv, RunReplaces, ReplacedAlready, tree
    <3>3. rows[k].ver = At(s.gen)
      BY <3>2, <2>2, <1>4, <1>8, <1>10 DEF At
    <3>4. RowKnown(t, k)
      BY <3>1, <1>11 DEF ExactInv, StoredKnown
    <3> QED
      BY <3>3, <3>4, <1>4 DEF RowKnown
  <2> QED
    BY <2>1, <2>2, <1>10
<1>12. AllAdvance
  <2> SUFFICES ASSUME NEW u \in Traces, Kept(u)' PROVE Advances(u)
    BY DEF AllAdvance
  <2>1. Kept(u) /\ staged' = staged
    BY <1>3 DEF Kept, Expired
  <2>2. ASSUME NEW k \in Keys, k[1] = u, rows'[k].live
        PROVE  rows[k].live \/ rows'[k].ver >= At(staged[u].gen)
    <3>1. CASE u # t
      BY <3>1, <2>2, <1>10
    <3>2. CASE u = t /\ s.gen < staged[t].gen
      BY <3>2, <2>1, <2>2, <1>11
    <3>3. CASE u = t /\ s.gen = staged[t].gen
      <4>1. rows'[k] = rows[k] \/ rows'[k].ver = At(s.gen)
        BY <1>10
      <4> QED
        BY <4>1, <3>3, <2>2, <1>4 DEF At
    <3> QED
      BY <3>1, <3>2, <3>3, <1>4
  <2> QED
    BY <2>1, <2>2, <1>10 DEF Advances
<1>13. RunReplaces(w)'
  <2>1. ReplacedAlready(w)'
    <3>1. Replacing(w)' => Replacing(w)
      BY <1>1
    <3> QED
      BY <1>2, <1>5, <1>9, <1>12, <3>1, AlreadyStays, RemovingMoves
         DEF Moved, ExactInv, RunReplaces
  <2>2. RunTimes(w)'
    BY <1>4, <1>5 DEF RunTimes
  <2>3. ReplacedSoFar(w)'
    <3> SUFFICES ASSUME Kept(t)', Replacing(w)'
                 PROVE  /\ \A u \in Removed(w)' : \A k \in KeysIn(t, u) :
                             rows'[k].live => rows'[k].ver >= At(s.gen)
                        /\ \A u \in Inserted(w)' : \A k \in TreeKeys(t, tree) \cap KeysIn(t, u) :
                             rows'[k].ver >= At(s.gen)
      BY <1>5 DEF ReplacedSoFar, tree
    <3>1. /\ Removed(w) = Tables /\ Removed(w)' = Tables
          /\ Inserted(w)' = Inserted(w) \cup {table} /\ Inserted(w)' \subseteq Tables
      <4>1. Removed(w) = Tables /\ Removed(w)' = Tables
        BY <1>3, <1>5 DEF Removed, Replacing
      <4>2. run[w].todo \subseteq Tables
        BY <1>4 DEF Runs
      <4>3. Inserted(w) = Tables \ run[w].todo
        BY <1>3 DEF Inserted
      <4>4. CASE run'[w].pc = "insert" /\ run'[w].todo = run[w].todo \ {table}
        BY <4>1, <4>2, <4>3, <4>4 DEF Inserted
      <4>5. CASE run'[w].pc = "publish" /\ run[w].todo = {table}
        BY <4>1, <4>2, <4>3, <4>5 DEF Inserted
      <4> QED
        BY <4>4, <4>5, <1>5 DEF Replacing
    <3>2. Kept(t)
      BY <1>3 DEF Kept, Expired
    <3>3. /\ \A u \in Tables : \A k \in KeysIn(t, u) : rows[k].live => rows[k].ver >= At(s.gen)
          /\ \A u \in Inserted(w) : \A k \in TreeKeys(t, tree) \cap KeysIn(t, u) :
               rows[k].ver >= At(s.gen)
      BY <3>1, <3>2, <1>1, <1>2 DEF ExactInv, RunReplaces, ReplacedSoFar, tree
    <3>4. ASSUME NEW u \in Tables, NEW k \in KeysIn(t, u), rows'[k].live
          PROVE  rows'[k].ver >= At(s.gen)
      <4>1. k \in Keys
        BY <1>6
      <4>2. rows'[k] = rows[k] => rows'[k].ver >= At(s.gen)
        BY <3>3, <3>4
      <4>3. k \in K => rows'[k].ver >= At(s.gen)
        BY <4>1, <1>10
      <4> QED
        BY <4>1, <4>2, <4>3, <1>10
    <3>5. ASSUME NEW u \in Inserted(w) \cup {table}, NEW k \in TreeKeys(t, tree) \cap KeysIn(t, u)
          PROVE  rows'[k].ver >= At(s.gen)
      <4>1. k \in Keys
        BY <1>6
      <4>2. CASE u \in Inserted(w)
        <5>1. rows[k].ver >= At(s.gen) /\ rows'[k].ver >= rows[k].ver
          BY <4>1, <4>2, <3>3, <1>10
        <5> QED
          BY <5>1, <4>1, <1>4, <1>8, <1>10 DEF At
      <4>3. CASE u = table
        BY <4>1, <4>3, <1>10
      <4> QED
        BY <4>2, <4>3
    <3> QED
      BY <3>1, <3>4, <3>5
  <2> QED
    BY <2>1, <2>2, <2>3 DEF RunReplaces
<1>14. ASSUME NEW u \in Traces PROVE StoredKnown(u)'
  <2>1. CASE u # t
    <3>1. Rests(u)
      BY <1>3, <1>10, <2>1 DEF Rests, SameRows, Kept, Expired
    <3> QED
      BY <3>1, RestsKnown DEF ExactInv
  <2>2. CASE u = t
    <3>1. StoredKnown(t) /\ staged' = staged /\ (Kept(t)' => Kept(t))
      BY <1>3 DEF ExactInv, Kept, Expired
    <3>2. ASSUME Kept(t)', NEW k \in Keys, k[1] = t PROVE RowKnown(t, k)'
      <4>1. RowKnown(t, k)
        BY <3>1, <3>2 DEF StoredKnown
      <4>2. CASE rows'[k] = rows[k]
        BY <3>1, <4>1, <4>2 DEF RowKnown
      <4>3. CASE k \in K /\ rows'[k].ver = At(s.gen) /\ rows'[k].live
        <5>1. At(s.gen) <= At(staged[t].gen)
          BY <1>4 DEF At
        <5>2. At(s.gen) = At(staged[t].gen) => tree = staged[t].hash.tree
          BY <1>4 DEF At
        <5> QED
          BY <5>1, <5>2, <4>3, <3>1 DEF RowKnown
      <4> QED
        BY <4>2, <4>3, <1>10
    <3>3. ASSUME Kept(t)', staged[t].hash # None, ~staged[t].required PROVE Exact(t)'
      <4>1. Exact(t)
        BY <3>1, <3>3 DEF StoredKnown
      <4>2. \A k \in Keys : rows'[k].live => rows[k].live
        BY <3>1, <3>3, <1>11
      <4>3. LiveKeys(t)' = LiveKeys(t)
        BY <4>2, <1>10 DEF LiveKeys
      <4> QED
        BY <3>1, <4>1, <4>3 DEF Exact
    <3> QED
      BY <2>2, <3>1, <3>2, <3>3 DEF StoredKnown
  <2> QED
    BY <2>1, <2>2
<1> QED
  BY <1>9, <1>12, <1>13, <1>14, RemovingMoves, ExactMoves

LEMMA PublishImportExact ==
    ASSUME ImportInv, ExactInv, NEW w \in Workers, PublishImport(w)
    PROVE  ExactInv'
<1>1. CASE Throw(w) /\ UNCHANGED told
  BY <1>1, ThrowExact, PublishImportMoves
<1>2. CASE ~(Throw(w) /\ UNCHANGED told)
  <2>1. /\ UNCHANGED <<rows, clock, cutoff, marked>> /\ staged' = Cleared(w)
        /\ run' = [run EXCEPT ![w] = Between(w)]
        /\ run[w].pc = "publish" /\ StillOurs(w) /\ ~Expired(run[w].cur)
    BY <1>2 DEF PublishImport
  <2>2. PICK t \in Traces : run[w].cur = t
    BY <2>1 DEF ImportInv, RunKnows, SnapshotKnown, Materializing, SnapshotSteps
  <2>3. staged \in [Traces -> Snapshots] /\ run \in [Workers -> Runs]
    BY DEF ImportInv, ImportShape
  <2>4. /\ ~staged'[t].required /\ staged'[t].hash = staged[t].hash
        /\ staged'[t].gen = staged[t].gen
        /\ \A u \in Traces \ {t} : staged'[u] = staged[u]
    BY <2>1, <2>2, <2>3 DEF Cleared, Snapshots
  <2>5. run'[w].pc = "next"
    BY <2>1, <2>3 DEF Between, Off
  <2>6. RunReplaces(w)'
    BY <2>5, IdleReplaces DEF SnapshotSteps
  <2>7. RowsShape'
    BY <2>1 DEF ExactInv, RowsShape, Expired
  <2>8. /\ run[w].snap.gen = staged[t].gen /\ run[w].snap.hash = staged[t].hash
        /\ run[w].snap.required = staged[t].required /\ staged[t].hash # None
    BY <2>1, <2>2 DEF StillOurs, ImportInv, RunKnows, SnapshotKnown, Materializing, SnapshotSteps
  <2>9. StoredKnown(t) /\ Kept(t) /\ Kept(t)' /\ staged[t].gen \in Nat /\ staged[t].gen > 0
        /\ staged[t].hash.tree \in Trees
    <3>1. staged[t] \in Snapshots
      BY <2>3
    <3> QED
      BY <3>1, <2>1, <2>2, <2>8 DEF ExactInv, StoredKnown, Kept, Expired, Snapshots, Contents
  <2>10. ASSUME staged[t].required PROVE StoredWhole(t) /\ Exact(t)
    <3>1. Replacing(w) /\ Removed(w) = Tables /\ Inserted(w) = Tables
      BY <2>1, <2>8, <2>10 DEF Replacing, Removed, Inserted
    <3>2. /\ \A table \in Tables : \A k \in KeysIn(t, table) :
               rows[k].live => rows[k].ver >= At(staged[t].gen)
          /\ \A table \in Tables :
               \A k \in TreeKeys(t, staged[t].hash.tree) \cap KeysIn(t, table) :
                  rows[k].ver >= At(staged[t].gen)
      BY <3>1, <2>2, <2>8, <2>9 DEF ExactInv, RunReplaces, ReplacedSoFar
    <3>3. ASSUME NEW k \in LiveKeys(t)
          PROVE  rows[k].ver >= At(staged[t].gen) /\ k \in TreeKeys(t, staged[t].hash.tree)
      <4>1. k \in Keys /\ k[1] = t /\ rows[k].live
        BY DEF LiveKeys
      <4>2. rows[k].ver >= At(staged[t].gen)
        BY <4>1, <3>2, KeysOfTrace
      <4>3. RowKnown(t, k) /\ rows[k].ver \in Nat
        BY <4>1, <2>9 DEF StoredKnown, ExactInv, RowsShape, TreeRows
      <4>4. rows[k].ver = At(staged[t].gen)
        BY <4>2, <4>3, <2>9 DEF RowKnown, At
      <4> QED
        BY <4>1, <4>2, <4>3, <4>4 DEF RowKnown
    <3>4. ASSUME NEW k \in TreeKeys(t, staged[t].hash.tree)
          PROVE  rows[k].ver >= At(staged[t].gen) /\ k \in LiveKeys(t)
      <4>1. k \in Keys /\ k[1] = t
        BY <2>9, KeysOfTrace
      <4>2. rows[k].ver >= At(staged[t].gen)
        BY <4>1, <3>2, KeysOfTrace
      <4>3. RowKnown(t, k) /\ rows[k].ver \in Nat
        BY <4>1, <2>9 DEF StoredKnown, ExactInv, RowsShape, TreeRows
      <4>4. rows[k].ver = At(staged[t].gen)
        BY <4>2, <4>3, <2>9 DEF RowKnown, At
      <4> QED
        BY <4>1, <4>2, <4>3, <4>4, <2>9 DEF RowKnown, LiveKeys
    <3>5. rows' = rows /\ LiveKeys(t)' = LiveKeys(t)
      BY <2>1 DEF LiveKeys
    <3> QED
      BY <3>3, <3>4, <3>5 DEF StoredWhole, Exact
  <2>11. Exact(t)
    BY <2>8, <2>9, <2>10 DEF StoredKnown
  <2>12. ASSUME NEW u \in Traces PROVE StoredKnown(u)' /\ (Kept(u)' => Advances(u))
    <3>1. CASE u = t
      <4>1. Exact(t)' /\ \A k \in Keys : k[1] = t => RowKnown(t, k)'
        BY <2>1, <2>4, <2>9, <2>11 DEF Exact, LiveKeys, StoredKnown, RowKnown
      <4>2. StoredKnown(t)'
        BY <4>1, <2>4, <2>9 DEF StoredKnown
      <4>3. Advances(t)
        <5>1. \A k \in Keys : rows'[k] = rows[k] /\ rows[k].ver >= rows[k].ver
          BY <2>1 DEF ExactInv, RowsShape, TreeRows
        <5> QED
          BY <5>1, <2>9, <2>10 DEF Advances
      <4> QED
        BY <3>1, <4>2, <4>3
    <3>2. CASE u # t
      <4>1. Rests(u)
        BY <3>2, <2>1, <2>4 DEF Rests, SameRows, Kept, Expired
      <4> QED
        BY <4>1, RestsKnown DEF ExactInv
    <3> QED
      BY <3>1, <3>2
  <2> QED
    BY <2>6, <2>7, <2>12, ExactMoves, PublishImportMoves DEF AllAdvance
<1> QED
  BY <1>1, <1>2

LEMMA StageExact ==
    ASSUME ImportInv, ExactInv, NEW w \in Workers, Stage(w)
    PROVE  ExactInv'
<1>1. CASE Throw(w)
  BY <1>1, ThrowExact, StageMoves
<1>2. CASE ~Throw(w)
  <2>1. /\ UNCHANGED <<rows, clock, cutoff, marked>>
        /\ staged' = [t \in Traces |-> Restage(staged[t], run[w].page[t], w, run[w].cand)]
        /\ run' = [run EXCEPT ![w] = [Off EXCEPT !.pc = "claim", !.phase = "recovery"]]
        /\ run[w].pc = "stage" /\ Holds(w)
    BY <1>2 DEF Stage
  <2>2. staged \in [Traces -> Snapshots] /\ run \in [Workers -> Runs]
    BY DEF ImportInv, ImportShape
  <2>3. /\ run[w].page \in [Traces -> Contents] /\ run[w].cand \in Nat /\ run[w].cand > 0
    BY <2>1, <2>2 DEF ImportInv, RunKnows, Runs, ExactInv, RunReplaces, RunTimes
  <2>4. \A t \in Traces : ~staged[t].pending /\ ~staged[t].required
    BY <2>1 DEF ImportInv, LeaseCovers, ExactInv, StoredKnown
  <2>5. run'[w].pc = "claim"
    BY <2>1, <2>2 DEF Off
  <2>6. RunReplaces(w)'
    BY <2>5, IdleReplaces DEF SnapshotSteps
  <2>7. RowsShape'
    BY <2>1 DEF ExactInv, RowsShape, Expired
  <2>8. ASSUME NEW t \in Traces PROVE StoredKnown(t)' /\ (Kept(t)' => Advances(t))
    <3>1. staged'[t] = Restage(staged[t], run[w].page[t], w, run[w].cand)
          /\ run[w].page[t] \in Contents /\ staged[t] \in Snapshots
      BY <2>1, <2>2, <2>3
    <3>2. /\ staged'[t].hash # None /\ staged'[t].gen \in Nat /\ staged'[t].pending \in BOOLEAN
          /\ \/ staged[t].hash = None /\ staged'[t].gen = run[w].cand /\ staged'[t].required
                /\ staged'[t].pending
             \/ /\ staged'[t].hash = staged[t].hash /\ staged'[t].gen = staged[t].gen
                /\ staged'[t].required = staged[t].required /\ ~staged'[t].pending
             \/ /\ staged[t].hash # None /\ staged'[t].gen > staged[t].gen
                /\ staged'[t].pending
                /\ ~staged'[t].required => staged'[t].hash.tree = staged[t].hash.tree
      <4>1. PICK s \in Snapshots, c \in Contents, cand \in Nat :
               /\ staged[t] = s /\ run[w].page[t] = c /\ run[w].cand = cand /\ ~s.pending
               /\ staged'[t] = Restage(s, c, w, cand)
        BY <3>1, <2>3, <2>4
      <4>2. PICK r \in Snapshots : r = Restage(s, c, w, cand)
        BY <4>1, RestageIs
      <4>3. /\ r.hash # None /\ r.gen \in Nat /\ r.pending \in BOOLEAN
            /\ \/ s.hash = None /\ r.gen = cand /\ r.required /\ r.pending
               \/ r.hash = s.hash /\ r.gen = s.gen /\ r.required = s.required /\ ~r.pending
               \/ /\ s.hash # None /\ r.gen > s.gen /\ r.pending
                  /\ ~r.required => r.hash.tree = s.hash.tree
        <5>1. r.gen \in Nat /\ r.pending \in BOOLEAN
          BY DEF Snapshots
        <5> QED
          BY <4>1, <4>2, <5>1, RestageIs
      <4> QED
        BY <4>1, <4>2, <4>3
    <3>3. StoredKnown(t) /\ staged[t].gen \in Nat /\ (staged[t].hash = None => staged[t].gen = 0)
      BY <3>1 DEF ExactInv, ImportInv, Announced, Snapshots
    <3>4. \A k \in Keys : rows'[k] = rows[k] /\ rows[k].ver \in Nat /\ rows[k].ver >= rows[k].ver
      BY <2>1 DEF ExactInv, RowsShape, TreeRows
    <3>5. (Kept(t)' <=> Kept(t)) /\ LiveKeys(t)' = LiveKeys(t)
      BY <2>1 DEF Kept, Expired, LiveKeys
    <3>6. CASE /\ staged'[t].hash = staged[t].hash /\ staged'[t].gen = staged[t].gen
               /\ staged'[t].required = staged[t].required /\ ~staged'[t].pending
      <4>1. Rests(t)
        <5>1. staged[t].pending = staged'[t].pending
          BY <3>1, <3>2, <3>6, <2>4 DEF Snapshots
        <5> QED
          BY <5>1, <3>4, <3>5, <3>6 DEF Rests, SameRows
      <4> QED
        BY <4>1, RestsKnown DEF ExactInv
    <3>7. CASE /\ staged'[t].gen > staged[t].gen /\ staged'[t].pending
               /\ ~staged'[t].required =>
                     staged[t].hash # None /\ staged'[t].hash.tree = staged[t].hash.tree
      <4>1. ASSUME Kept(t), NEW k \in Keys, k[1] = t PROVE RowKnown(t, k)'
        <5>1. RowKnown(t, k)
          BY <4>1, <3>3 DEF StoredKnown
        <5>2. rows[k].ver <= At(staged'[t].gen) /\ rows[k].ver # At(staged'[t].gen)
          BY <5>1, <3>2, <3>3, <3>4, <3>7 DEF RowKnown, At
        <5> QED
          BY <5>1, <5>2, <3>4 DEF RowKnown
      <4>2. ASSUME Kept(t), ~staged'[t].required PROVE Exact(t)'
        <5>1. Exact(t)
          BY <4>2, <3>3, <3>7, <2>4 DEF StoredKnown
        <5> QED
          BY <5>1, <4>2, <3>5, <3>7 DEF Exact
      <4>3. staged'[t].gen > 0
        BY <3>2, <3>3, <3>7
      <4>4. StoredKnown(t)'
        BY <4>1, <4>2, <4>3, <3>5, <3>7 DEF StoredKnown
      <4>5. Kept(t)' => Advances(t)
        BY <3>4, <3>5, <2>4 DEF Advances
      <4> QED
        BY <4>4, <4>5
    <3>8. CASE staged[t].hash = None /\ staged'[t].gen = run[w].cand /\ staged'[t].required
               /\ staged'[t].pending
      <4>1. staged'[t].gen > staged[t].gen
        BY <3>3, <3>8, <2>3
      <4> QED
        BY <4>1, <3>7, <3>8
    <3> QED
      BY <3>2, <3>6, <3>7, <3>8
  <2> QED
    BY <2>6, <2>7, <2>8, ExactMoves, StageMoves DEF AllAdvance
<1> QED
  BY <1>1, <1>2
-----------------------------------------------------------------------------
(* The steps of the rest of the system.                                     *)

LEMMA InitExact == OnlyImports /\ Init => ExactInv
<1> SUFFICES ASSUME OnlyImports, Init PROVE ExactInv
  OBVIOUS
<1>1. /\ rows = [k \in Keys |-> NoRow] /\ clock = 1 /\ marked = {}
      /\ staged = [t \in Traces |-> NotStaged]
  BY DEF Init, StoreInit, OnlyImports
<1>2. RowsShape
  BY <1>1 DEF RowsShape, TreeRows, NoRow
<1>3. ASSUME NEW w \in Workers PROVE RunReplaces(w)
  <2>1. run[w] = Off
    BY DEF Init, ImportInit
  <2> QED
    BY <2>1, OffIsRun DEF RunReplaces, ReplacedSoFar, ReplacedAlready, RunTimes, Replacing,
                          Materializing, SnapshotSteps
<1>4. ASSUME NEW t \in Traces PROVE StoredKnown(t)
  BY <1>1 DEF StoredKnown, RowKnown, NotStaged, NoRow, At
<1> QED
  BY <1>2, <1>3, <1>4 DEF ExactInv

LEMMA RetentionExact ==
    ASSUME OnlyImports, ImportInv, ImportInv', ExactInv, RetentionNext, UNCHANGED importVars
    PROVE  ExactInv'
<1>1. RetentionFinds
  BY DEF RetentionFinds, ImportInv, ImportShape, ExactInv, RowsShape
<1>2. UNCHANGED <<clock, staged, run, told>> /\ cutoff <= cutoff'
  BY RetentionLeavesImports DEF ImportInv, ImportShape, importVars
<1>3. RowsShape'
  <2>1. NoRow \in TreeRows /\ [ver |-> JustAfter(clock), by |-> None, live |-> FALSE] \in TreeRows
    BY DEF NoRow, JustAfter, TreeRows, ImportInv, ImportShape
  <2>2. rows' \in [Keys -> TreeRows]
    BY <2>1, RetentionRows DEF ExactInv, RowsShape
  <2> QED
    BY <1>1, <1>2, <2>2, RetentionMarks DEF ExactInv, RowsShape
<1>4. \A t \in Traces : Kept(t)' => SameRows(t)
  BY <1>1, RetentionSpares DEF OnlyImports
<1> QED
  BY <1>2, <1>3, <1>4, NobodyMoves DEF ImportInv

LEMMA OthersExact ==
    ASSUME ImportInv, ImportInv', ExactInv, UNCHANGED <<rows, cutoff, marked, run, staged, told>>,
           clock' \in {clock, clock + 1}
    PROVE  ExactInv'
<1>1. clock' > 0 /\ cutoff <= cutoff'
  BY DEF ImportInv, ImportShape, ExactInv, RowsShape
<1>2. RowsShape'
  BY <1>1 DEF ExactInv, RowsShape, Expired
<1>3. \A t \in Traces : SameRows(t)
  BY DEF SameRows
<1> QED
  BY <1>1, <1>2, <1>3, NobodyMoves DEF ImportInv

LEMMA NextExact == OnlyImports /\ ImportInv /\ ImportInv' /\ ExactInv /\ [Next]_vars => ExactInv'
<1> SUFFICES ASSUME OnlyImports, ImportInv, ImportInv', ExactInv, [Next]_vars PROVE ExactInv'
  OBVIOUS
<1>1. CASE UNCHANGED vars
  BY <1>1, OthersExact DEF vars, storeVars, importVars
<1>2. CASE ClockTicks
  BY <1>2, OthersExact DEF ClockTicks, Tick, importVars
<1>3. CASE IngestNext
  BY <1>3 DEF IngestNext, OnlyImports
<1>4. CASE RetentionNext /\ UNCHANGED <<ingestVars, importVars, readerVars>>
  BY <1>4, RetentionExact
<1>5. CASE ReadersNext /\ UNCHANGED <<ingestVars, retentionVars, importVars>>
  BY <1>5, ReadersWriteNothing, OthersExact DEF importVars, storeVars
<1>6. CASE ImportNext
  <2>1. CASE LeaseExpires \/ \E t \in Traces : ProviderEdit(t)
    BY <2>1, OthersExact DEF LeaseExpires, ProviderEdit, storeVars
  <2>2. ASSUME NEW w \in Workers, FailRun(w) PROVE ExactInv'
    BY <2>2, ThrowExact, ThrowMoves DEF FailRun
  <2>3. ASSUME NEW w \in Workers, Claim(w) \/ ImportStep(w) PROVE ExactInv'
    BY <2>3, ClaimExact, ClaimPendingExact, BeginSnapshotExact, TombstoneExpiredExact,
       TombstoneTreeExact, InsertTreeExact, DiscardExact, PublishScoresExact, PublishImportExact,
       FetchPageExact, StageExact, FinishRunExact DEF ImportStep
  <2> QED
    BY <1>6, <2>1, <2>2, <2>3 DEF ImportNext
<1> QED
  BY <1>1, <1>2, <1>3, <1>4, <1>5, <1>6 DEF Next, Step
-----------------------------------------------------------------------------
\* Of a trace that imports write, a snapshot that is not pending left exactly
\* its tree: no observation of an earlier version survives, and none of this
\* one is missing, whichever runs lost their lease or failed half way.
THEOREM ImportsAreExact ==
    ASSUME OnlyImports
    PROVE  Spec => []ImportedTreeExact
<1>1. ImportInv /\ ExactInv => ImportedTreeExact
  <2> SUFFICES ASSUME ImportInv, ExactInv, NEW t \in Traces, Imported(t), Kept(t)
               PROVE  {k[2] : k \in LiveKeys(t)} \ {Root} = TreeObs[staged[t].hash.tree]
    BY DEF ImportedTreeExact
  <2>1. Exact(t)
    BY DEF ExactInv, StoredKnown, Imported
  <2>2. staged[t].hash.tree \in Trees
    BY DEF ImportInv, ImportShape, Snapshots, Contents, Imported
  <2>3. TreeObs[staged[t].hash.tree] \subseteq Obs /\ Root \notin Obs
    BY <2>2, ImportAssumption, StoreAssumption DEF StoreAssumption
  <2>4. LiveKeys(t) = {<<t, Root>>} \cup ({t} \X TreeObs[staged[t].hash.tree])
    BY <2>1 DEF Exact, TreeKeys, RootKey
  <2>5. ASSUME NEW x \in {k[2] : k \in LiveKeys(t)} \ {Root}
        PROVE  x \in TreeObs[staged[t].hash.tree]
    BY <2>4
  <2>6. ASSUME NEW o \in TreeObs[staged[t].hash.tree]
        PROVE  o \in {k[2] : k \in LiveKeys(t)} \ {Root}
    <3>1. <<t, o>> \in LiveKeys(t) /\ <<t, o>>[2] = o /\ o # Root
      BY <2>3, <2>4
    <3> QED
      BY <3>1
  <2> QED
    BY <2>5, <2>6
<1>2. Init => ImportInv /\ ExactInv
  BY InitImportInv, InitExact
<1>3. ImportInv /\ ExactInv /\ [Next]_vars => ImportInv' /\ ExactInv'
  BY NextImportInv, NextExact
<1> QED
  BY <1>1, <1>2, <1>3, PTL DEF Spec
-----------------------------------------------------------------------------
(* Types.  A snapshot's generation and a run's candidate are times, so that *)
(* there is a version just before them; a request that walks its page has   *)
(* an entry before it.                                                      *)

Times ==
    /\ \A t \in Traces : staged[t].hash # None => staged[t].gen > 0
    /\ \A w \in Workers : /\ Materializing(w) => run[w].snap.gen > 0
                          /\ run[w].pc = "stage" => run[w].cand > 0

Details == [pc |-> detail.pc, trace |-> detail.trace, pub |-> detail.pub,
            settled |-> detail.settled, got |-> detail.got, source |-> detail.source,
            root |-> detail.root, obs |-> detail.obs]

Requests ==
    /\ cursor = [kind |-> cursor.kind, at |-> cursor.at, through |-> cursor.through]
    /\ poll = Polls /\ poll.page \in Seq(LiveEntries \cup ScanEntries)
    /\ poll.pc \notin {"idle", "guards", "pubs"} => Len(poll.page) >= 1
    /\ detail = Details

TypeInv == TypeOK /\ Times /\ Requests

LEMMA InitTypes == Init => TypeInv
<1> SUFFICES ASSUME Init PROVE TypeInv
  OBVIOUS
<1> USE DEF Init
<1>1. StoreTypeOK
  <2>1. clock = 1 /\ 1 \in 1 .. MaxClock /\ cutoff = 0 /\ 0 \in 0 .. MaxClock
    BY StoreAssumption DEF StoreInit, StoreAssumption
  <2>2. DOMAIN rows = Keys /\ \A k \in Keys : rows[k].ver \in Nat /\ rows[k].live \in BOOLEAN
    BY DEF StoreInit, NoRow, At
  <2>3. feed \in [Traces -> [ver : 0 .. watermark, src : Nat]]
    BY DEF StoreInit, NoFeed
  <2> QED
    BY <2>1, <2>2, <2>3 DEF StoreInit, StoreTypeOK
<1>2. IngestTypeOK
  BY StoreAssumption DEF IngestInit, StoreInit, IngestTypeOK, Steps, StoreAssumption
<1>3. RetentionTypeOK
  BY DEF RetentionInit, StoreInit, RetentionTypeOK, Phases
<1>4. ImportTypeOK
  BY InitImportInv, OffIsRun DEF ImportInv, ImportShape, ImportInit, StoreInit, ImportTypeOK,
     Materializing, SnapshotSteps, Snapshots, RunSteps
<1>5. ReadersTypeOK /\ Requests
  <2>1. poll = Unread /\ Unread.page = <<>> /\ Unread.pc = "idle" /\ Unread.pending = {}
    BY DEF ReadersInit, Unread
  <2>2. poll = Polls
    BY <2>1 DEF Polls, Unread
  <2>3. detail = Details /\ detail.pc = "idle" /\ detail.trace = 0
    BY DEF ReadersInit, NoDetail, Details
  <2>4. /\ cursor = [kind |-> cursor.kind, at |-> cursor.at, through |-> cursor.through]
        /\ cursor.kind \in {"new", "live"} /\ consumer \in Consumers
    BY DEF ReadersInit
  <2> QED
    BY <2>1, <2>2, <2>3, <2>4, ReaderAssumption DEF ReadersTypeOK, Requests, ReaderAssumption
<1>6. Times
  BY DEF ImportInit, StoreInit, Times, NotStaged, Off, Materializing, SnapshotSteps
<1> QED
  BY <1>1, <1>2, <1>3, <1>4, <1>5, <1>6 DEF TypeInv, TypeOK

\* Rows that are written or removed have versions.
LEMMA PutTypes ==
    ASSUME StoreTypeOK, NEW K, NEW ver \in Nat, NEW by, NEW live \in BOOLEAN, rows' = Put(K, ver, by, live)
    PROVE  DOMAIN rows' = Keys /\ \A k \in Keys : rows'[k].ver \in Nat /\ rows'[k].live \in BOOLEAN
BY DEF StoreTypeOK, Put

LEMMA TombstoneTypes ==
    ASSUME StoreTypeOK, NEW K, NEW ver \in Nat, rows' = Tombstone(K, ver)
    PROVE  DOMAIN rows' = Keys /\ \A k \in Keys : rows'[k].ver \in Nat /\ rows'[k].live \in BOOLEAN
BY PutTypes DEF Tombstone

LEMMA PublishTypes ==
    ASSUME StoreTypeOK, NEW T, NEW src \in Nat, NEW activity, Publish(T, src, activity)
    PROVE  watermark' \in Nat /\ feed' \in [Traces -> [ver : 0 .. watermark', src : Nat]]
<1>1. watermark \in Nat /\ watermark' \in {watermark, watermark + 1}
      /\ feed \in [Traces -> [ver : 0 .. watermark, src : Nat]]
  BY DEF StoreTypeOK, Publish
<1>2. ASSUME NEW t \in Traces
      PROVE  /\ feed[t] \in [ver : 0 .. watermark', src : Nat]
             /\ [ver |-> watermark', src |-> Max({feed[t].src, src})] \in [ver : 0 .. watermark', src : Nat]
  <2>1. feed[t] = [ver |-> feed[t].ver, src |-> feed[t].src]
        /\ feed[t].ver \in 0 .. watermark' /\ feed[t].src \in Nat
    BY <1>1
  <2>2. Max({feed[t].src, src}) \in Nat
    BY <2>1, LaterOf
  <2> QED
    BY <1>1, <2>1, <2>2
<1> QED
  BY <1>1, <1>2 DEF Publish

\* A step that leaves a part of the state alone leaves its types.
LEMMA RestTypes ==
    ASSUME TypeInv
    PROVE  /\ UNCHANGED <<ingestVars, shared>> => IngestTypeOK'
           /\ UNCHANGED <<retentionVars, exclusive>> => RetentionTypeOK'
           /\ UNCHANGED <<importVars, staged, shared>> => ImportTypeOK' /\ Times'
           /\ UNCHANGED readerVars => ReadersTypeOK' /\ Requests'
<1>1. UNCHANGED <<ingestVars, shared>> => IngestTypeOK'
  BY DEF TypeInv, TypeOK, ingestVars, IngestTypeOK
<1>2. UNCHANGED <<retentionVars, exclusive>> => RetentionTypeOK'
  BY DEF TypeInv, TypeOK, retentionVars, RetentionTypeOK
<1>3. UNCHANGED <<importVars, staged, shared>> => ImportTypeOK' /\ Times'
  BY DEF TypeInv, TypeOK, importVars, ImportTypeOK, Times, Materializing
<1>4. UNCHANGED readerVars => ReadersTypeOK' /\ Requests'
  BY DEF TypeInv, TypeOK, readerVars, ReadersTypeOK, Requests, Polls, Details
<1> QED
  BY <1>1, <1>2, <1>3, <1>4

LEMMA MishapsCount == \A kind : mishaps \in Nat /\ Mishap(kind) => mishaps' \in Nat
BY DEF Mishap

LEMMA IngestTypes ==
    ASSUME TypeInv, FenceInv, FenceInv', IngestNext, UNCHANGED <<retentionVars, importVars, readerVars>>
    PROVE  TypeInv'
<1> PICK b \in Batches : Accept(b) \/ IngestStep(b) \/ FailJob(b) \/ SettlePublished(b)
  BY DEF IngestNext
<1>j. job \in [Batches -> [pc : Steps, write : SUBSET Keys, todo : SUBSET Tables]]
      /\ job' \in [Batches -> [pc : Steps, write : SUBSET Keys, todo : SUBSET Tables]]
  BY DEF FenceInv, FenceShape
<1>s. StoreTypeOK /\ IngestTypeOK
  BY DEF TypeInv, TypeOK
<1>r. received[b] \in Nat /\ received[b] \in 0 .. MaxClock
  BY <1>s, StoreAssumption DEF IngestTypeOK, StoreAssumption
<1>u. UNCHANGED <<clock, marked, cutoff, exclusive, staged, pass>>
  BY DEF IngestStep, Accept, ResolveRows, MarkPending, WriteTable, PublishBatch, ApplyRefs, SettlePublished,
         FailJob, storeVars, TakeShared, DropShared, retentionVars
<1>1. mishaps' \in Nat
  BY <1>s, MishapsCount DEF IngestStep, Accept, ResolveRows, MarkPending, WriteTable, PublishBatch, ApplyRefs, SettlePublished,
         FailJob, StoreTypeOK
<1>2. DOMAIN rows' = Keys /\ \A k \in Keys : rows'[k].ver \in Nat /\ rows'[k].live \in BOOLEAN
  <2>1. CASE \E table \in Tables : WriteTable(b, table)
    <3>1. At(received[b]) \in Nat
      BY <1>r DEF At
    <3> QED
      BY <2>1, <3>1, <1>s, PutTypes DEF WriteTable
  <2>2. CASE ~\E table \in Tables : WriteTable(b, table)
    <3>1. rows' = rows
      BY <2>2 DEF IngestStep, Accept, ResolveRows, MarkPending, PublishBatch, ApplyRefs, SettlePublished,
                  FailJob, storeVars
    <3> QED
      BY <3>1, <1>s DEF StoreTypeOK
  <2> QED
    BY <2>1, <2>2
<1>3. watermark' \in Nat /\ feed' \in [Traces -> [ver : 0 .. watermark', src : Nat]]
  <2>1. CASE PublishBatch(b)
    BY <2>1, <1>s, <1>r, PublishTypes DEF PublishBatch
  <2>2. CASE ~PublishBatch(b)
    <3>1. UNCHANGED <<watermark, feed>>
      BY <2>2 DEF IngestStep, Accept, ResolveRows, MarkPending, WriteTable, ApplyRefs, SettlePublished,
                  FailJob, storeVars
    <3> QED
      BY <3>1, <1>s DEF StoreTypeOK
  <2> QED
    BY <2>1, <2>2
<1>4. refs' \in [Batches -> {"none", "pending", "applied"}]
  BY <1>s DEF IngestStep, Accept, ResolveRows, MarkPending, WriteTable, PublishBatch, ApplyRefs, SettlePublished,
         FailJob, StoreTypeOK, storeVars
<1>5. shared' \subseteq Batches \cup Workers /\ shared' \ {b} = shared \ {b}
      /\ (b \in shared' <=> job'[b].pc \in {"writing", "published"})
      /\ \A c \in Batches \ {b} : job'[c] = job[c]
  <2>1. CASE MarkPending(b)
    BY <2>1, <1>s, <1>j DEF MarkPending, TakeShared, StoreTypeOK
  <2>2. CASE ApplyRefs(b) \/ FailJob(b)
    BY <2>2, <1>s, <1>j DEF ApplyRefs, FailJob, DropShared, StoreTypeOK
  <2>3. CASE PublishBatch(b) \/ \E table \in Tables : WriteTable(b, table)
    <3>1. shared' = shared /\ job[b].pc = "writing"
      BY <2>3 DEF PublishBatch, WriteTable
    <3>2. CASE PublishBatch(b)
      <4>1. job' = [job EXCEPT ![b].pc = "published"]
        BY <3>2 DEF PublishBatch
      <4> QED
        BY <3>1, <4>1, <1>s, <1>j DEF StoreTypeOK, IngestTypeOK
    <3>3. ASSUME NEW table \in Tables, WriteTable(b, table)
          PROVE  job'[b].pc = "writing" /\ \A c \in Batches \ {b} : job'[c] = job[c]
      <4>1. job' = [job EXCEPT ![b].todo = @ \ {table}]
        BY <3>3 DEF WriteTable
      <4> QED
        BY <3>1, <4>1, <1>j
    <3> QED
      BY <2>3, <3>1, <3>2, <3>3, <1>s DEF StoreTypeOK, IngestTypeOK
  <2>4. CASE Accept(b) \/ ResolveRows(b) \/ SettlePublished(b)
    <3>1. shared' = shared
      BY <2>4 DEF Accept, ResolveRows, SettlePublished, storeVars
    <3>2. job'[b].pc \in {"writing", "published"} <=> job[b].pc \in {"writing", "published"}
      BY <2>4, <1>j DEF Accept, ResolveRows, SettlePublished
    <3>3. \A c \in Batches \ {b} : job'[c] = job[c]
      BY <2>4, <1>j DEF Accept, ResolveRows, SettlePublished
    <3> QED
      BY <3>1, <3>2, <3>3, <1>s DEF StoreTypeOK, IngestTypeOK
  <2> QED
    BY <2>1, <2>2, <2>3, <2>4 DEF IngestStep
<1>6. job'[b].write \subseteq BatchKeys[b]
  <2>1. CASE ResolveRows(b)
    BY <2>1, <1>j DEF ResolveRows
  <2>2. CASE FailJob(b)
    BY <2>2, <1>j DEF FailJob
  <2>3. CASE ~ResolveRows(b) /\ ~FailJob(b)
    <3>1. \/ \E pc \in Steps : job' = [job EXCEPT ![b].pc = pc]
          \/ \E table \in Tables : job' = [job EXCEPT ![b].todo = @ \ {table}]
          \/ job' = job
      BY <2>3 DEF IngestStep, Accept, MarkPending, WriteTable, PublishBatch, ApplyRefs, SettlePublished, Steps
    <3>2. job'[b].write = job[b].write
      BY <3>1, <1>j
    <3> QED
      BY <3>2, <1>s DEF IngestTypeOK
  <2> QED
    BY <2>1, <2>2, <2>3
<1>7. received' \in [Batches -> 0 .. MaxClock] /\ hook' \subseteq Batches
  <2>1. clock \in 0 .. MaxClock
    BY <1>s DEF StoreTypeOK
  <2> QED
    BY <2>1, <1>s DEF IngestStep, Accept, ResolveRows, MarkPending, WriteTable, PublishBatch, ApplyRefs,
         SettlePublished, FailJob, IngestTypeOK
<1>8. StoreTypeOK'
  BY <1>s, <1>u, <1>1, <1>2, <1>3, <1>4, <1>5 DEF StoreTypeOK, FenceInv, FenceExcludes
<1>9. IngestTypeOK'
  <2>1. \A c \in Batches : job'[c].write \subseteq BatchKeys[c]
    BY <1>s, <1>5, <1>6 DEF IngestTypeOK
  <2>2. \A c \in Batches : c \in shared' <=> job'[c].pc \in {"writing", "published"}
    <3> TAKE c \in Batches
    <3>1. CASE c = b
      BY <3>1, <1>5
    <3>2. CASE c # b
      <4>1. c \in shared' <=> c \in shared
        BY <3>2, <1>5
      <4> QED
        BY <4>1, <3>2, <1>5, <1>s DEF IngestTypeOK
    <3> QED
      BY <3>1, <3>2
  <2>3. \A c \in Batches : job'[c].pc \in Steps /\ job'[c].todo \subseteq Tables
    BY <1>j
  <2> QED
    BY <2>1, <2>2, <2>3, <1>7 DEF IngestTypeOK
<1>10. ImportTypeOK' /\ Times'
  <2>1. UNCHANGED <<importVars, staged>>
    BY <1>u
  <2>2. \A w \in Workers : w \in shared' <=> w \in shared
    <3>1. \A w \in Workers : w # b
      BY StoreAssumption DEF StoreAssumption
    <3> QED
      BY <3>1, <1>5
  <2> QED
    BY <2>1, <2>2 DEF TypeInv, TypeOK, importVars, ImportTypeOK, Times, Materializing
<1> QED
  BY <1>8, <1>9, <1>10, <1>u, RestTypes DEF TypeInv, TypeOK

LEMMA RetentionTypes ==
    ASSUME TypeInv, FenceInv, FenceInv', RetentionNext, UNCHANGED <<ingestVars, importVars, readerVars>>
    PROVE  TypeInv'
<1>s. StoreTypeOK /\ RetentionTypeOK
  BY DEF TypeInv, TypeOK
<1>c. clock \in 1 .. MaxClock /\ cutoff \in 0 .. MaxClock /\ MaxClock \in Nat
  BY <1>s, StoreAssumption DEF StoreTypeOK, StoreAssumption
<1>u. UNCHANGED <<clock, refs, watermark, staged, shared>>
  BY DEF RetentionNext, RetentionStep, BeginPass, RecordExpired, DropRootPartitions, DropObsPartitions,
         DeleteRoots, DeleteObs, DeleteChildren, ListOrphans, PruneFeed, AbortPass, TakeExclusive, storeVars
<1>1. mishaps' \in Nat
  BY <1>s, MishapsCount DEF RetentionNext, RetentionStep, BeginPass, RecordExpired, DropRootPartitions, DropObsPartitions,
         DeleteRoots, DeleteObs, DeleteChildren, ListOrphans, PruneFeed, AbortPass, StoreTypeOK
<1>2. cutoff' \in 0 .. MaxClock
  <2>1. CASE BeginPass
    <3>1. Max({cutoff, clock}) \in {cutoff, clock}
      <4>1. \E x \in {cutoff, clock} : \A y \in {cutoff, clock} : x >= y
        BY <1>c
      <4> QED
        BY <4>1 DEF Max
    <3> QED
      BY <2>1, <3>1, <1>c DEF BeginPass
  <2>2. CASE ~BeginPass
    BY <2>2, <1>c DEF RetentionNext, RetentionStep, RecordExpired, DropRootPartitions, DropObsPartitions,
         DeleteRoots, DeleteObs, DeleteChildren, ListOrphans, PruneFeed, AbortPass, storeVars
  <2> QED
    BY <2>1, <2>2
<1>3. DOMAIN rows' = Keys /\ \A k \in Keys : rows'[k].ver \in Nat /\ rows'[k].live \in BOOLEAN
  <2>1. JustAfter(clock) \in Nat
    BY <1>c DEF JustAfter
  <2>2. CASE DropRootPartitions
    <3>1. PICK D \in SUBSET Removable : Drop({RootKey(t) : t \in D})
      BY <2>2 DEF DropRootPartitions
    <3> QED
      BY <3>1, <1>s DEF Drop, NoRow, StoreTypeOK
  <2>3. CASE DropObsPartitions
    <3>1. PICK D \in SUBSET Orphans : Drop(D)
      BY <2>3 DEF DropObsPartitions
    <3> QED
      BY <3>1, <1>s DEF Drop, NoRow, StoreTypeOK
  <2>4. CASE DeleteRoots
    BY <2>1, <2>4, <1>s, TombstoneTypes DEF DeleteRoots
  <2>5. CASE DeleteObs
    BY <2>1, <2>5, <1>s, TombstoneTypes DEF DeleteObs
  <2>6. CASE DeleteChildren
    BY <2>1, <2>6, <1>s, TombstoneTypes DEF DeleteChildren
  <2>7. CASE BeginPass \/ RecordExpired \/ ListOrphans \/ PruneFeed \/ AbortPass
    <3>1. rows' = rows
      BY <2>7 DEF BeginPass, RecordExpired, ListOrphans, PruneFeed, AbortPass, storeVars
    <3> QED
      BY <3>1, <1>s DEF StoreTypeOK
  <2> QED
    BY <2>2, <2>3, <2>4, <2>5, <2>6, <2>7 DEF RetentionNext, RetentionStep
<1>4. marked' \subseteq Traces
  BY <1>s DEF RetentionNext, RetentionStep, BeginPass, RecordExpired, DropRootPartitions, DropObsPartitions,
         DeleteRoots, DeleteObs, DeleteChildren, ListOrphans, PruneFeed, AbortPass, StoreTypeOK, storeVars
<1>5. feed' \in [Traces -> [ver : 0 .. watermark, src : Nat]]
  <2>1. CASE PruneFeed
    BY <2>1, <1>s DEF PruneFeed, DeleteFeedEntries, NoFeed, StoreTypeOK
  <2>2. CASE ~PruneFeed
    <3>1. feed' = feed
      BY <2>2 DEF RetentionNext, RetentionStep, BeginPass, RecordExpired, DropRootPartitions,
           DropObsPartitions, DeleteRoots, DeleteObs, DeleteChildren, ListOrphans, AbortPass, storeVars
    <3> QED
      BY <3>1, <1>s DEF StoreTypeOK
  <2> QED
    BY <2>1, <2>2
<1>6. pass' \in Phases
  BY <1>s DEF RetentionNext, RetentionStep, BeginPass, RecordExpired, DropRootPartitions, DropObsPartitions,
         DeleteRoots, DeleteObs, DeleteChildren, ListOrphans, PruneFeed, AbortPass, Goto, AfterPartitions, Phases
<1>7. orphans' \subseteq Traces \X Nat
  <2>1. CASE ListOrphans
    BY <2>1, <1>s DEF ListOrphans, StoreTypeOK
  <2>2. CASE ~ListOrphans
    BY <2>2, <1>s DEF RetentionNext, RetentionStep, BeginPass, RecordExpired, DropRootPartitions,
         DropObsPartitions, DeleteRoots, DeleteObs, DeleteChildren, PruneFeed, AbortPass, RetentionTypeOK
  <2> QED
    BY <2>1, <2>2
<1>8. StoreTypeOK'
  BY <1>s, <1>u, <1>1, <1>2, <1>3, <1>4, <1>5
     DEF StoreTypeOK, FenceInv, FenceShape, FenceExcludes
<1>9. RetentionTypeOK'
  BY <1>6, <1>7 DEF RetentionTypeOK, FenceInv, FenceExcludes
<1> QED
  BY <1>8, <1>9, <1>u, RestTypes DEF TypeInv, TypeOK

\* Generations are times: they grow from the clock a page was read at.
LEMMA ImportTimes ==
    ASSUME TypeInv, ImportInv, NEW w \in Workers, Claim(w) \/ ImportStep(w) \/ FailRun(w)
    PROVE  Times'
<1>i. /\ staged \in [Traces -> Snapshots] /\ run \in [Workers -> Runs] /\ clock \in Nat \ {0}
      /\ \A t \in Traces : staged[t].gen \in Nat
  <2>1. clock \in Nat /\ clock > 0
    BY StoreAssumption DEF TypeInv, TypeOK, StoreTypeOK, StoreAssumption
  <2> QED
    BY <2>1 DEF ImportInv, ImportShape, Snapshots
<1>t. Times
  BY DEF TypeInv
<1>1. ASSUME NEW t \in Traces, staged'[t].hash # None PROVE staged'[t].gen > 0
  <2>1. CASE Stage(w) /\ ~Throw(w)
    <3>1. /\ staged' = [u \in Traces |-> Restage(staged[u], run[w].page[u], w, run[w].cand)]
          /\ run[w].pc = "stage" /\ Holds(w)
      BY <2>1 DEF Stage
    <3>2. /\ run[w].page[t] \in Contents /\ ~staged[t].pending
          /\ run[w].cand \in Nat /\ run[w].cand > 0
      BY <3>1, <1>i, <1>t DEF ImportInv, RunKnows, LeaseCovers, Runs, Times
    <3>3. PICK s \in Snapshots, c \in Contents, cand \in Nat :
             /\ staged[t] = s /\ run[w].page[t] = c /\ run[w].cand = cand /\ ~s.pending
             /\ staged'[t] = Restage(s, c, w, cand)
      BY <3>1, <3>2, <1>i
    <3>4. \/ Restage(s, c, w, cand).gen = cand
          \/ s.hash # None /\ Restage(s, c, w, cand).gen >= s.gen
      <4>1. s.gen \in Nat
        BY DEF Snapshots
      <4>2. PICK r \in Snapshots : r = Restage(s, c, w, cand)
        BY <3>3, RestageIs
      <4>3. r.gen \in Nat
        BY DEF Snapshots
      <4>4. \/ r.gen = cand
            \/ r.hash # None /\ r.hash = s.hash /\ r.gen = s.gen
            \/ s.hash # None /\ r.gen > s.gen
        BY <3>3, <4>2, RestageIs
      <4> QED
        BY <4>1, <4>2, <4>3, <4>4
    <3>5. staged'[t].gen \in Nat
      <4>1. Restage(s, c, w, cand) \in Snapshots
        BY <3>3, RestageIs
      <4> QED
        BY <3>3, <4>1 DEF Snapshots
    <3>6. s.hash # None => s.gen > 0
      BY <3>3, <1>t DEF Times
    <3>7. s.gen \in Nat
      BY DEF Snapshots
    <3> QED
      BY <3>2, <3>3, <3>4, <3>5, <3>6, <3>7
  <2>2. CASE ~Stage(w) \/ Throw(w)
    <3>1. staged'[t].hash = staged[t].hash /\ staged'[t].gen = staged[t].gen
      <4>1. \/ UNCHANGED staged
            \/ staged' = Cleared(w)
            \/ \E pending \in SUBSET Traces : staged' = [u \in Traces |->
                  IF u \in pending THEN [staged[u] EXCEPT !.token = w] ELSE staged[u]]
        <5>1. CASE ClaimPending(w)
          <6>1. CASE Throw(w)
            BY <6>1 DEF Throw
          <6>2. CASE ~Throw(w)
            BY <5>1, <6>2 DEF ClaimPending
          <6> QED
            BY <6>1, <6>2
        <5>2. CASE ~ClaimPending(w)
          BY <2>2, <5>2 DEF ImportStep, Claim, FailRun, BeginSnapshot, TombstoneExpired, TombstoneTree,
                 InsertTree, Discard, PublishScores, PublishImport, FetchPage, FinishRun, Throw, storeVars
        <5> QED
          BY <5>1, <5>2
      <4> QED
        BY <4>1, <1>i DEF Cleared, Snapshots
    <3> QED
      BY <3>1, <1>1, <1>t DEF Times
  <2> QED
    BY <2>1, <2>2
<1>2. /\ Materializing(w)' => run'[w].snap.gen > 0
      /\ run'[w].pc = "stage" => run'[w].cand > 0
  <2>1. CASE Throw(w)
    <3>1. run'[w].pc = "off"
      BY <2>1, <1>i, OffIsRun DEF Throw
    <3> QED
      BY <3>1 DEF Materializing, SnapshotSteps
  <2>2. CASE BeginSnapshot(w) /\ ~Throw(w)
    <3>1. PICK t \in run[w].queue :
             run' = [run EXCEPT ![w].pc = FirstStep(t, staged[t]), ![w].cur = t,
                                ![w].queue = @ \ {t}, ![w].snap = staged[t], ![w].todo = Tables]
      <4>1. Min(run[w].queue) \in run[w].queue
        BY <2>2, <1>i, LeastOf, StoreAssumption DEF BeginSnapshot, StoreAssumption, Runs
      <4> QED
        BY <2>2, <4>1 DEF BeginSnapshot
    <3>2. run'[w].snap = staged[t] /\ run'[w].pc = FirstStep(t, staged[t])
      BY <3>1, <1>i DEF Runs
    <3>3. t \in Traces /\ staged[t].hash # None
      BY <1>i DEF ImportInv, RunKnows, Runs
    <3> QED
      BY <3>2, <3>3, <1>t DEF Times, FirstStep
  <2>3. CASE FetchPage(w) /\ ~Throw(w)
    <3>1. run'[w].pc = "stage" /\ run'[w].cand = clock
      BY <2>3, <1>i DEF FetchPage, Runs
    <3> QED
      BY <3>1, <1>i DEF Materializing, SnapshotSteps
  <2>4. CASE Claim(w) \/ ((ClaimPending(w) \/ Discard(w) \/ PublishImport(w) \/ Stage(w) \/ FinishRun(w)) /\ ~Throw(w))
    <3>1. run'[w].pc \in {"claim", "next", "off"}
      <4>1. \/ run' = [run EXCEPT ![w] = Off] \/ run' = [run EXCEPT ![w] = Between(w)]
            \/ \E phase \in {"import", "recovery"} :
                  run' = [run EXCEPT ![w] = [Off EXCEPT !.pc = "claim", !.phase = phase]]
            \/ \E queue \in SUBSET Traces : run' = [run EXCEPT ![w].pc = "next", ![w].queue = queue]
        BY <2>4 DEF Claim, ClaimPending, Discard, PublishImport, Stage, FinishRun
      <4>2. Off.pc = "off" /\ Between(w).pc = "next"
        BY DEF Between, Off
      <4>3. ASSUME NEW phase, run' = [run EXCEPT ![w] = [Off EXCEPT !.pc = "claim", !.phase = phase]]
            PROVE  run'[w].pc = "claim"
        BY <4>3, <1>i DEF Off
      <4>4. ASSUME NEW queue, run' = [run EXCEPT ![w].pc = "next", ![w].queue = queue]
            PROVE  run'[w].pc = "next"
        BY <4>4, <1>i DEF Runs
      <4>5. CASE run' = [run EXCEPT ![w] = Off] \/ run' = [run EXCEPT ![w] = Between(w)]
        BY <4>2, <4>5, <1>i
      <4> QED
        BY <4>1, <4>3, <4>4, <4>5
    <3> QED
      BY <3>1 DEF Materializing, SnapshotSteps
  <2>5. CASE PublishScores(w) \/ \E table \in Tables :
               TombstoneExpired(w, table) \/ TombstoneTree(w, table) \/ InsertTree(w, table)
    <3>1. run'[w].snap = run[w].snap /\ Materializing(w) /\ run'[w].pc # "stage"
      <4>1. CASE PublishScores(w)
        BY <4>1, <1>i DEF PublishScores, Runs, Materializing, SnapshotSteps
      <4>2. ASSUME NEW table \in Tables, TombstoneExpired(w, table)
            PROVE  run'[w].snap = run[w].snap /\ Materializing(w) /\ run'[w].pc # "stage"
        BY <4>2, <1>i DEF TombstoneExpired, Runs, Materializing, SnapshotSteps
      <4>3. ASSUME NEW table \in Tables, TombstoneTree(w, table)
            PROVE  run'[w].snap = run[w].snap /\ Materializing(w) /\ run'[w].pc # "stage"
        BY <4>3, <1>i DEF TombstoneTree, Runs, Materializing, SnapshotSteps
      <4>4. ASSUME NEW table \in Tables, InsertTree(w, table)
            PROVE  run'[w].snap = run[w].snap /\ Materializing(w) /\ run'[w].pc # "stage"
        BY <4>4, <1>i DEF InsertTree, Runs, Materializing, SnapshotSteps
      <4> QED
        BY <2>5, <4>1, <4>2, <4>3, <4>4
    <3> QED
      BY <3>1, <1>t DEF Times
  <2> QED
    BY <2>1, <2>2, <2>3, <2>4, <2>5 DEF ImportStep, FailRun
<1>3. \A v \in Workers \ {w} : run'[v] = run[v]
  <2>1. CASE FailRun(w)
    BY <2>1, ThrowMoves DEF FailRun, Moved
  <2> QED
    BY <2>1, ClaimMoves, ClaimPendingMoves, BeginSnapshotMoves, RemovingMoves, DiscardMoves,
       PublishScoresMoves, PublishImportMoves, FetchPageMoves, StageMoves, FinishRunMoves
       DEF ImportStep, Moved
<1> QED
  BY <1>1, <1>2, <1>3, <1>t DEF Times, Materializing

LEMMA ImportRunTypes ==
    ASSUME TypeInv, FenceInv, FenceInv', ImportInv, ImportInv',
           NEW w \in Workers, Claim(w) \/ ImportStep(w) \/ FailRun(w),
           UNCHANGED <<ingestVars, retentionVars, readerVars>>
    PROVE  TypeInv'
<1>s. StoreTypeOK /\ ImportTypeOK
  BY DEF TypeInv, TypeOK
<1>i. /\ run \in [Workers -> Runs] /\ run' \in [Workers -> Runs]
      /\ run[w].snap.gen \in Nat
  BY DEF ImportInv, ImportShape, Runs, Snapshots
<1>u. UNCHANGED <<clock, refs, cutoff, exclusive>>
  BY DEF ImportStep, Claim, FailRun, ClaimPending, BeginSnapshot, TombstoneExpired, TombstoneTree, InsertTree,
         Discard, PublishScores, PublishImport, FetchPage, Stage, FinishRun, Throw, storeVars,
         TakeShared, DropShared
<1>c. Materializing(w) => run[w].cur \in Traces /\ run[w].snap.gen > 0
  BY DEF ImportInv, RunKnows, SnapshotKnown, TypeInv, Times
<1>1. mishaps' \in Nat
  BY <1>s, MishapsCount DEF ImportStep, Claim, FailRun, ClaimPending, BeginSnapshot, TombstoneExpired, TombstoneTree, InsertTree,
         Discard, PublishScores, PublishImport, FetchPage, Stage, FinishRun, StoreTypeOK
<1>2. DOMAIN rows' = Keys /\ \A k \in Keys : rows'[k].ver \in Nat /\ rows'[k].live \in BOOLEAN
  <2>1. CASE \E table \in Tables :
               TombstoneExpired(w, table) \/ TombstoneTree(w, table) \/ InsertTree(w, table)
    <3>1. Materializing(w)
      BY <2>1 DEF TombstoneExpired, TombstoneTree, InsertTree, Materializing, SnapshotSteps
    <3>2. /\ JustAfter(run[w].snap.gen) \in Nat /\ JustBefore(run[w].snap.gen) \in Nat
          /\ At(run[w].snap.gen) \in Nat
      BY <3>1, <1>c, <1>i DEF JustAfter, JustBefore, At
    <3>3. ASSUME NEW table \in Tables, TombstoneExpired(w, table)
          PROVE  DOMAIN rows' = Keys /\ \A k \in Keys : rows'[k].ver \in Nat /\ rows'[k].live \in BOOLEAN
      BY <3>2, <3>3, <1>s, TombstoneTypes DEF TombstoneExpired
    <3>4. ASSUME NEW table \in Tables, TombstoneTree(w, table)
          PROVE  DOMAIN rows' = Keys /\ \A k \in Keys : rows'[k].ver \in Nat /\ rows'[k].live \in BOOLEAN
      BY <3>2, <3>4, <1>s, TombstoneTypes DEF TombstoneTree
    <3>5. ASSUME NEW table \in Tables, InsertTree(w, table)
          PROVE  DOMAIN rows' = Keys /\ \A k \in Keys : rows'[k].ver \in Nat /\ rows'[k].live \in BOOLEAN
      BY <3>2, <3>5, <1>s, PutTypes DEF InsertTree
    <3> QED
      BY <2>1, <3>3, <3>4, <3>5
  <2>2. CASE ~\E table \in Tables :
               TombstoneExpired(w, table) \/ TombstoneTree(w, table) \/ InsertTree(w, table)
    <3>1. rows' = rows
      BY <2>2 DEF ImportStep, Claim, FailRun, ClaimPending, BeginSnapshot,
             Discard, PublishScores, PublishImport, FetchPage, Stage, FinishRun, Throw, storeVars
    <3> QED
      BY <3>1, <1>s DEF StoreTypeOK
  <2> QED
    BY <2>1, <2>2
<1>3. marked' \subseteq Traces
  <2>1. CASE \E table \in Tables : TombstoneExpired(w, table)
    <3>1. Materializing(w) /\ marked' = marked \cup {run[w].cur}
      BY <2>1 DEF TombstoneExpired, Materializing, SnapshotSteps
    <3> QED
      BY <3>1, <1>c, <1>s DEF StoreTypeOK
  <2>2. CASE ~\E table \in Tables : TombstoneExpired(w, table)
    <3>1. marked' = marked
      BY <2>2 DEF ImportStep, Claim, FailRun, ClaimPending, BeginSnapshot, TombstoneTree, InsertTree,
             Discard, PublishScores, PublishImport, FetchPage, Stage, FinishRun, Throw, storeVars
    <3> QED
      BY <3>1, <1>s DEF StoreTypeOK
  <2> QED
    BY <2>1, <2>2
<1>4. watermark' \in Nat /\ feed' \in [Traces -> [ver : 0 .. watermark', src : Nat]]
  <2>1. \/ UNCHANGED <<feed, watermark>>
        \/ Publish({run[w].cur}, run[w].snap.gen, run[w].snap.gen)
    BY DEF ImportStep, Claim, FailRun, ClaimPending, BeginSnapshot, TombstoneExpired, TombstoneTree, InsertTree,
         Discard, PublishScores, PublishImport, FetchPage, Stage, FinishRun, Throw, storeVars
  <2>2. CASE UNCHANGED <<feed, watermark>>
    BY <2>2, <1>s DEF StoreTypeOK
  <2> QED
    BY <2>1, <2>2, <1>s, <1>i, PublishTypes
<1>5. shared' \in {shared, shared \cup {w}, shared \ {w}}
  BY DEF ImportStep, Claim, FailRun, ClaimPending, BeginSnapshot, TombstoneExpired, TombstoneTree, InsertTree,
         Discard, PublishScores, PublishImport, FetchPage, Stage, FinishRun, Throw, storeVars,
         TakeShared, DropShared
<1>6. w \in shared' => Materializing(w)'
  <2>1. CASE Throw(w) \/ ((Discard(w) \/ PublishImport(w)) /\ ~Throw(w))
    BY <2>1 DEF Throw, Discard, PublishImport, DropShared
  <2>2. CASE BeginSnapshot(w) /\ ~Throw(w)
    <3>1. run'[w].pc \in {"expire", "tombstone", "scores"}
      BY <2>2, <1>i DEF BeginSnapshot, FirstStep, Runs
    <3> QED
      BY <3>1 DEF Materializing, SnapshotSteps
  <2>3. CASE Claim(w) \/ ((ClaimPending(w) \/ FetchPage(w) \/ Stage(w) \/ FinishRun(w)) /\ ~Throw(w))
    <3>1. shared' = shared /\ run[w].pc \in {"off", "claim", "next", "stage"}
      BY <2>3 DEF Claim, ClaimPending, FetchPage, Stage, FinishRun, Emptied, storeVars
    <3> QED
      BY <3>1, <1>s DEF ImportTypeOK, Materializing, SnapshotSteps
  <2>4. CASE PublishScores(w) \/ \E table \in Tables :
               TombstoneExpired(w, table) \/ TombstoneTree(w, table) \/ InsertTree(w, table)
    <3>1. CASE PublishScores(w)
      BY <3>1, <1>i DEF PublishScores, Runs, Materializing, SnapshotSteps
    <3>2. ASSUME NEW table \in Tables, TombstoneExpired(w, table) PROVE Materializing(w)'
      <4>1. /\ run[w].pc = "expire"
            /\ run' = [run EXCEPT ![w].todo = @ \ {table},
                                  ![w].pc = IF @ = "expire" /\ run[w].todo = {table}
                                              THEN "discard" ELSE @]
        BY <3>2 DEF TombstoneExpired
      <4>2. run[w] \in Runs /\ run[w].pc = "expire"
        BY <4>1, <1>i
      <4>3. run'[w].pc \in {"expire", "discard"}
        <5>1. CASE run[w].todo = {table}
          BY <4>1, <4>2, <5>1, <1>i DEF Runs
        <5>2. CASE run[w].todo # {table}
          BY <4>1, <4>2, <5>2, <1>i DEF Runs
        <5> QED
          BY <5>1, <5>2
      <4> QED
        BY <4>3 DEF Materializing, SnapshotSteps
    <3>3. ASSUME NEW table \in Tables, TombstoneTree(w, table) PROVE Materializing(w)'
      BY <3>3, <1>i DEF TombstoneTree, Runs, Materializing, SnapshotSteps
    <3>4. ASSUME NEW table \in Tables, InsertTree(w, table) PROVE Materializing(w)'
      BY <3>4, <1>i DEF InsertTree, Runs, Materializing, SnapshotSteps
    <3> QED
      BY <2>4, <3>1, <3>2, <3>3, <3>4
  <2> QED
    BY <2>1, <2>2, <2>3, <2>4 DEF ImportStep, FailRun
<1>7. StoreTypeOK'
  BY <1>s, <1>u, <1>1, <1>2, <1>3, <1>4, <1>5 DEF StoreTypeOK, FenceInv, FenceShape, FenceExcludes
<1>8. IngestTypeOK'
  <2>1. \A b \in Batches : b \in shared' <=> b \in shared
    <3>1. \A b \in Batches : b # w
      BY StoreAssumption DEF StoreAssumption
    <3> QED
      BY <3>1, <1>5
  <2> QED
    BY <2>1 DEF TypeInv, TypeOK, ingestVars, IngestTypeOK
<1>9. ImportTypeOK'
  <2>1. ASSUME NEW v \in Workers PROVE v \in shared' <=> Materializing(v)'
    <3>1. CASE v = w
      BY <3>1, <1>6 DEF FenceInv, FenceExcludes
    <3>2. CASE v # w
      <4>1. run'[v] = run[v]
        <5>1. CASE FailRun(w)
          BY <3>2, <5>1, ThrowMoves DEF FailRun, Moved
        <5> QED
          BY <3>2, <5>1, ClaimMoves, ClaimPendingMoves, BeginSnapshotMoves, RemovingMoves, DiscardMoves,
             PublishScoresMoves, PublishImportMoves, FetchPageMoves, StageMoves, FinishRunMoves
             DEF ImportStep, Moved
      <4> QED
        BY <3>2, <4>1, <1>5, <1>s DEF ImportTypeOK, Materializing
    <3> QED
      BY <3>1, <3>2
  <2>2. \A v \in Workers : run'[v].pc \in RunSteps /\ run'[v].queue \subseteq Traces
    BY <1>i DEF Runs
  <2> QED
    BY <2>1, <2>2 DEF ImportInv, ImportShape, ImportTypeOK, Snapshots
<1> QED
  BY <1>7, <1>8, <1>9, <1>u, ImportTimes, RestTypes DEF TypeInv, TypeOK

LEMMA ImportTypes ==
    ASSUME TypeInv, FenceInv, FenceInv', ImportInv, ImportInv', ImportNext,
           UNCHANGED <<ingestVars, retentionVars, readerVars>>
    PROVE  TypeInv'
<1>1. CASE LeaseExpires \/ \E t \in Traces : ProviderEdit(t)
  <2>1. UNCHANGED <<storeVars, run>> /\ mishaps' \in Nat
    BY <1>1, MishapsCount DEF LeaseExpires, ProviderEdit, TypeInv, TypeOK, StoreTypeOK
  <2>2. StoreTypeOK' /\ Times'
    BY <2>1 DEF TypeInv, TypeOK, StoreTypeOK, Times, Materializing, storeVars
  <2>3. ImportTypeOK'
    BY <2>1 DEF TypeInv, TypeOK, ImportTypeOK, ImportInv, ImportShape, Materializing, Snapshots, storeVars
  <2> QED
    BY <2>1, <2>2, <2>3, RestTypes DEF TypeInv, TypeOK, storeVars
<1> QED
  BY <1>1, ImportRunTypes DEF ImportNext

\* The request in progress, whatever the store it reads.
LEMMA RequestTypes ==
    ASSUME TypeInv, UNCHANGED <<storeVars, mishaps, ingestVars, retentionVars, importVars>>,
           ReadersTypeOK', Requests'
    PROVE  TypeInv'
<1>1. StoreTypeOK'
  BY DEF TypeInv, TypeOK, StoreTypeOK, storeVars
<1>2. UNCHANGED <<shared, exclusive, staged>>
  BY DEF storeVars
<1> QED
  BY <1>1, <1>2, RestTypes DEF TypeInv, TypeOK

Entries == LiveEntries \cup ScanEntries

LEMMA EntryOf ==
    ASSUME NEW page \in Seq(Entries), NEW i \in DOMAIN page
    PROVE  page[i] \in Entries /\ page[i].trace \in Traces
<1>1. page[i] \in Entries
  OBVIOUS
<1>2. \A e \in Entries : e.trace \in Traces
  BY DEF Entries, LiveEntries, ScanEntries
<1> QED
  BY <1>1, <1>2

LEMMA RestOf ==
    ASSUME NEW page \in Seq(Entries), Len(page) >= 2
    PROVE  Tail(page) \in Seq(Entries) /\ Len(Tail(page)) = Len(page) - 1
<1>1. page # <<>>
  OBVIOUS
<1> QED
  BY <1>1

\* A request that reads on, or is over.
LEMMA PollTypes ==
    ASSUME TypeInv, FeedReader,
           cursor' = [kind |-> cursor'.kind, at |-> cursor'.at, through |-> cursor'.through],
           cursor'.kind \in {"new", "bootstrap", "live"},
           poll' = Polls',
           poll'.pc \in {"idle", "guards", "pubs", "read", "walk", "guards after", "again", "guards final"},
           poll'.page \in Seq(Entries), Len(poll'.page) <= Limit + 1,
           poll'.pc \notin {"idle", "guards", "pubs"} => Len(poll'.page) >= 1,
           poll'.pending \subseteq Traces
    PROVE  ReadersTypeOK' /\ Requests'
<1>1. UNCHANGED <<consumer, detail>>
  BY DEF FeedReader
<1>2. Requests'
  BY <1>1 DEF TypeInv, Requests, Details, Entries
<1>3. \A i \in DOMAIN poll'.page : poll'.page[i].trace \in Traces
  BY EntryOf
<1> QED
  BY <1>1, <1>2, <1>3 DEF TypeInv, TypeOK, ReadersTypeOK

LEMMA OverTypes ==
    ASSUME TypeInv, FeedReader, poll' = Unread,
           cursor' = [kind |-> cursor'.kind, at |-> cursor'.at, through |-> cursor'.through],
           cursor'.kind \in {"new", "bootstrap", "live"}
    PROVE  ReadersTypeOK' /\ Requests'
<1>1. poll' = Polls' /\ poll'.pc = "idle" /\ poll'.page = <<>> /\ poll'.pending = {}
  BY DEF Unread, Polls
<1>2. <<>> \in Seq(Entries) /\ Len(<<>>) <= Limit + 1
  BY ReaderAssumption DEF ReaderAssumption
<1> QED
  BY <1>1, <1>2, PollTypes

LEMMA ReadPage ==
    ASSUME TypeInv
    PROVE  /\ cursor = [kind |-> cursor.kind, at |-> cursor.at, through |-> cursor.through]
           /\ cursor.kind \in {"new", "bootstrap", "live"}
           /\ poll = Polls /\ poll.page \in Seq(Entries) /\ poll.pending \in SUBSET Traces
           /\ Len(poll.page) \in Nat /\ Len(poll.page) <= Limit + 1
           /\ PageTraces \subseteq Traces
           /\ poll.pc \notin {"idle", "guards", "pubs"} => Len(poll.page) >= 1 /\ Entry.trace \in Traces
<1>1. /\ cursor = [kind |-> cursor.kind, at |-> cursor.at, through |-> cursor.through]
      /\ cursor.kind \in {"new", "bootstrap", "live"}
      /\ poll = Polls /\ poll.page \in Seq(Entries) /\ poll.pending \in SUBSET Traces
      /\ Len(poll.page) <= Limit + 1
      /\ poll.pc \notin {"idle", "guards", "pubs"} => Len(poll.page) >= 1
      /\ \A i \in DOMAIN poll.page : poll.page[i].trace \in Traces
  BY DEF TypeInv, TypeOK, ReadersTypeOK, Requests, Entries
<1>2. Len(poll.page) \in Nat /\ DOMAIN poll.page = 1 .. Len(poll.page)
  BY <1>1
<1>3. Len(poll.page) >= 1 => Entry = poll.page[1] /\ 1 \in DOMAIN poll.page
  BY <1>1, <1>2 DEF Entry
<1> QED
  BY <1>1, <1>2, <1>3 DEF PageTraces

\* The cursor moves, and keeps its kind.
LEMMA CursorAt ==
    ASSUME TypeInv, NEW at, cursor' = [cursor EXCEPT !.at = at]
    PROVE  /\ cursor' = [kind |-> cursor'.kind, at |-> cursor'.at, through |-> cursor'.through]
           /\ cursor'.kind \in {"new", "bootstrap", "live"}
<1>1. PICK kind, a, through :
         cursor = [kind |-> kind, at |-> a, through |-> through] /\ kind \in {"new", "bootstrap", "live"}
  BY ReadPage
<1>2. cursor' = [kind |-> kind, at |-> at, through |-> through]
  BY <1>1
<1>3. cursor'.kind = kind /\ cursor'.at = at /\ cursor'.through = through
  BY <1>2
<1> QED
  BY <1>1, <1>2, <1>3

LEMMA ConsumeTypes ==
    ASSUME TypeInv, FeedReader, NEW shows, Consume(shows),
           poll.pc \notin {"idle", "guards", "pubs"}
    PROVE  ReadersTypeOK' /\ Requests'
<1>1. PICK shown : poll' = IF Len(poll.page) = 1 \/ shown >= Limit THEN Unread
                   ELSE [poll EXCEPT !.pc = "walk", !.page = Tail(@), !.shown = shown, !.got = {}]
  BY DEF Consume
<1>2. cursor' = [cursor EXCEPT !.at = Position(Entry)]
  BY DEF Consume
<1>3. CASE poll' = Unread
  BY <1>2, <1>3, CursorAt, OverTypes
<1>4. CASE Len(poll.page) # 1
           /\ poll' = [poll EXCEPT !.pc = "walk", !.page = Tail(@), !.shown = shown, !.got = {}]
  <2>1. PICK page \in Seq(Entries), pending \in SUBSET Traces :
           /\ page = poll.page /\ pending = poll.pending
           /\ Len(page) \in Nat /\ Len(page) >= 1 /\ Len(page) <= Limit + 1
    BY ReadPage
  <2>2. poll' = [pc |-> "walk", page |-> Tail(page), settled |-> poll.settled, shown |-> shown,
                 got |-> {}, pending |-> pending, version |-> poll.version]
    BY <1>4, <2>1, ReadPage DEF Polls
  <2>3. poll' = Polls' /\ poll'.pc = "walk" /\ poll'.page = Tail(page) /\ poll'.pending = pending
    BY <2>2 DEF Polls
  <2>4. Tail(page) \in Seq(Entries) /\ Len(Tail(page)) = Len(page) - 1 /\ Len(page) >= 2
    <3>1. Len(page) # 1
      BY <1>4, <2>1
    <3>2. Len(page) >= 2
      <4>1. PICK m \in Nat : m = Len(page) /\ m >= 1 /\ m # 1
        BY <2>1, <3>1
      <4> QED
        BY <4>1
    <3> QED
      BY <3>2, RestOf
  <2>5. Len(Tail(page)) >= 1 /\ Len(Tail(page)) <= Limit + 1
    BY <2>1, <2>4, ReaderAssumption DEF ReaderAssumption
  <2> QED
    BY <1>2, <2>1, <2>3, <2>4, <2>5, CursorAt, PollTypes
<1> QED
  BY <1>1, <1>3, <1>4

LEMMA DecideTypes ==
    ASSUME TypeInv, FeedReader, poll.pc \notin {"idle", "guards", "pubs"},
           Blocked \/ \E version : Decide(version)
    PROVE  ReadersTypeOK' /\ Requests'
<1>1. CASE Blocked
  BY <1>1, ReadPage, OverTypes DEF Blocked
<1>2. CASE \E shows : Consume(shows)
  BY <1>2, ConsumeTypes
<1> QED
  BY <1>1, <1>2 DEF Decide

\* Of the request, only the step and what it found changes.
LEMMA KeepTypes ==
    ASSUME TypeInv, FeedReader, cursor' = cursor, poll' = Polls', poll'.page = poll.page,
           poll'.pc \in {"guards", "pubs", "read", "walk", "guards after", "again", "guards final"},
           poll'.pc \notin {"guards", "pubs"} => poll.pc \notin {"idle", "guards", "pubs"},
           poll'.pending \subseteq Traces
    PROVE  ReadersTypeOK' /\ Requests'
<1>1. poll'.pc \notin {"idle", "guards", "pubs"} => Len(poll'.page) >= 1
  BY ReadPage
<1> QED
  BY <1>1, ReadPage, PollTypes

\* A page of at most one entry of a trace.
LEMMA PageTypes ==
    ASSUME NEW S \in SUBSET Entries, \A e, f \in S : e.trace = f.trace => e = f
    PROVE  /\ PageOf(S) \in Seq(Entries) /\ Len(PageOf(S)) <= Limit + 1
           /\ S # {} => Len(PageOf(S)) >= 1
<1>1. \A e \in S : e.trace \in Traces /\ e.ver \in Int
  BY DEF Entries, LiveEntries, ScanEntries
<1>2. Pageable(S)
  BY <1>1, EntriesPage
<1>3. PageOf(S) \in Seq(S) /\ Len(PageOf(S)) <= Limit + 1 /\ (S # {} => Len(PageOf(S)) >= 1)
  BY <1>2, PageOfIs
<1> QED
  BY <1>3

LEMMA ScanCursorIs ==
    ASSUME NEW page, NEW n, NEW hasMore, NEW stop
    PROVE  LET c == ScanCursor(page, n, hasMore, stop)
           IN  c = cursor \/ c = LiveCursor \/ \E at : c = [cursor EXCEPT !.at = at]
<1>1. CASE (hasMore \/ stop) /\ n > 0
  <2>1. ScanCursor(page, n, hasMore, stop) = [cursor EXCEPT !.at = Position(page[n])]
    BY <1>1 DEF ScanCursor
  <2> QED
    BY <2>1
<1>2. CASE ~((hasMore \/ stop) /\ n > 0) /\ stop /\ n = 0
  BY <1>2 DEF ScanCursor
<1>3. CASE /\ ~((hasMore \/ stop) /\ n > 0) /\ ~(stop /\ n = 0)
           /\ ~stop /\ ~hasMore /\ poll.settled < cursor.through
  <2>1. PICK at : at = IF n > 0 THEN Position(page[n]) ELSE <<poll.settled, LastTrace>>
    OBVIOUS
  <2>2. ScanCursor(page, n, hasMore, stop) = [cursor EXCEPT !.at = at]
    BY <1>3, <2>1 DEF ScanCursor
  <2> QED
    BY <2>2
<1>4. CASE /\ ~((hasMore \/ stop) /\ n > 0) /\ ~(stop /\ n = 0)
           /\ ~(~stop /\ ~hasMore /\ poll.settled < cursor.through)
  BY <1>4 DEF ScanCursor
<1> QED
  BY <1>1, <1>2, <1>3, <1>4

LEMMA ScanTypes ==
    ASSUME TypeInv, ListSettled \/ RespondScan \/ \E read \in Guards : ReadScanGuard(read)
    PROVE  ReadersTypeOK' /\ Requests'
<1>f. FeedReader
  BY DEF ListSettled, RespondScan, ReadScanGuard
<1>1. CASE ListSettled
  <2> DEFINE to == WindowTo(cursor')
             found == {[trace |-> t, ver |-> TraceVersion(t)] :
                          t \in {u \in Traces : Visible(u) /\ TraceVersion(u) <= to}}
             S == {e \in found : Before(cursor'.at, Position(e))}
  <2>1. poll' = [Unread EXCEPT !.pc = "guards", !.settled = to, !.page = PageOf(S)]
        /\ cursor' = Bootstrap
    BY <1>1 DEF ListSettled
  <2>2. \A t \in Traces : TraceVersion(t) \in Nat
    <3>1. \A k \in Keys : rows[k].ver \in Nat
      BY DEF TypeInv, TypeOK, StoreTypeOK
    <3> QED
      BY <3>1, VersionIsNumber
  <2>3. S \in SUBSET ScanEntries /\ \A e, f \in S : e.trace = f.trace => e = f
    <3>1. \A e \in S : e.trace \in Traces /\ e = [trace |-> e.trace, ver |-> TraceVersion(e.trace)]
      OBVIOUS
    <3> HIDE DEF S
    <3> QED
      BY <3>1, <2>2 DEF ScanEntries
  <2> HIDE DEF S, to
  <2>4. S \in SUBSET Entries
    BY <2>3 DEF Entries
  <2>5. PageOf(S) \in Seq(Entries) /\ Len(PageOf(S)) <= Limit + 1
    BY <2>3, <2>4, PageTypes
  <2>6. poll' = [pc |-> "guards", page |-> PageOf(S), settled |-> to, shown |-> 0, got |-> {},
                 pending |-> {}, version |-> [t \in Traces |-> 0]]
    BY <2>1 DEF Unread
  <2>7. /\ cursor' = [kind |-> cursor'.kind, at |-> cursor'.at, through |-> cursor'.through]
        /\ cursor'.kind \in {"new", "bootstrap", "live"}
    BY <2>1, ReadPage DEF Bootstrap
  <2>8. poll' = Polls' /\ poll'.pc = "guards" /\ poll'.page = PageOf(S) /\ poll'.pending = {}
    BY <2>6 DEF Polls
  <2> QED
    BY <1>f, <2>5, <2>7, <2>8, PollTypes
<1>2. ASSUME NEW read \in Guards, ReadScanGuard(read) PROVE ReadersTypeOK' /\ Requests'
  <2>1. PICK pc, pending, got :
           /\ poll' = [poll EXCEPT !.pending = pending, !.got = got, !.pc = pc]
           /\ pc \in {"guards", "pubs"} /\ pending \in SUBSET Traces
    <3>1. Held(read, PageTraces) \in SUBSET Traces
      BY ReadPage DEF Held
    <3>2. poll.pending \cup Held(read, PageTraces) \in SUBSET Traces
      BY <3>1, ReadPage
    <3>3. poll.pc = "guards" /\ poll' = [poll EXCEPT !.pending = poll.pending \cup Held(read, PageTraces),
             !.got = poll.got \cup {read},
             !.pc = IF Guards \subseteq poll.got \cup {read} THEN "pubs" ELSE poll.pc]
      BY <1>2 DEF ReadScanGuard
    <3> QED
      BY <3>2, <3>3
  <2>2. poll' = Polls' /\ poll'.pc = pc /\ poll'.page = poll.page /\ poll'.pending = pending
    <3>1. poll' = [pc |-> pc, page |-> poll.page, settled |-> poll.settled, shown |-> poll.shown,
                   got |-> got, pending |-> pending, version |-> poll.version]
      BY <2>1, ReadPage DEF Polls
    <3> QED
      BY <3>1 DEF Polls
  <2>3. cursor' = cursor
    BY <1>2 DEF ReadScanGuard
  <2> QED
    BY <1>f, <2>1, <2>2, <2>3, KeepTypes
<1>3. CASE RespondScan
  <2> DEFINE page == SubSeq(poll.page, 1, Min({Limit, Len(poll.page)}))
             stopped == {i \in DOMAIN page : Stops(page[i])}
             n == IF stopped = {} THEN Len(page) ELSE Min(stopped) - 1
             hasMore == Len(poll.page) > Limit
             stop == stopped # {}
  <2>1. cursor' = ScanCursor(page, n, hasMore, stop)
    BY <1>3 DEF RespondScan
  <2> HIDE DEF page, stopped, n, hasMore, stop
  <2>2. cursor' = cursor \/ cursor' = LiveCursor \/ \E at : cursor' = [cursor EXCEPT !.at = at]
    BY <2>1, ScanCursorIs
  <2>3. /\ cursor' = [kind |-> cursor'.kind, at |-> cursor'.at, through |-> cursor'.through]
        /\ cursor'.kind \in {"new", "bootstrap", "live"}
    <3>1. CASE cursor' = cursor
      BY <3>1, ReadPage
    <3>2. CASE cursor' = LiveCursor
      BY <3>2 DEF LiveCursor
    <3> QED
      BY <2>2, <3>1, <3>2, CursorAt
  <2> QED
    BY <1>f, <1>3, <2>3, OverTypes DEF RespondScan
<1> QED
  BY <1>1, <1>2, <1>3

LEMMA LiveTypes ==
    ASSUME TypeInv, ListLive \/ Walk \/ ReadTraceAgain
                    \/ (\E read \in Guards : ReadGuardAgain(read))
                    \/ \E read \in Guards \cup {"trace"} : ReadLive(read)
    PROVE  ReadersTypeOK' /\ Requests'
<1>f. FeedReader
  BY DEF ListLive, Walk, ReadTraceAgain, ReadGuardAgain, ReadLive
<1>1. CASE ListLive
  <2> DEFINE S == {[trace |-> t, ver |-> feed[t].ver, src |-> feed[t].src,
                    fresh |-> feed[t].src > SettledBefore] : t \in Ahead}
  <2>1. poll' = [Unread EXCEPT !.pc = "read", !.page = PageOf(S)] /\ cursor' = cursor /\ Ahead # {}
    BY <1>1 DEF ListLive
  <2>2. S \in SUBSET LiveEntries /\ (\A e, f \in S : e.trace = f.trace => e = f) /\ S # {}
    <3>1. \A t \in Ahead : t \in Traces /\ feed[t].ver \in Nat /\ feed[t].src \in Nat
      <4>1. feed \in [Traces -> [ver : 0 .. watermark, src : Nat]] /\ watermark \in Nat
        BY DEF TypeInv, TypeOK, StoreTypeOK
      <4> QED
        BY <4>1 DEF Ahead
    <3>2. \A e \in S : \E t \in Ahead :
             e = [trace |-> t, ver |-> feed[t].ver, src |-> feed[t].src, fresh |-> feed[t].src > SettledBefore]
      OBVIOUS
    <3>3. S # {}
      BY <2>1
    <3> HIDE DEF S
    <3>4. ASSUME NEW e \in S PROVE e \in LiveEntries /\ e.trace \in Ahead
                                  /\ e = [trace |-> e.trace, ver |-> feed[e.trace].ver, src |-> feed[e.trace].src,
                                          fresh |-> feed[e.trace].src > SettledBefore]
      <4>1. PICK t \in Ahead : e = [trace |-> t, ver |-> feed[t].ver, src |-> feed[t].src,
                                   fresh |-> feed[t].src > SettledBefore]
        BY <3>2
      <4>2. (feed[t].src > SettledBefore) \in BOOLEAN
        OBVIOUS
      <4>3. e.trace = t
        BY <4>1
      <4> QED
        BY <3>1, <4>1, <4>2, <4>3 DEF LiveEntries
    <3> QED
      BY <3>3, <3>4
  <2> HIDE DEF S
  <2>3. S \in SUBSET Entries
    BY <2>2 DEF Entries
  <2>4. PageOf(S) \in Seq(Entries) /\ Len(PageOf(S)) <= Limit + 1 /\ Len(PageOf(S)) >= 1
    BY <2>2, <2>3, PageTypes
  <2>5. poll' = [pc |-> "read", page |-> PageOf(S), settled |-> 0, shown |-> 0, got |-> {},
                 pending |-> {}, version |-> [t \in Traces |-> 0]]
    BY <2>1 DEF Unread
  <2>6. poll' = Polls' /\ poll'.pc = "read" /\ poll'.page = PageOf(S) /\ poll'.pending = {}
    BY <2>5 DEF Polls
  <2> QED
    BY <1>f, <2>1, <2>4, <2>6, ReadPage, PollTypes
<1>2. ASSUME NEW read \in Guards \cup {"trace"}, ReadLive(read) PROVE ReadersTypeOK' /\ Requests'
  <2>1. PICK pc, pending, got, version :
           /\ poll' = [poll EXCEPT !.got = got, !.pending = pending, !.version = version, !.pc = pc]
           /\ pc \in {"read", "walk"} /\ pending \in SUBSET Traces
    <3>1. Held(read, PageTraces) \in SUBSET Traces
      BY ReadPage DEF Held
    <3>2. poll.pending \cup Held(read, PageTraces) \in SUBSET Traces
      BY <3>1, ReadPage
    <3>3. poll.pc = "read" /\ poll' = [poll EXCEPT !.got = poll.got \cup {read},
             !.pending = poll.pending \cup Held(read, PageTraces),
             !.version = IF read = "trace" THEN [t \in Traces |-> TraceVersion(t)] ELSE poll.version,
             !.pc = IF Guards \cup {"trace"} = poll.got \cup {read} THEN "walk" ELSE poll.pc]
      BY <1>2 DEF ReadLive
    <3> QED
      BY <3>2, <3>3
  <2>2. poll' = Polls' /\ poll'.pc = pc /\ poll'.page = poll.page /\ poll'.pending = pending
    <3>1. poll' = [pc |-> pc, page |-> poll.page, settled |-> poll.settled, shown |-> poll.shown,
                   got |-> got, pending |-> pending, version |-> version]
      BY <2>1, ReadPage DEF Polls
    <3> QED
      BY <3>1 DEF Polls
  <2>3. cursor' = cursor /\ poll.pc = "read"
    BY <1>2 DEF ReadLive
  <2> QED
    BY <1>f, <2>1, <2>2, <2>3, KeepTypes
<1>3. CASE Walk
  <2>1. poll.pc = "walk"
    BY <1>3 DEF Walk
  <2>2. CASE Blocked \/ \E version : Decide(version)
    BY <1>f, <2>1, <2>2, DecideTypes
  <2>3. CASE poll' = [poll EXCEPT !.pc = "guards after", !.got = {}] /\ cursor' = cursor
    <3>1. /\ poll' = Polls' /\ poll'.pc = "guards after" /\ poll'.page = poll.page
          /\ poll'.pending = poll.pending
      BY <2>3, ReadPage DEF Polls
    <3> QED
      BY <1>f, <2>1, <2>3, <3>1, ReadPage, KeepTypes
  <2> QED
    BY <1>3, <2>2, <2>3 DEF Walk
<1>4. CASE ReadTraceAgain
  <2>1. PICK version : poll' = [poll EXCEPT !.pc = "guards final", !.version = version]
    <3>1. poll' = [poll EXCEPT !.pc = "guards final", !.version[Entry.trace] = TraceVersion(Entry.trace)]
      BY <1>4 DEF ReadTraceAgain
    <3>2. poll' = [poll EXCEPT !.pc = "guards final",
                               !.version = [poll.version EXCEPT ![Entry.trace] = TraceVersion(Entry.trace)]]
      BY <3>1
    <3> QED
      BY <3>2
  <2>2. /\ poll' = Polls' /\ poll'.pc = "guards final" /\ poll'.page = poll.page
        /\ poll'.pending = poll.pending
    BY <2>1, ReadPage DEF Polls
  <2>3. poll.pc = "again" /\ cursor' = cursor
    BY <1>4 DEF ReadTraceAgain
  <2> QED
    BY <1>f, <2>2, <2>3, ReadPage, KeepTypes
<1>5. ASSUME NEW read \in Guards, ReadGuardAgain(read) PROVE ReadersTypeOK' /\ Requests'
  <2>1. poll.pc \in {"guards after", "guards final"}
    BY <1>5 DEF ReadGuardAgain
  <2>2. CASE Blocked \/ \E version : Decide(version)
    BY <1>f, <2>1, <2>2, DecideTypes
  <2>3. CASE ~(Blocked \/ \E version : Decide(version))
    <3> DEFINE got == poll.got \cup {read}
               pending == poll.pending \cup Held(read, {Entry.trace})
    <3>1. /\ cursor' = cursor
          /\ \/ poll' = [poll EXCEPT !.got = got, !.pending = pending]
             \/ poll' = [poll EXCEPT !.pc = "again", !.got = {}]
      BY <1>5, <2>3 DEF ReadGuardAgain
    <3>2. pending \in SUBSET Traces
      BY <2>1, ReadPage DEF Held
    <3> HIDE DEF got, pending
    <3>3. CASE poll' = [poll EXCEPT !.got = got, !.pending = pending]
      <4>1. poll' = Polls' /\ poll'.pc = poll.pc /\ poll'.page = poll.page /\ poll'.pending = pending
        BY <3>3, ReadPage DEF Polls
      <4> QED
        BY <1>f, <2>1, <3>1, <3>2, <4>1, KeepTypes
    <3>4. CASE poll' = [poll EXCEPT !.pc = "again", !.got = {}]
      <4>1. /\ poll' = Polls' /\ poll'.pc = "again" /\ poll'.page = poll.page
            /\ poll'.pending = poll.pending
        BY <3>4, ReadPage DEF Polls
      <4> QED
        BY <1>f, <2>1, <3>1, <4>1, ReadPage, KeepTypes
    <3> QED
      BY <3>1, <3>3, <3>4
  <2> QED
    BY <2>2, <2>3
<1> QED
  BY <1>1, <1>2, <1>3, <1>4, <1>5

LEMMA DetailTypes ==
    ASSUME TypeInv, ReadBefore \/ ReadObservations \/ ReadAfter \/ Respond
                    \/ (\E read \in Guards : ReadDetailGuard(read) \/ ReadGuardAfter(read))
                    \/ \E t \in Traces : AskDetail(t)
    PROVE  ReadersTypeOK' /\ Requests'
<1>1. UNCHANGED <<consumer, cursor, poll>>
  BY DEF ReadBefore, ReadObservations, ReadAfter, Respond, ReadDetailGuard, ReadGuardAfter, AskDetail,
         DetailReader
<1>2. detail = Details /\ detail.trace \in Traces \cup {0}
      /\ detail.pc \in {"idle", "guards", "before", "observations", "after", "guards after", "publication"}
  BY DEF TypeInv, TypeOK, ReadersTypeOK, Requests
<1> DEFINE Fine ==
             /\ detail' = Details' /\ detail'.trace \in Traces \cup {0}
             /\ detail'.pc \in {"idle", "guards", "before", "observations", "after", "guards after",
                                "publication"}
<1>3. Fine
  <2>1. CASE detail' = NoDetail
    BY <2>1 DEF NoDetail, Details
  <2>2. CASE detail' # NoDetail
    <3>1. CASE ReadBefore
      BY <2>2, <3>1, <1>2 DEF ReadBefore, Refuse, Details
    <3>2. CASE ReadObservations
      BY <3>2, <1>2 DEF ReadObservations, Details
    <3>3. CASE ReadAfter
      BY <2>2, <3>3, <1>2 DEF ReadAfter, Refuse, Details
    <3>4. CASE Respond
      BY <2>2, <3>4 DEF Respond
    <3>5. ASSUME NEW read \in Guards, ReadDetailGuard(read) PROVE Fine
      BY <2>2, <3>5, <1>2 DEF ReadDetailGuard, Refuse, Details
    <3>6. ASSUME NEW read \in Guards, ReadGuardAfter(read) PROVE Fine
      BY <2>2, <3>6, <1>2 DEF ReadGuardAfter, Refuse, Details
    <3>7. ASSUME NEW t \in Traces, AskDetail(t) PROVE Fine
      BY <3>7 DEF AskDetail, NoDetail, Details
    <3> QED
      BY <3>1, <3>2, <3>3, <3>4, <3>5, <3>6, <3>7
  <2> QED
    BY <2>1, <2>2
<1> QED
  BY <1>1, <1>3 DEF TypeInv, TypeOK, ReadersTypeOK, Requests, Polls

LEMMA NextTypes == TypeInv /\ FenceInv /\ FenceInv' /\ ImportInv /\ ImportInv' /\ [Next]_vars => TypeInv'
<1> SUFFICES ASSUME TypeInv, FenceInv, FenceInv', ImportInv, ImportInv', [Next]_vars PROVE TypeInv'
  OBVIOUS
<1>1. CASE UNCHANGED vars
  BY <1>1, RequestTypes, RestTypes DEF vars
<1>2. CASE ClockTicks
  <2>1. clock' \in 1 .. MaxClock /\ UNCHANGED <<shared, exclusive, staged>>
    BY <1>2, StoreAssumption DEF ClockTicks, Tick, TypeInv, TypeOK, StoreTypeOK, StoreAssumption
  <2>2. StoreTypeOK'
    BY <1>2, <2>1 DEF ClockTicks, TypeInv, TypeOK, StoreTypeOK
  <2> QED
    BY <1>2, <2>1, <2>2, RestTypes DEF ClockTicks, TypeInv, TypeOK
<1>3. CASE ReadersNext /\ UNCHANGED <<ingestVars, retentionVars, importVars>>
  <2>1. UNCHANGED <<storeVars, mishaps>>
    BY <1>3 DEF ReadersNext, ListSettled, RespondScan, ListLive, Walk, ReadTraceAgain, ReadScanGuard,
       ReadGuardAgain, ReadDetailGuard, ReadGuardAfter, ReadLive, AskDetail, ReadBefore,
       ReadObservations, ReadAfter, Respond, FeedReader, DetailReader
  <2>2. ReadersTypeOK' /\ Requests'
    BY <1>3, ScanTypes, LiveTypes, DetailTypes DEF ReadersNext
  <2> QED
    BY <1>3, <2>1, <2>2, RequestTypes
<1> QED
  BY <1>1, <1>2, <1>3, IngestTypes, RetentionTypes, ImportTypes DEF Next, Step

\* Every variable keeps its type while all writers and readers are at work,
\* and holds the fence exactly who is between taking and giving it back.
THEOREM EvaluatorTypesHold == Spec => []TypeOK
<1>1. TypeInv => TypeOK
  BY DEF TypeInv
<1>2. FenceInv /\ ImportInv /\ TypeInv /\ [Next]_vars => FenceInv' /\ ImportInv' /\ TypeInv'
  BY FenceStep, NextImportInv, NextTypes
<1> QED
  BY <1>1, <1>2, FenceInit, InitImportInv, InitTypes, PTL DEF Spec
=============================================================================
