--------------------------- MODULE RecoveryCursor ---------------------------
(***************************************************************************)
(* The recovery loop's bounded passes over the pending prefix.  A pass     *)
(* reads the stored cursor, lists the intents after it, reconciles at most *)
(* BatchSize of them in key order and stores how far it came; a cycle ends *)
(* when the suffix is empty or starts with an intent accepted after the    *)
(* cycle began.  Worker replicas run passes concurrently and share the     *)
(* cursor object.                                                          *)
(*                                                                         *)
(*   apps/worker/src/recovery/pending-ingest-reconciler.ts  run, readCursor*)
(*   apps/worker/src/recovery/recovery-loop.ts              tick           *)
(*                                                                         *)
(* Intents 1..OldKeys are old enough for every cycle, in the order of      *)
(* their batch ulids.  LatestKey stands for the newest intent of a stream  *)
(* that never ends: whenever it is gone another one, accepted now, may     *)
(* take its place.                                                         *)
(* What reconciling an intent does is IngestRecovery.tla's; here it leaves *)
(* the intent (its job is alive) or removes it.                            *)
(***************************************************************************)
EXTENDS Integers, FiniteSets

CONSTANTS
    OldKeys,    \* how many old intents
    BatchSize,  \* batchSize: intents examined in one pass
    Recons,     \* one recovery loop per worker replica
    Stored      \* names the cycle in the cursor object

ASSUME CursorAssumption ==
    /\ OldKeys \in Nat \ {0} /\ BatchSize \in Nat \ {0}
    /\ Stored \notin Recons

Old  == 1..OldKeys
LatestKey == OldKeys + 1
Keys == Old \cup {LatestKey}
Gone == LatestKey + 1  \* a listed tail that was deleted before it was read

VARIABLES
    pending,  \* the intents under the pending prefix
    cursor,   \* PENDING_INGEST_CURSOR_KEY: `after`, 0 when there is none
    outdated, \* cycles that began before the tail's intent was accepted
    pc,       \* where each pass stands
    after,    \* cursor.after, then lastExamined, of each pass
    page,     \* the keys the pass listed and has not reached
    count,    \* result.examined
    owed      \* history: old intents a cycle has yet to examine

passVars == <<pc, after, page, count>>
vars     == <<pending, cursor, outdated, passVars, owed>>
Cycles   == Recons \cup {Stored}

TypeOK ==
    /\ pending \subseteq Keys
    /\ cursor \in 0..LatestKey
    /\ outdated \subseteq Cycles
    /\ pc \in [Recons -> {"idle", "list", "next", "wrap", "save"}]
    /\ after \in [Recons -> 0..LatestKey]
    /\ page \in [Recons -> SUBSET (Keys \cup {Gone})]
    /\ count \in [Recons -> 0..BatchSize]
    /\ owed \in [Cycles -> SUBSET Old]

Init ==
    /\ pending \in SUBSET Keys
    /\ cursor = 0 /\ outdated = {}
    /\ pc = [c \in Recons |-> "idle"]
    /\ after = [c \in Recons |-> 0]
    /\ page = [c \in Recons |-> {}]
    /\ count = [c \in Recons |-> 0]
    /\ owed = [x \in Cycles |-> {}]

-----------------------------------------------------------------------------
(* The API and the ingest workers.                                         *)

\* The cycles in progress.
Begun == {x \in Cycles : IF x = Stored THEN cursor # 0 ELSE pc[x] # "idle"}

\* A new intent, later than every cycle in progress; or an old one whose
\* request was slow to store it, or stores it again.
Arrive(k) ==
    /\ k \notin pending
    /\ pending' = pending \cup {k}
    /\ outdated' = IF k = LatestKey THEN Begun ELSE outdated
    /\ UNCHANGED <<cursor, passVars, owed>>

\* A worker finishes the batch and deletes its intent.  A pass that listed
\* the tail reads a key that is gone, whatever the next tail will be.
Drain(k) ==
    /\ k \in pending
    /\ pending' = pending \ {k}
    /\ owed' = [x \in Cycles |-> owed[x] \ {k}]
    /\ page' = [c \in Recons |->
          IF k = LatestKey /\ k \in page[c] THEN (page[c] \ {k}) \cup {Gone} ELSE page[c]]
    /\ UNCHANGED <<cursor, outdated, pc, after, count>>

-----------------------------------------------------------------------------
(* One pass of one replica.                                                *)

PStep(c, from, to) == pc[c] = from /\ pc' = [pc EXCEPT ![c] = to]

\* tick, one pass at a time in a replica.
StartPass(c) ==
    /\ PStep(c, "idle", "list")
    /\ UNCHANGED <<pending, page, count>>

NewCycle(c) ==
    /\ outdated' = outdated \ {c, Stored}
    /\ owed' = [owed EXCEPT ![c] = pending \cap Old, ![Stored] = {}]
    /\ UNCHANGED after

\* readCursor: continue the stored cycle, or begin one, whether or not another
\* replica's pass is running.
ReadCursor(c) ==
    /\ StartPass(c)
    /\ \/ cursor = 0 /\ NewCycle(c)
       \/ /\ cursor # 0
          /\ after' = [after EXCEPT ![c] = cursor]
          /\ outdated' = outdated \cup (IF Stored \in outdated THEN {c} ELSE {})
          /\ owed' = [owed EXCEPT ![c] = owed[Stored]]
    /\ UNCHANGED cursor

\* A cursor that cannot be parsed, or whose cycle began after this replica's
\* clock, is deleted and a new cycle begins.
DiscardCursor(c) ==
    /\ cursor # 0
    /\ StartPass(c) /\ NewCycle(c)
    /\ cursor' = 0

\* storage.list with startAfter.  A tail newer than the cycle also is newer
\* than the tail the cycle may have ended at.
List(c) ==
    /\ PStep(c, "list", "next")
    /\ page' = [page EXCEPT ![c] =
          {k \in pending : k > after[c] \/ (k = LatestKey /\ c \in outdated)}]
    /\ UNCHANGED <<pending, cursor, outdated, after, count, owed>>

\* The key the listing yields next.
NextListed(c, k) == k \in page[c] /\ \A j \in page[c] : k <= j

\* The budget is spent, and the listing is not: the progress is stored.
BudgetSpent(c) ==
    /\ page[c] # {} /\ count[c] >= BatchSize
    /\ PStep(c, "next", "save")
    /\ UNCHANGED <<pending, cursor, outdated, after, page, count, owed>>

\* "after-cycle": the intent is there to be read and begins the next cycle.
AfterCycle(c) ==
    /\ NextListed(c, LatestKey) /\ c \in outdated /\ count[c] < BatchSize
    /\ PStep(c, "next", "wrap")
    /\ UNCHANGED <<pending, cursor, outdated, after, page, count, owed>>

\* The listing ends before the budget does: an empty suffix wraps.
Exhausted(c) ==
    /\ page[c] = {} /\ after[c] # 0
    /\ PStep(c, "next", IF count[c] = 0 THEN "wrap" ELSE "save")
    /\ UNCHANGED <<pending, cursor, outdated, after, page, count, owed>>

LastExamined(k) == IF k = Gone THEN LatestKey ELSE k

\* The GET and what follows from it: the intent is this cycle's, and it stays
\* or is removed.
ReconcileOne(c, k) ==
    /\ pc[c] = "next" /\ NextListed(c, k) /\ ~(k = LatestKey /\ c \in outdated)
    /\ pending' \in {pending, pending \ {k}}
    /\ owed' = [x \in Cycles |->
          IF x = c \/ k \notin pending' THEN owed[x] \ {k} ELSE owed[x]]
    /\ count' = [count EXCEPT ![c] = @ + 1]
    /\ UNCHANGED <<cursor, outdated, pc>>

\* Seeded bug: one intent more than the budget is reconciled.
ReconcileOverBudget(c) ==
    \E k \in page[c] :
        /\ count[c] <= BatchSize /\ ReconcileOne(c, k)
        /\ after' = [after EXCEPT ![c] = LastExamined(k)]
        /\ page' = [page EXCEPT ![c] = @ \ {k}]

\* Seeded bug: an intent that is gone takes the rest of the page with it.
ReconcileSkipsPage(c) ==
    \E k, last \in page[c] :
        /\ count[c] < BatchSize /\ ReconcileOne(c, k) /\ \A j \in page[c] : j <= last
        /\ after' = [after EXCEPT ![c] = LastExamined(IF k \in pending THEN k ELSE last)]
        /\ page' = [page EXCEPT ![c] = IF k \in pending THEN @ \ {k} ELSE {}]

\* reconcileIntent: an intent that disappeared counts as examined; another
\* one stays, or is cleaned, quarantined or discarded as invalid.
Reconcile(c) ==
    \E k \in page[c] :
        /\ count[c] < BatchSize /\ ReconcileOne(c, k)
        /\ after' = [after EXCEPT ![c] = LastExamined(k)]
        /\ page' = [page EXCEPT ![c] = @ \ {k}]

\* The pass is over and forgets its cycle; kept is what the cursor keeps.
EndPass(c) ==
    /\ pc' = [pc EXCEPT ![c] = "idle"]
    /\ page' = [page EXCEPT ![c] = {}]
    /\ after' = [after EXCEPT ![c] = 0]
    /\ count' = [count EXCEPT ![c] = 0]
    /\ UNCHANGED pending

StoreProgress(c) ==
    /\ cursor' = after[c]
    /\ outdated' = (outdated \ {c, Stored}) \cup (IF c \in outdated THEN {Stored} ELSE {})
    /\ owed' = [owed EXCEPT ![Stored] = owed[c], ![c] = {}]

\* Seeded bug: the cycle boundary stores the progress instead of wrapping.
WrapSaves(c) == pc[c] = "wrap" /\ EndPass(c) /\ StoreProgress(c)

\* The cursor goes: the next pass starts over with a new cycle.
Wrap(c) ==
    /\ pc[c] = "wrap" /\ EndPass(c)
    /\ cursor' = 0
    /\ outdated' = outdated \ {c, Stored}
    /\ owed' = [owed EXCEPT ![Stored] = {}, ![c] = {}]

SaveCursor(c) == pc[c] = "save" /\ EndPass(c) /\ StoreProgress(c)

StoreNothing(c) ==
    /\ outdated' = outdated \ {c}
    /\ owed' = [owed EXCEPT ![c] = {}]
    /\ UNCHANGED cursor

\* A cycle that begins with nothing pending leaves the cursor alone.
NothingPending(c) ==
    /\ pc[c] = "next" /\ page[c] = {} /\ after[c] = 0
    /\ EndPass(c) /\ StoreNothing(c)

\* A store call throws or the process dies.
PassFails(c) == pc[c] # "idle" /\ EndPass(c) /\ StoreNothing(c)

Pass(c) ==
    \/ ReadCursor(c) \/ List(c) \/ BudgetSpent(c) \/ AfterCycle(c) \/ Exhausted(c)
    \/ NothingPending(c) \/ Reconcile(c) \/ Wrap(c) \/ SaveCursor(c)

Next ==
    \/ \E k \in Keys : Arrive(k) \/ Drain(k)
    \/ \E c \in Recons : Pass(c) \/ DiscardCursor(c) \/ PassFails(c)

\* setInterval keeps starting passes, and a pass goes on.  Nothing decides who
\* wins the race between a worker's delete and a pass that listed the intent.
Spec == Init /\ [][Next]_vars /\ \A c \in Recons : WF_vars(Pass(c))

-----------------------------------------------------------------------------

\* "advances bounded passes beyond live jobs": the cursor, of a pass or the
\* stored one, never moves past an intent that was there when its cycle began
\* and that no pass of the cycle examined, however many replicas share it.
NothingSkipped ==
    /\ \A c \in Recons : \A k \in owed[c] : k > after[c]
    /\ \A k \in owed[Stored] : k > cursor

Examining(k) == \E c \in Recons : NextListed(c, k) /\ Reconcile(c)

\* The list-to-GET race: the pass reads an intent that was deleted since it was
\* listed, and counts it as examined.
Vanished == Examining(Gone)

\* A failure that leaves what the pass would have left does not count.
Interrupted == \E c \in Recons : (PassFails(c) /\ ~Pass(c)) \/ DiscardCursor(c)

\* An intent that stays is examined again and again, behind live jobs, behind a
\* stream of new intents and although passes of replicas overlap, unless one of
\* two things never stops: failures; or new intents that vanish between the
\* listing and the GET, each of which advances the cursor where one that is
\* read would wrap it.  The comment at pending-ingest-reconciler.ts:60,
\* "continuous new ingestion cannot postpone a wrap forever", does not know the
\* second exception; without it this property fails.
NoStarvation ==
    \/ []<><<Vanished>>_vars \/ []<><<Interrupted>>_vars
    \/ \A k \in Old : []<>(k \notin pending) \/ []<><<Examining(k)>>_vars
=============================================================================
