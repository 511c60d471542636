--------------------------- MODULE TraceRetention ---------------------------
(***************************************************************************)
(* The retention pass over evaluator traces, holding the exclusive fence:  *)
(* raise the import cutoff, record which visible traces are past it,       *)
(* remove trace roots and only then their observations (dropped with a     *)
(* partition, or tombstoned row by row), tombstone the children left by    *)
(* roots that are gone, and prune the feed of traces that no longer exist. *)
(* Which expired traces lose their partition depends on the other projects *)
(* and on partition boundaries: any subset. Row by row, a project that     *)
(* asked for a shorter retention loses all of them. An observation without *)
(* a trace goes by its own age, which may be past the cutoff that the      *)
(* trace itself has not reached (StrayObservations).                       *)
(***************************************************************************)
EXTENDS TraceStore

CONSTANTS
    Partitions,     \* whether partitions are dropped
    RowLevel,       \* whether the project asked for a shorter retention
    StrayObservations   \* whether an observation may expire before its trace

VARIABLES
    pass,       \* the step the pass is at
    orphans     \* feed rows found without a trace, at the version read

retentionVars == <<pass, orphans>>

Phases == {"idle", "mark", "dropRoots", "dropObs", "rowRoots", "rowObs", "children",
           "list", "prune"}

RetentionInit == pass = "idle" /\ orphans = {}

Goto(phase) == pass' = phase

\* Wait for every writer, then raise the cutoff.
BeginPass ==
    /\ pass = "idle" /\ Mishap("retention")
    /\ TakeExclusive
    /\ cutoff' = Max({cutoff, clock})
    /\ Goto("mark")
    /\ UNCHANGED <<clock, rows, refs, marked, feed, acts, watermark, staged, orphans>>

AfterPartitions == IF RowLevel THEN "rowRoots" ELSE "children"

RecordExpired ==
    /\ pass = "mark"
    /\ marked' = marked \cup {t \in Traces : Visible(t) /\ Expired(t)}
    /\ Goto(IF Partitions THEN "dropRoots" ELSE AfterPartitions)
    /\ UNCHANGED <<clock, rows, refs, cutoff, feed, acts, watermark, staged, shared,
                   exclusive, mishaps, orphans>>

Removable == {t \in Traces : Visible(t) /\ Expired(t)}
Orphans == {k \in Keys : k[2] # Root /\ rows[k].live /\ ~Visible(k[1])
                                     /\ (StrayObservations \/ Expired(k[1]))}

\* alter table ... drop partition: the rows and their tombstones are gone.
Drop(K) == rows' = [k \in Keys |-> IF k \in K THEN NoRow ELSE rows[k]]

DropRootPartitions ==
    /\ pass = "dropRoots"
    /\ \E D \in SUBSET Removable : Drop({RootKey(t) : t \in D})
    /\ Goto("dropObs")
    /\ UNCHANGED <<clock, refs, marked, cutoff, feed, acts, watermark, staged, shared,
                   exclusive, mishaps, orphans>>

\* A partition is kept while it holds a child of a trace still visible.
DropObsPartitions ==
    /\ pass = "dropObs"
    /\ \E D \in SUBSET Orphans : Drop(D)
    /\ Goto(AfterPartitions)
    /\ UNCHANGED <<clock, refs, marked, cutoff, feed, acts, watermark, staged, shared,
                   exclusive, mishaps, orphans>>

DeleteRoots ==
    /\ pass = "rowRoots"
    /\ rows' = Tombstone({RootKey(t) : t \in Removable}, JustAfter(clock))
    /\ Goto("rowObs")
    /\ UNCHANGED <<clock, refs, marked, cutoff, feed, acts, watermark, staged, shared,
                   exclusive, mishaps, orphans>>

\* Observations of a visible trace stay, whatever their own age.
DeleteObs ==
    /\ pass = "rowObs"
    /\ \E D \in SUBSET Orphans : rows' = Tombstone(D, JustAfter(clock))
    /\ Goto("children")
    /\ UNCHANGED <<clock, refs, marked, cutoff, feed, acts, watermark, staged, shared,
                   exclusive, mishaps, orphans>>

DeleteChildren ==
    /\ pass = "children"
    /\ rows' = Tombstone(UNION {ObsKeys(t) : t \in {u \in marked : ~Visible(u)}},
                         JustAfter(clock))
    /\ Goto("list")
    /\ UNCHANGED <<clock, refs, marked, cutoff, feed, acts, watermark, staged, shared,
                   exclusive, mishaps, orphans>>

ListOrphans ==
    /\ pass = "list"
    /\ orphans' = {<<t, feed[t].ver>> : t \in {u \in Traces : feed[u].ver # 0 /\ ~Visible(u)}}
    /\ Goto("prune")
    /\ UNCHANGED <<storeVars, mishaps>>

PruneFeed ==
    /\ pass = "prune"
    /\ DeleteFeedEntries(orphans)
    /\ orphans' = {}
    /\ exclusive' = FALSE
    /\ Goto("idle")
    /\ UNCHANGED <<clock, rows, refs, marked, cutoff, watermark, staged, shared, mishaps>>

\* The process dies: the lock session ends with the pass half done.
AbortPass ==
    /\ pass # "idle" /\ Mishap("failure")
    /\ exclusive' = FALSE
    /\ orphans' = {}
    /\ Goto("idle")
    /\ UNCHANGED <<clock, rows, refs, marked, cutoff, feed, acts, watermark, staged,
                   shared>>

RetentionStep ==
    \/ RecordExpired \/ DropRootPartitions \/ DropObsPartitions \/ DeleteRoots
    \/ DeleteObs \/ DeleteChildren \/ ListOrphans \/ PruneFeed

RetentionNext == BeginPass \/ RetentionStep \/ AbortPass

RetentionTypeOK ==
    /\ pass \in Phases
    /\ orphans \subseteq Traces \X Nat
    /\ exclusive <=> pass # "idle"
=============================================================================
