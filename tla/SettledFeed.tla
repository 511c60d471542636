----------------------------- MODULE SettledFeed -----------------------------
(***************************************************************************)
(* The trace feed as the scheduled destinations read it.  The writers are  *)
(* those of TraceIngest, ImportRuns and TraceRetention, seen from a        *)
(* distance: a trace is marked pending, its rows are written (an import    *)
(* removes the old ones first) and its feed row moves to the end.          *)
(***************************************************************************)
EXTENDS Integers, FiniteSets

CONSTANTS
    Traces,     \* trace ids, ordered
    MaxChanges, \* bound on the writes and removals, of traces and of scores
    PageSizes   \* values of FEED_PAGE_SIZE

ASSUME SettledFeedAssumption ==
    /\ Traces \subseteq Nat \ {0} /\ IsFiniteSet(Traces)
    /\ MaxChanges \in Nat /\ PageSizes \subseteq Nat \ {0}

VARIABLES
    stored,     \* each trace: its latest activity (0 when it is gone) and its revision
    writing,    \* the traces marked pending, and how far their write is
    feedRow,    \* the row of each trace in the feed: version and activity
    published,  \* the feed's watermark
    changes     \* how many changes there were

feedVars == <<stored, writing, feedRow, published, changes>>

NoRow == [ver |-> 0, src |-> 0]
Origin == <<0, 0>>
At(t) == <<feedRow[t].ver, t>>
Before(p, q) == p[1] < q[1] \/ (p[1] = q[1] /\ p[2] < q[2])

Sources == 0 .. MaxChanges
Versions == 0 .. MaxChanges
Positions == Versions \X (Traces \cup {0})

FeedTypeOK ==
    /\ stored \in [Traces -> [src : Sources, rev : Sources]]
    /\ writing \in [Traces -> {"none", "removed", "written"}]
    /\ feedRow \in [Traces -> [ver : Versions, src : Sources]]
    /\ published \in Versions
    /\ changes \in 0 .. MaxChanges

FeedInit ==
    /\ stored = [t \in Traces |-> [src |-> 0, rev |-> 0]]
    /\ writing = [t \in Traces |-> "none"]
    /\ feedRow = [t \in Traces |-> NoRow]
    /\ published = 0
    /\ changes = 0

Change == changes < MaxChanges /\ changes' = changes + 1

-----------------------------------------------------------------------------
\* Writers.  The mark is set before the rows change; one that sees only the
\* mark waits, so the two are one step here.

\* A pull import tombstones the rows it replaces.
RemoveOld(t) ==
    /\ writing[t] = "none" /\ stored[t].src # 0 /\ Change
    /\ writing' = [writing EXCEPT ![t] = "removed"]
    /\ stored' = [stored EXCEPT ![t].src = 0]
    /\ UNCHANGED <<feedRow, published>>

\* New activity, or a late batch with an older receive time.
WriteRows(t) ==
    /\ \/ writing[t] = "none" /\ Change
       \/ writing[t] = "removed" /\ UNCHANGED changes
    /\ writing' = [writing EXCEPT ![t] = "written"]
    /\ \E src \in {stored[t].rev + 1} \cup ({stored[t].src} \ {0}) :
          stored' = [stored EXCEPT ![t] = [src |-> src, rev |-> @.rev + 1]]
    /\ UNCHANGED <<feedRow, published>>

\* One batch publishes its traces together.  (The pending mark goes a little
\* later, which only holds the feed's readers back longer.)
PublishTraces(T) ==
    /\ T # {} /\ \A t \in T : writing[t] = "written"
    /\ published' = published + 1
    /\ feedRow' = [t \in Traces |->
          IF t \in T THEN [ver |-> published', src |-> stored[t].src] ELSE feedRow[t]]
    /\ writing' = [t \in Traces |-> IF t \in T THEN "none" ELSE writing[t]]
    /\ UNCHANGED <<stored, changes>>

\* Row retention removes a trace, then its feed row.
ExpireTrace(t) ==
    /\ writing[t] = "none" /\ stored[t].src # 0 /\ Change
    /\ stored' = [stored EXCEPT ![t].src = 0]
    /\ UNCHANGED <<writing, feedRow, published>>

PruneRow(t) ==
    /\ writing[t] = "none" /\ stored[t].src = 0 /\ feedRow[t] # NoRow
    /\ feedRow' = [feedRow EXCEPT ![t] = NoRow]
    /\ UNCHANGED <<stored, writing, published, changes>>

FeedNext ==
    \/ \E t \in Traces : RemoveOld(t) \/ WriteRows(t) \/ ExpireTrace(t) \/ PruneRow(t)
    \/ \E T \in SUBSET Traces : PublishTraces(T)

-----------------------------------------------------------------------------
\* What a reader asks.

\* A row as the feed lists it, and its place.
Row(t) == [trace |-> t, ver |-> feedRow[t].ver, src |-> feedRow[t].src]
FeedPlace(e) == <<e.ver, e.trace>>
FirstOf(rows) == {e \in rows : \A o \in rows \ {e} : Before(FeedPlace(e), FeedPlace(o))}

\* listEvaluatorTraceActivities: the rows after a position, of which a page
\* has the first.
Activities(position) == {Row(t) : t \in {u \in Traces : feedRow[u] # NoRow /\ Before(position, At(u))}}
PageOf(rows, limit) ==
    {e \in rows : Cardinality({o \in rows : Before(FeedPlace(o), FeedPlace(e))}) < limit}

\* getVersionedTraceSummaries: the stored activity, 0 when there is no trace.
Summaries == [t \in Traces |-> stored[t].src]
PendingTraces(T) == {t \in T : writing[t] # "none"}

\* The feed row of a trace at rest: what it names is what is stored.
AtRest(t) ==
    /\ writing[t] = "none" /\ feedRow[t] # NoRow
    /\ stored[t].src = feedRow[t].src
=============================================================================
