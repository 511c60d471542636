----------------------------- MODULE TraceStore -----------------------------
(***************************************************************************)
(* What the writers and the readers of evaluator traces share: the         *)
(* ClickHouse rows of a trace and its raw references, the Postgres feed,   *)
(* the imported snapshots staged in Postgres, and the lifecycle fence.     *)
(* No behaviour of its own: the modules that extend it act on this state.  *)
(*                                                                         *)
(* A ReplacingMergeTree table read with FINAL is the function from a row's *)
(* key to its newest version, so an insert wins when its version is not    *)
(* below the stored one (on a tie the later insert wins). Times are        *)
(* milliseconds; event_ts has a finer grain, so a row of millisecond m has *)
(* version 2m, and the two tombstones written around it 2m-1 and 2m+1.     *)
(***************************************************************************)
EXTENDS Integers, FiniteSets, FiniteSetsExt

CONSTANTS
    Traces,     \* trace ids; numbers, because pages are ordered by trace id
    Obs,        \* observation ids of a trace
    Batches,    \* ingest batches
    BatchKeys,  \* [Batches -> SUBSET (Traces \X Parts)]: the rows a batch holds
    Workers,    \* processes that run imports; a process is its own run token
    ExpiresAt,  \* [Traces -> Nat]: the retention cutoff that passes the trace
    MaxClock,   \* bound on the clock
    MishapKinds,\* bound: which of "failure", "edit", "pause", "retention" happen
    MaxMishaps, \* bound: how many mishaps there are, of any of those kinds
    None

Root == "root"
Parts == {Root} \cup Obs
Keys == Traces \X Parts
Tables == {Root, "observations"}

ASSUME StoreAssumption ==
    /\ Traces \subseteq Nat \ {0} /\ IsFiniteSet(Traces) /\ IsFiniteSet(Obs)
    /\ Root \notin Obs
    /\ Batches \cap Workers = {}
    /\ BatchKeys \in [Batches -> SUBSET Keys]
    /\ ExpiresAt \in [Traces -> Nat]
    /\ MaxClock \in Nat \ {0}

VARIABLES
    mishaps,    \* how many of those there were
    clock,      \* milliseconds
    rows,       \* traces and observations, read with FINAL
    refs,       \* raw_event_refs: max(applied) of a batch's snapshot references
    marked,     \* evaluator_trace_retention
    cutoff,     \* evaluator_import_retention_cutoffs
    feed,       \* evaluator_trace_feed
    acts,       \* evaluator_trace_feed_activities
    watermark,  \* evaluator_trace_feed_watermarks
    staged,     \* evaluator_import_trace_state
    shared,     \* who holds the shared side of the lifecycle fence
    exclusive   \* whether retention holds the exclusive side

storeVars == <<clock, rows, refs, marked, cutoff, feed, acts, watermark, staged,
               shared, exclusive>>

-----------------------------------------------------------------------------
\* ClickHouse rows.

At(ms) == 2 * ms
JustBefore(ms) == 2 * ms - 1
JustAfter(ms) == 2 * ms + 1

NoRow == [ver |-> 0, by |-> None, live |-> FALSE]

\* Insert rows under keys K, all with one version.
Put(K, ver, by, live) ==
    [k \in Keys |-> IF k \in K /\ ver >= rows[k].ver
                      THEN [ver |-> ver, by |-> by, live |-> live]
                      ELSE rows[k]]

LiveKeys(t) == {k \in Keys : k[1] = t /\ rows[k].live}

\* insert ... select ... final: a tombstone for every row visible now.
Tombstone(K, ver) == Put({k \in K : rows[k].live}, ver, None, FALSE)

RootKey(t) == <<t, Root>>
ObsKeys(t) == {t} \X Obs
Visible(t) == rows[RootKey(t)].live

\* The latest activity of a visible trace, and 0 for a trace not found.
TraceVersion(t) ==
    IF Visible(t) THEN Max({rows[k].ver : k \in LiveKeys(t)}) \div 2 ELSE 0

\* What the exact-version endpoint shows: who wrote each live row.
Tree(t) == {<<k[2], rows[k].by>> : k \in LiveKeys(t)}
ObsTree(t) == {<<k[2], rows[k].by>> : k \in LiveKeys(t) \ {RootKey(t)}}

-----------------------------------------------------------------------------
\* The guards that keep readers off a trace being written.

TracesOf(b) == {k[1] : k \in BatchKeys[b]}
RawPending(t) == \E b \in Batches : t \in TracesOf(b) /\ refs[b] = "pending"
ImportPending(t) == staged[t].pending /\ staged[t].required
Pending(t) == RawPending(t) \/ ImportPending(t)

Expired(t) == ExpiresAt[t] <= cutoff

-----------------------------------------------------------------------------
\* Publication: one transaction under the project's advisory lock.

NoFeed == [ver |-> 0, src |-> 0]

\* Seeded bug: a later publication does not advance the source activity.
PublishKeepsSource(T, src, activity) ==
    LET new == {t \in T : <<t, activity>> \notin acts}
    IN  /\ acts' = acts \cup (new \X {activity})
        /\ watermark' = IF new = {} THEN watermark ELSE watermark + 1
        /\ feed' = [t \in Traces |->
              IF t \in new
                THEN [ver |-> watermark', src |-> IF feed[t].ver # 0 THEN feed[t].src ELSE src]
                ELSE feed[t]]

Publish(T, src, activity) ==
    LET new == {t \in T : <<t, activity>> \notin acts}
    IN  /\ acts' = acts \cup (new \X {activity})
        /\ watermark' = IF new = {} THEN watermark ELSE watermark + 1
        /\ feed' = [t \in Traces |->
              IF t \in new
                THEN [ver |-> watermark', src |-> Max({feed[t].src, src})]
                ELSE feed[t]]

\* Delete feed rows still at the version read, with their activities.
DeleteFeedEntries(entries) ==
    LET gone == {t \in Traces : feed[t].ver # 0 /\ <<t, feed[t].ver>> \in entries}
    IN  /\ feed' = [t \in Traces |-> IF t \in gone THEN NoFeed ELSE feed[t]]
        /\ acts' = {a \in acts : a[1] \notin gone}

-----------------------------------------------------------------------------
\* The fence: many writers or one retention pass.

\* Seeded bugs: a writer does not wait for retention, nor retention for the
\* writers; a failed writer keeps its lock.
TakeSharedAnyway(p) == shared' = shared \cup {p} /\ UNCHANGED exclusive
TakeExclusiveAnyway == ~exclusive /\ exclusive' = TRUE /\ UNCHANGED shared
DropSharedNever(p) == UNCHANGED <<shared, exclusive>>

TakeShared(p) == ~exclusive /\ shared' = shared \cup {p} /\ UNCHANGED exclusive
DropShared(p) == shared' = shared \ {p} /\ UNCHANGED exclusive
TakeExclusive == shared = {} /\ ~exclusive /\ exclusive' = TRUE /\ UNCHANGED shared

-----------------------------------------------------------------------------
NotStaged == [hash |-> None, gen |-> 0, pending |-> FALSE, required |-> FALSE,
              token |-> None]

StoreInit(visible) ==
    /\ mishaps = 0
    /\ clock = 1
    /\ rows = [k \in Keys |-> IF k[1] \in visible
                                THEN [ver |-> At(1), by |-> None, live |-> TRUE]
                                ELSE NoRow]
    /\ refs = [b \in Batches |-> "none"]
    /\ marked = {}
    /\ cutoff = 0
    /\ feed = [t \in Traces |-> NoFeed]
    /\ acts = {}
    /\ watermark = 0
    /\ staged = [t \in Traces |-> NotStaged]
    /\ shared = {}
    /\ exclusive = FALSE

\* A process fails, a provider edits a trace, an import run sleeps through
\* its lease, a retention pass begins.
Mishap(kind) ==
    /\ kind \in MishapKinds
    /\ mishaps < MaxMishaps
    /\ mishaps' = mishaps + 1

\* Time passes.
Tick == clock < MaxClock /\ clock' = clock + 1

StoreTypeOK ==
    /\ mishaps \in Nat
    /\ clock \in 1 .. MaxClock
    /\ DOMAIN rows = Keys
    /\ \A k \in Keys : rows[k].ver \in Nat /\ rows[k].live \in BOOLEAN
    /\ refs \in [Batches -> {"none", "pending", "applied"}]
    /\ marked \subseteq Traces
    /\ cutoff \in 0 .. MaxClock
    /\ feed \in [Traces -> [ver : 0 .. watermark, src : Nat]]
    /\ watermark \in Nat
    /\ shared \subseteq Batches \cup Workers
    /\ exclusive \in BOOLEAN
    /\ exclusive => shared = {}
=============================================================================
