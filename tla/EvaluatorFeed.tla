---------------------------- MODULE EvaluatorFeed ---------------------------
(***************************************************************************)
(* The evaluator's view of traces while everything runs: ingest jobs, pull *)
(* imports and the retention pass write, the feed consumer and the exact-  *)
(* version reader read. The promise of the API is that a version names one *)
(* whole tree, and that a consumer which follows the feed misses none.     *)
(***************************************************************************)
EXTENDS TraceIngest, TraceRetention, ImportRuns, EvaluatorReaders

CONSTANT Legacy     \* what was stored before the feed existed, for the scan to find

ASSUME FeedAssumption == Legacy \subseteq Traces

VARIABLE fixed      \* history: each version, and the tree it named first

vars == <<storeVars, mishaps, ingestVars, retentionVars, importVars, readerVars, fixed>>

\* A reader that sees the trace as it is now would be given this version.
Servable(t) ==
    /\ Visible(t) /\ ~Pending(t)
    /\ feed[t].ver # 0 => TraceVersion(t) = feed[t].src
VersionOf(t) ==
    IF feed[t].ver # 0 THEN Published(t, feed[t].ver) ELSE Stored(t, TraceVersion(t))
Named(version) == \E f \in fixed : f[1] = version

Init ==
    /\ IngestInit /\ RetentionInit /\ ImportInit /\ ReadersInit
    /\ StoreInit(IF consumer = "scan" THEN Legacy ELSE {})
    /\ fixed = {<<VersionOf(t), Tree(t)>> : t \in {u \in Traces : Visible(u)}}

ClockTicks ==
    Tick /\ UNCHANGED <<rows, refs, marked, cutoff, feed, acts, watermark, staged, shared,
                        exclusive, mishaps, ingestVars, retentionVars, importVars, readerVars>>

Step ==
    \/ ClockTicks
    \/ IngestNext /\ UNCHANGED <<retentionVars, importVars, readerVars>>
    \/ RetentionNext /\ UNCHANGED <<ingestVars, importVars, readerVars>>
    \/ ImportNext /\ UNCHANGED <<ingestVars, retentionVars, readerVars>>
    \/ ReadersNext /\ UNCHANGED <<ingestVars, retentionVars, importVars>>

\* Remember the tree of a version the first time it can be served.
Remember ==
    IF UNCHANGED <<rows, refs, feed, staged>> THEN UNCHANGED fixed
    ELSE fixed' = fixed \cup
        {<<VersionOf(t), Tree(t)>>' : t \in {u \in Traces : Servable(u)' /\ ~Named(VersionOf(u)')}}

Next == Step /\ Remember

Spec == Init /\ [][Next]_vars

-----------------------------------------------------------------------------
TypeOK == StoreTypeOK /\ IngestTypeOK /\ RetentionTypeOK /\ ImportTypeOK /\ ReadersTypeOK

\* A trace past the retention cutoff is being removed, and its readers are
\* promised nothing (see ReadsComplete for what the API's document says).
Kept(t) == ~Expired(t)

\* A version names one tree: whenever the trace can be served under it, the
\* stored tree is the one that was there the first time.
VersionNamesOneTree ==
    \A t \in Traces : Kept(t) /\ Servable(t) => <<VersionOf(t), Tree(t)>> \in fixed

Asked == IF detail.pub.ver # 0 THEN Published(detail.trace, detail.pub.ver)
         ELSE Stored(detail.trace, detail.source)

WholeAnswer ==
    Answers /\ Named(Asked) => <<Asked, detail.root \cup detail.obs>> \in fixed

\* The exact-version endpoint answers with the whole tree of the version it
\* was asked for, put together from two stores without a lock. (A version
\* that was never served is promised nothing: nobody was told of it.)
ReadsWhole == detail.trace \in Traces /\ Kept(detail.trace) => WholeAnswer

\* The same of any trace, its retention cutoff passed or not.
ReadsComplete == WholeAnswer

\* The live cursor passes no version that can be served and was not offered.
NothingSkipped ==
    \A t \in Traces :
        /\ Kept(t) /\ feed[t].ver # 0 /\ Servable(t)
        /\ consumer = "live" /\ ~Before(cursor.at, <<feed[t].ver, t>>)
        => VersionOf(t) \in offered

\* When the bootstrap scan hands over to the live feed, it has offered every
\* trace the feed does not know.
LegacyOffered ==
    \A t \in Traces :
        Kept(t) /\ feed[t].ver = 0 /\ Servable(t) /\ consumer = "scan" /\ cursor.kind = "live"
        => VersionOf(t) \in offered

\* A stored tree newer than its publication is still being published.
NewerIsBeingPublished ==
    \A t \in Traces :
        Visible(t) /\ feed[t].ver # 0 /\ TraceVersion(t) > feed[t].src => Pending(t)

\* The prune removes the feed rows of traces that are gone, and no others.
PrunesOnlyGone ==
    [][\A t \in Traces : feed[t].ver # 0 /\ feed'[t].ver = 0 => ~Visible(t)]_vars

-----------------------------------------------------------------------------
\* Imports.

Imported(t) == staged[t].hash # None /\ ~staged[t].pending

\* An import that is not pending left exactly its tree: no observation of an
\* earlier version of the provider's trace survives in it.
ImportedTreeExact ==
    \A t \in Traces :
        Imported(t) /\ Kept(t) /\ Visible(t) /\ ~RawPending(t) =>
            {k[2] : k \in LiveKeys(t)} \ {Root} = TreeObs[staged[t].hash.tree]

\* What the store holds of a trace that is not pending was announced, and it
\* is what was announced last: its tree to the trace feed, its scores to the
\* score feed.
NoSilentChange ==
    \A t \in Traces : Imported(t) /\ Kept(t) =>
        told[t] # None /\ told[t].content = staged[t].hash

=============================================================================
