-------------------------- MODULE EvaluatorReaders --------------------------
(***************************************************************************)
(* The evaluator API as a reader of traces. A consumer pages with a        *)
(* cursor: a bootstrap scan of the ClickHouse traces, then the live feed   *)
(* from its origin. Another asks for the exact version of a trace. Nobody  *)
(* takes a lock: each request reads Postgres and ClickHouse several times  *)
(* and decides from what the reads returned. Readers write nothing, so a   *)
(* behaviour follows one: a scan until it hands over to the live feed, a   *)
(* live feed from its origin, or exact-version requests.                   *)
(***************************************************************************)
EXTENDS TraceStore, Sequences

CONSTANTS
    Limit,      \* page size
    Quiet,      \* the quiet period
    Consumers   \* a subset of {"scan", "live", "detail"}

VARIABLES
    consumer,   \* the one this behaviour follows
    cursor,     \* the feed consumer's cursor
    poll,       \* its request in progress
    offered,    \* history: the versions advertised to it
    detail      \* the exact-version request in progress, or its answer

readerVars == <<consumer, cursor, poll, offered, detail>>

ASSUME ReaderAssumption ==
    Limit \in Nat \ {0} /\ Quiet \in Nat /\ Consumers \subseteq {"scan", "live", "detail"}

SettledBefore == clock - Quiet

\* A version is the publication's, or the stored activity of a trace that
\* was never published.
Published(t, ver) == <<t, "published", ver>>
Stored(t, ver) == <<t, "stored", ver>>

\* Positions in the feed and in the bootstrap scan are <<version, trace>>.
Before(p, q) == p[1] < q[1] \/ (p[1] = q[1] /\ p[2] < q[2])
Position(e) == <<e.ver, e.trace>>

\* Up to one entry more than the page size, in the order of their positions.
PageOf(entries) ==
    LET place(e) == Cardinality({x \in entries : Before(Position(x), Position(e))}) + 1
    IN  [i \in 1 .. Min({Limit + 1, Cardinality(entries)}) |-> CHOOSE e \in entries : place(e) = i]

Origin == <<0, 0>>
LastTrace == Max(Traces \cup {0}) + 1

Unread == [pc |-> "idle", page |-> <<>>, settled |-> 0, shown |-> 0, got |-> {},
           pending |-> {}, version |-> [t \in Traces |-> 0]]
NoDetail == [pc |-> "idle", trace |-> 0, pub |-> NoFeed, settled |-> 0, got |-> {},
             source |-> 0, root |-> {}, obs |-> {}]

ReadersInit ==
    /\ consumer \in Consumers
    /\ cursor = [kind |-> IF consumer = "live" THEN "live" ELSE "new", at |-> Origin, through |-> 0]
    /\ poll = Unread
    /\ offered = {}
    /\ detail = NoDetail

\* The traces of the page that one of the guards holds back.
Held(read, T) ==
    {t \in T : \/ read = "raw" /\ RawPending(t)
               \/ read = "import" /\ ImportPending(t)}
\* A guard that nobody sets is not read.
Guards == (IF Batches = {} THEN {} ELSE {"raw"}) \cup (IF Workers = {} THEN {} ELSE {"import"})
PageTraces == {poll.page[i].trace : i \in DOMAIN poll.page}

FeedReader == UNCHANGED <<storeVars, mishaps, consumer, detail>>

-----------------------------------------------------------------------------
\* The bootstrap scan.

Bootstrap ==
    IF cursor.kind = "new" THEN [kind |-> "bootstrap", at |-> Origin, through |-> clock]
    ELSE cursor
WindowTo(c) == Min({SettledBefore, c.through})

ListSettled ==
    /\ consumer = "scan" /\ poll.pc = "idle" /\ cursor.kind # "live"
    /\ cursor' = Bootstrap
    /\ LET to == WindowTo(cursor')
           found == {[trace |-> t, ver |-> TraceVersion(t)] :
                       t \in {u \in Traces : Visible(u) /\ TraceVersion(u) <= to}}
       IN  poll' = [Unread EXCEPT !.pc = "guards", !.settled = to,
                       !.page = PageOf({e \in found : Before(cursor'.at, Position(e))})]
    /\ UNCHANGED offered
    /\ FeedReader

\* Both guards are read concurrently, for the page.
ReadScanGuard(read) ==
    /\ poll.pc = "guards" /\ read \in Guards \ poll.got
    /\ poll' = [poll EXCEPT !.pending = @ \cup Held(read, PageTraces), !.got = @ \cup {read},
                            !.pc = IF Guards \subseteq poll.got \cup {read} THEN "pubs" ELSE @]
    /\ UNCHANGED <<cursor, offered>>
    /\ FeedReader

\* Then the publications. A trace being written, or newer than its
\* publication, stops the page; one older than it is passed over.
Stops(e) == \/ e.trace \in poll.pending
            \/ feed[e.trace].ver # 0 /\ e.ver > feed[e.trace].src
Passed(e) == feed[e.trace].ver # 0 /\ e.ver < feed[e.trace].src

LiveCursor == [kind |-> "live", at |-> Origin, through |-> 0]

\* Seeded bug: a page that offers nothing ends the scan.
ScanCursorPastStop(page, n, hasMore, stop) ==
    CASE (hasMore \/ stop) /\ n > 0 -> [cursor EXCEPT !.at = Position(page[n])]
      [] ~stop /\ ~hasMore /\ poll.settled < cursor.through ->
           [cursor EXCEPT !.at = IF n > 0 THEN Position(page[n]) ELSE <<poll.settled, LastTrace>>]
      [] OTHER -> LiveCursor

\* Where the scan goes on, n entries of the page answered.
ScanCursor(page, n, hasMore, stop) ==
    CASE (hasMore \/ stop) /\ n > 0 -> [cursor EXCEPT !.at = Position(page[n])]
      [] stop /\ n = 0 -> cursor
      [] ~stop /\ ~hasMore /\ poll.settled < cursor.through ->
           [cursor EXCEPT !.at = IF n > 0 THEN Position(page[n]) ELSE <<poll.settled, LastTrace>>]
      [] OTHER -> LiveCursor

RespondScan ==
    /\ poll.pc = "pubs"
    /\ LET page == SubSeq(poll.page, 1, Min({Limit, Len(poll.page)}))
           stopped == {i \in DOMAIN page : Stops(page[i])}
           n == IF stopped = {} THEN Len(page) ELSE Min(stopped) - 1
           shown == {page[i] : i \in {j \in 1 .. n : ~Passed(page[j])}}
       IN  /\ offered' = offered \cup
                 {IF feed[e.trace].ver # 0 THEN Published(e.trace, feed[e.trace].ver)
                  ELSE Stored(e.trace, e.ver) : e \in shown}
           /\ cursor' = ScanCursor(page, n, Len(poll.page) > Limit, stopped # {})
    /\ poll' = Unread
    /\ FeedReader

-----------------------------------------------------------------------------
\* The live feed.

Ahead == {t \in Traces : feed[t].ver # 0 /\ Before(cursor.at, <<feed[t].ver, t>>)}

ListLive ==
    /\ consumer = "live" /\ poll.pc = "idle"
    /\ Ahead # {}
    /\ poll' = [Unread EXCEPT !.pc = "read",
                  !.page = PageOf({[trace |-> t, ver |-> feed[t].ver, src |-> feed[t].src,
                                    fresh |-> feed[t].src > SettledBefore] : t \in Ahead})]
    /\ UNCHANGED <<cursor, offered>>
    /\ FeedReader

\* The traces and both guards are read concurrently, for the page.
ReadLive(read) ==
    /\ poll.pc = "read" /\ read \in (Guards \cup {"trace"}) \ poll.got
    /\ poll' = [poll EXCEPT
          !.got = @ \cup {read},
          !.pending = @ \cup Held(read, PageTraces),
          !.version = IF read = "trace" THEN [t \in Traces |-> TraceVersion(t)] ELSE @,
          !.pc = IF Guards \cup {"trace"} = poll.got \cup {read} THEN "walk" ELSE @]
    /\ UNCHANGED <<cursor, offered>>
    /\ FeedReader

Entry == Head(poll.page)

\* The cursor of the response passes the entry. Nothing else sees the cursor
\* before the response, so it moves at once.
Consume(shows) ==
    /\ cursor' = [cursor EXCEPT !.at = Position(Entry)]
    /\ offered' = offered \cup {Published(e.trace, e.ver) : e \in shows}
    /\ LET shown == poll.shown + Cardinality(shows)
       IN  poll' = IF Len(poll.page) = 1 \/ shown >= Limit THEN Unread
                   ELSE [poll EXCEPT !.pc = "walk", !.page = Tail(@), !.shown = shown, !.got = {}]

\* Seeded bug: what is blocked is passed over like what is gone.
BlockedPasses == Consume({})

Blocked ==
    /\ poll' = Unread
    /\ UNCHANGED <<cursor, offered>>

\* Not found counts as older.
Decide(version) ==
    \/ version < Entry.src /\ Consume({})
    \/ version > Entry.src /\ Blocked
    \/ version = Entry.src /\ Consume({Entry})

Walk ==
    /\ poll.pc = "walk"
    /\ LET blocked == Entry.fresh \/ Entry.trace \in poll.pending
           older == poll.version[Entry.trace] < Entry.src
       IN  \/ blocked /\ Blocked
           \/ /\ ~blocked /\ older
              /\ poll' = [poll EXCEPT !.pc = "guards after", !.got = {}]
              /\ UNCHANGED <<cursor, offered>>
           \/ ~blocked /\ ~older /\ Decide(poll.version[Entry.trace])
    /\ FeedReader

\* What looks removed is read again between two looks at the guards.
ReadGuardAgain(read) ==
    /\ poll.pc \in {"guards after", "guards final"} /\ read \in Guards \ poll.got
    /\ LET got == poll.got \cup {read}
           pending == poll.pending \cup Held(read, {Entry.trace})
       IN  CASE got # Guards ->
                  /\ poll' = [poll EXCEPT !.got = got, !.pending = pending]
                  /\ UNCHANGED <<cursor, offered>>
             [] got = Guards /\ Entry.trace \in pending -> Blocked
             [] got = Guards /\ Entry.trace \notin pending /\ poll.pc = "guards after" ->
                  /\ poll' = [poll EXCEPT !.pc = "again", !.got = {}]
                  /\ UNCHANGED <<cursor, offered>>
             [] OTHER -> Decide(poll.version[Entry.trace])
    /\ FeedReader

ReadTraceAgain ==
    /\ poll.pc = "again"
    /\ poll' = [poll EXCEPT !.pc = "guards final",
                            !.version[Entry.trace] = TraceVersion(Entry.trace)]
    /\ UNCHANGED <<cursor, offered>>
    /\ FeedReader

-----------------------------------------------------------------------------
\* The exact version of a trace.

DetailReader == UNCHANGED <<storeVars, mishaps, consumer, cursor, poll, offered>>
Refuse == detail' = NoDetail

\* The version asked for is the one the publication read first names, or any
\* for a trace without one: other requests are refused.
AskDetail(t) ==
    /\ consumer = "detail" /\ detail.pc = "idle"
    /\ detail' = [NoDetail EXCEPT !.pc = "guards", !.trace = t, !.pub = feed[t],
                                  !.settled = SettledBefore]
    /\ DetailReader

ReadDetailGuard(read) ==
    /\ detail.pc = "guards" /\ read \in Guards \ detail.got
    /\ IF Held(read, {detail.trace}) # {} THEN Refuse
       ELSE detail' = [detail EXCEPT !.got = @ \cup {read},
                         !.pc = IF Guards = detail.got \cup {read} THEN "before" ELSE @]
    /\ DetailReader

ReadBefore ==
    /\ detail.pc = "before"
    /\ LET t == detail.trace
           source == TraceVersion(t)
           expected == IF detail.pub.ver # 0 THEN detail.pub.src ELSE source
       IN  IF Visible(t) /\ source = expected /\ source <= detail.settled
             THEN detail' = [detail EXCEPT !.pc = "observations", !.source = source,
                                           !.settled = 0, !.got = {},
                                           !.root = Tree(t) \ ObsTree(t)]
             ELSE Refuse
    /\ DetailReader

ReadObservations ==
    /\ detail.pc = "observations"
    /\ detail' = [detail EXCEPT !.pc = "after", !.obs = ObsTree(detail.trace)]
    /\ DetailReader

\* Seeded bug: the guards are not read a second time.
ReadAfterUnguarded ==
    /\ detail.pc = "after"
    /\ IF TraceVersion(detail.trace) = detail.source
         THEN detail' = [detail EXCEPT !.pc = "publication"] ELSE Refuse
    /\ DetailReader

ReadAfter ==
    /\ detail.pc = "after"
    /\ IF TraceVersion(detail.trace) = detail.source
         THEN detail' = [detail EXCEPT !.pc = "guards after"] ELSE Refuse
    /\ DetailReader

\* The raw guard, the import guard, and the publication only then.
ReadGuardAfter(read) ==
    /\ detail.pc = "guards after" /\ read \in Guards \ detail.got
    /\ read = "import" => "raw" \notin Guards \ detail.got
    /\ IF Held(read, {detail.trace}) # {} THEN Refuse
       ELSE detail' = [detail EXCEPT !.got = @ \cup {read},
                         !.pc = IF Guards = detail.got \cup {read} THEN "publication" ELSE @]
    /\ DetailReader

\* The last check before the answer.
Unchanged == feed[detail.trace] = detail.pub

\* The answer is the root read before and the observations; or a refusal.
Answers == detail.pc = "publication" /\ Unchanged

Respond ==
    /\ detail.pc = "publication"
    /\ detail' = NoDetail
    /\ DetailReader

-----------------------------------------------------------------------------
ReadersNext ==
    \/ ListSettled \/ RespondScan \/ ListLive \/ Walk \/ ReadTraceAgain
    \/ \E read \in Guards : ReadScanGuard(read) \/ ReadGuardAgain(read) \/ ReadDetailGuard(read)
                               \/ ReadGuardAfter(read)
    \/ \E read \in Guards \cup {"trace"} : ReadLive(read)
    \/ \E t \in Traces : AskDetail(t)
    \/ ReadBefore \/ ReadObservations \/ ReadAfter \/ Respond

ReadersTypeOK ==
    /\ consumer \in Consumers
    /\ cursor.kind \in {"new", "bootstrap", "live"}
    /\ poll.pc \in {"idle", "guards", "pubs", "read", "walk", "guards after", "again",
                    "guards final"}
    /\ Len(poll.page) <= Limit + 1
    /\ \A i \in DOMAIN poll.page : poll.page[i].trace \in Traces
    /\ poll.pending \subseteq Traces
    /\ detail.pc \in {"idle", "guards", "before", "observations", "after",
                      "guards after", "publication"}
    /\ detail.trace \in Traces \cup {0}
=============================================================================
