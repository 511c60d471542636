---------------------------- MODULE Destinations ----------------------------
(***************************************************************************)
(* Scheduled exports, OTLP forwarding and webhooks: a rule with a stored   *)
(* position in the trace feed, which worker replicas claim when it is due, *)
(* read on from and send what they find.  A run takes no lock, so a slow   *)
(* one overlaps the next.  A behaviour follows one rule of one kind; kind  *)
(* "handoff" is a webhook rule in the day a worker of before migration     *)
(* 0006, which keys deliveries by activity, may still be running.          *)
(***************************************************************************)
EXTENDS SettledFeed, Sequences, FiniteSetsExt

CONSTANTS
    Workers,        \* worker replicas
    Kinds,          \* a subset of {"export", "otlp", "webhook", "handoff"}
    MaxPerRun,      \* MAX_DELIVERIES_PER_RUN, MAX_TRACES_PER_RUN
    MaxExamined,    \* MAX_FEED_ENTRIES_PER_RUN
    Matching,       \* the traces the rule's filter accepts
    MaxTroubles     \* bound on crashes, errors and claims that go stale

ASSUME DestinationAssumption ==
    /\ Kinds \subseteq {"export", "otlp", "webhook", "handoff"}
    /\ MaxPerRun \in Nat \ {0} /\ MaxExamined \in Nat \ {0}
    /\ MaxTroubles \in Nat /\ Matching \subseteq Traces

VARIABLES
    kind,       \* what the rule is
    pageSize,   \* FEED_PAGE_SIZE
    rule,       \* its row: due, and the positions in the trace and score feeds
    run,        \* the run of each worker
    deliveries, \* webhook_deliveries: the status of each key that has a row
    scores,     \* each trace: its score revision, and its row in the score feed
    scanner,    \* the old worker: the key it is delivering, and its answer
    handoff,    \* the handoff window: whether it is open, the watermark when it ended
    dest,       \* what the destination has of each trace
    history,    \* keys answered ok, once and twice, rejected, and lost by their
                \* holders; whether runs overlapped
    troubles

destVars == <<kind, pageSize, rule, run, deliveries, scores, scanner, handoff, dest, history, troubles>>

NoKey == <<0, 0, 0>>
\* The key of a delivery: a feed version of a trace, or its activity.
VersionKey(e) == <<e.trace, e.ver, e.src>>
ActivityKey(e) == <<e.trace, 0, e.src>>
Keys == Traces \X Versions \X (Sources \ {0})
KeyStatus == {"pending", "stale", "delivered", "failed", "covered"}
Status(key) == IF key \in DOMAIN deliveries THEN deliveries[key] ELSE "none"
With(key, status) ==
    [k \in DOMAIN deliveries \cup {key} |-> IF k = key THEN status ELSE deliveries[k]]

NoVersions == [t \in Traces |-> 0]
Idle == [pc |-> "idle", from |-> Origin, at |-> Origin, sfrom |-> Origin, sat |-> Origin,
         page |-> {}, got |-> {}, seen |-> NoVersions, held |-> {},
         entries |-> <<>>, more |-> FALSE, blocked |-> FALSE, covers |-> FALSE,
         sent |-> 0, examined |-> 0, tree |-> NoVersions, score |-> NoVersions,
         staged |-> <<>>, changed |-> {}, rescored |-> {}, again |-> FALSE]

NothingSent == [ver |-> 0, rev |-> 0, score |-> 0]

DestInit ==
    /\ FeedInit
    /\ kind \in Kinds /\ pageSize \in PageSizes
    /\ kind = "handoff" => pageSize = Min(PageSizes)
    /\ rule = [due |-> TRUE, pos |-> Origin, spos |-> Origin]
    /\ run = [w \in Workers |-> Idle]
    /\ deliveries = <<>>
    /\ scores = [t \in Traces |-> [rev |-> 0, ver |-> 0, writing |-> FALSE]]
    /\ scanner = [key |-> NoKey, answer |-> "none"]
    /\ handoff = [open |-> kind = "handoff", until |-> 0]
    /\ dest = [t \in Traces |-> NothingSent]
    /\ history = [ok |-> {}, twice |-> {}, rejected |-> {}, lost |-> {}, overlap |-> FALSE]
    /\ troubles = 0

Webhook == kind \in {"webhook", "handoff"}
Trouble == troubles < MaxTroubles /\ troubles' = troubles + 1

\* A step of one run from one point to another.
Go(w, from, change) ==
    /\ run[w].pc = from
    /\ run' = [run EXCEPT ![w] = change]
RunOnly == UNCHANGED <<feedVars, kind, pageSize, rule, deliveries, scores, scanner, handoff, dest, history, troubles>>

-----------------------------------------------------------------------------
\* The scheduler.

\* The poll interval has passed.
ComesDue ==
    /\ ~rule.due /\ rule' = [rule EXCEPT !.due = TRUE]
    /\ UNCHANGED <<feedVars, kind, pageSize, run, deliveries, scores, scanner, handoff, dest, history, troubles>>

\* Bound: in the handoff one new worker runs beside the old one (and reads
\* the smallest pages, see DestInit).
Overlaps == kind # "handoff"

\* claimDue*: the rule is not due again before its interval, however slow the
\* run is.  A run that outlives the interval counts as a trouble.
ClaimRule(w) ==
    LET alone == \A v \in Workers : run[v].pc = "idle" IN
    /\ rule.due /\ rule' = [rule EXCEPT !.due = FALSE]
    /\ Go(w, "idle", [Idle EXCEPT !.pc = "list", !.from = rule.pos, !.at = rule.pos,
                          !.sfrom = rule.spos, !.sat = rule.spos])
    /\ IF alone THEN UNCHANGED <<history, troubles>>
       ELSE Overlaps /\ Trouble /\ history' = [history EXCEPT !.overlap = TRUE]
    /\ UNCHANGED <<feedVars, kind, pageSize, deliveries, scores, scanner, handoff, dest>>

-----------------------------------------------------------------------------
\* readSettledTraceFeed.

\* After a page: stop, stop short of a backlog, or read on.
Full(r) == r.sent >= MaxPerRun \/ r.examined >= MaxExamined
EndPage(r) ==
    LET last == IF kind = "export" THEN "scores" ELSE "record"
    IN  CASE r.blocked \/ ~r.more -> [r EXCEPT !.pc = last]
          [] ~r.blocked /\ r.more /\ Full(r) -> [r EXCEPT !.pc = last, !.again = TRUE]
          [] ~r.blocked /\ r.more /\ ~Full(r) -> [r EXCEPT !.pc = "list"]

ReadPage(w) ==
    LET r == run[w]
        left == MaxPerRun - r.sent
        limit == IF left < pageSize THEN left ELSE pageSize
        rows == Activities(r.at)
        page == [r EXCEPT !.pc = "look", !.more = Cardinality(rows) > limit, !.got = {},
                          !.page = PageOf(rows, limit)]
    IN  Go(w, "list", IF rows = {} THEN EndPage(page) ELSE page) /\ RunOnly

PageIds(r) == {e.trace : e \in r.page}
Of(T, values) == [t \in Traces |-> IF t \in T THEN values[t] ELSE 0]

\* The summaries and the pending marks are read concurrently.
LookUp(w, what) ==
    LET r == run[w]
        got == r.got \cup {what}
    IN  /\ what \in {"summaries", "pending"} \ r.got
        /\ Go(w, "look", [r EXCEPT
              !.got = IF Cardinality(got) = 2 THEN {} ELSE got,
              !.seen = IF what = "summaries" THEN Of(PageIds(r), Summaries) ELSE @,
              !.held = IF what = "pending" THEN PendingTraces(PageIds(r)) ELSE @,
              !.pc = IF Cardinality(got) = 2 THEN "walk" ELSE @])
        /\ RunOnly

\* The page is known: what the kind of rule does with its entries.
Walked(r) ==
    LET known == [r EXCEPT !.examined = @ + Len(r.entries), !.seen = NoVersions, !.held = {}]
    IN  CASE r.entries = <<>> -> EndPage(known)
          [] r.entries # <<>> /\ Webhook -> [known EXCEPT !.pc = "send"]
          [] r.entries # <<>> /\ ~Webhook -> [known EXCEPT !.pc = "load"]

BlockedPage(r) == Walked([r EXCEPT !.page = {}, !.blocked = TRUE])
Listed(r, e, shown) ==
    LET more == [r EXCEPT !.page = @ \ {e}, !.pc = "walk", !.entries =
                    Append(@, [trace |-> e.trace, ver |-> e.ver, src |-> e.src, shown |-> shown])]
    IN  IF more.page = {} THEN Walked(more) ELSE more

\* Gone: stepped over; newer than the feed row: the worker is about to
\* publish it; else it is to be sent.
Decided(r, e) ==
    IF r.seen[e.trace] > e.src THEN BlockedPage(r) ELSE Listed(r, e, r.seen[e.trace] = e.src)

\* A pending trace, or one still inside its quiet period, blocks the page.
WalkEntry(w) ==
    LET r == run[w] IN
    /\ \/ Go(w, "walk", BlockedPage(r))
       \/ \E e \in FirstOf(r.page) :
             /\ e.trace \notin r.held
             /\ Go(w, "walk", IF r.seen[e.trace] < e.src THEN [r EXCEPT !.pc = "pending again"]
                             ELSE Decided(r, e))
    /\ RunOnly

\* A trace that looks gone is read again between two looks at its mark.
LookAgain(w) ==
    LET r == run[w] IN
    /\ \E e \in FirstOf(r.page) :
          LET held == PendingTraces({e.trace}) # {} IN
          \/ Go(w, "pending again", IF held THEN BlockedPage(r) ELSE [r EXCEPT !.pc = "trace again"])
          \/ Go(w, "trace again", [r EXCEPT !.pc = "pending last", !.seen[e.trace] = Summaries[e.trace]])
          \/ Go(w, "pending last", IF held THEN BlockedPage(r) ELSE Decided(r, e))
    /\ RunOnly

Wanted(e) == e.shown /\ e.trace \in Matching

\* The position passes the first entry.
PassedTo(r, pc) ==
    LET more == [r EXCEPT !.at = FeedPlace(Head(r.entries)),
                          !.entries = Tail(@), !.covers = FALSE, !.pc = pc]
    IN  IF more.entries = <<>> THEN EndPage([more EXCEPT !.tree = NoVersions, !.seen = NoVersions,
                                                         !.score = NoVersions])
        ELSE more
Passed(r) == PassedTo(r, "send")
\* The run stops before it.
Stopped(r) == [Idle EXCEPT !.pc = "record", !.from = r.from, !.at = r.at]

-----------------------------------------------------------------------------
\* Webhooks: runWebhooks, deliver and the claims on deliveries.

WebhookOnly == UNCHANGED <<feedVars, kind, pageSize, rule, scores, scanner, handoff, dest>>
ReadOnly == UNCHANGED <<deliveries, history, troubles>> /\ WebhookOnly
Mark(key, status) ==
    /\ deliveries' = With(key, status)
    /\ UNCHANGED <<history, troubles>> /\ WebhookOnly

\* Seeded bug: a delivery in flight can be claimed.
ClaimableInFlight(key) == Status(key) \in {"none", "failed", "stale", "pending"}

\* claimWebhookDelivery: a new, a failed or a stale delivery can be claimed.
Claimable(key) == Status(key) \in {"none", "failed", "stale"}

Claim(key) ==
    /\ Claimable(key)
    /\ deliveries' = With(key, "pending")
    /\ UNCHANGED <<history, troubles>> /\ WebhookOnly

\* The scanner key counts in the handoff window, and after it for what was
\* published before it ended.
Mode(e) == CASE handoff.open -> "claim"
             [] ~handoff.open /\ e.ver <= handoff.until -> "check"
             [] ~handoff.open /\ e.ver > handoff.until -> "none"

PassEntry(w) ==
    /\ run[w].entries # <<>> /\ ~Wanted(Head(run[w].entries))
    /\ Go(w, "send", Passed(run[w]))
    /\ RunOnly

BeginDelivery(w) ==
    LET r == run[w]
        e == Head(r.entries)
    IN  /\ r.pc = "send" /\ r.entries # <<>> /\ Wanted(e)
        /\ \/ /\ Mode(e) = "claim" /\ Claim(ActivityKey(e))
              /\ Go(w, "send", [r EXCEPT !.pc = "claim", !.covers = TRUE])
           \/ /\ Mode(e) = "claim" /\ ~Claimable(ActivityKey(e))
              /\ Go(w, "send", [r EXCEPT !.pc = "scanner status"]) /\ ReadOnly
           \/ /\ Mode(e) = "check"
              /\ Go(w, "send", IF Status(ActivityKey(e)) = "delivered" THEN Passed(r)
                               ELSE [r EXCEPT !.pc = "claim"])
              /\ ReadOnly
           \/ Mode(e) = "none" /\ Go(w, "send", [r EXCEPT !.pc = "claim"]) /\ ReadOnly

\* "covered": an earlier version with the same activity holds the key.
ScannerStatus(w) ==
    LET r == run[w]
        status == Status(ActivityKey(Head(r.entries)))
    IN  /\ Go(w, "scanner status",
              CASE status = "delivered" -> Passed(r)
                [] status = "covered" -> [r EXCEPT !.pc = "claim"]
                [] status \notin {"delivered", "covered"} -> Stopped(r))
        /\ ReadOnly

ClaimVersion(w) ==
    LET r == run[w]
        key == VersionKey(Head(r.entries))
    IN  \/ Go(w, "claim", [r EXCEPT !.pc = "post"]) /\ Claim(key)
        \/ Go(w, "claim", [r EXCEPT !.pc = "version status"]) /\ ~Claimable(key) /\ ReadOnly

\* Another run has it: its scanner key is covered or given back.
VersionStatus(w) ==
    LET r == run[w]
        done == Status(VersionKey(Head(r.entries))) \in {"delivered", "covered"}
    IN  /\ Go(w, "version status",
              CASE r.covers -> [r EXCEPT !.pc = IF done THEN "cover" ELSE "release"]
                [] ~r.covers /\ done -> Passed(r)
                [] ~r.covers /\ ~done -> Stopped(r))
        /\ ReadOnly

Answered(key) ==
    history' = [history EXCEPT !.ok = @ \cup {key},
                               !.twice = IF key \in history.ok THEN @ \cup {key} ELSE @]

\* The request: answered ok, or failed as far as the run can tell.
Post(w, ok) ==
    LET r == run[w] IN
    /\ Go(w, "post", IF ok THEN [r EXCEPT !.pc = "mark", !.sent = @ + 1]
                     ELSE [r EXCEPT !.pc = "mark failed"])
    /\ IF ok THEN Answered(VersionKey(Head(r.entries))) ELSE UNCHANGED history
    /\ UNCHANGED <<deliveries, troubles>> /\ WebhookOnly

MarkDelivered(w) ==
    LET r == run[w] IN
    /\ Go(w, "mark", IF r.covers THEN [r EXCEPT !.pc = "cover"] ELSE Passed(r))
    /\ Mark(VersionKey(Head(r.entries)), "delivered")

MarkCovered(w) ==
    /\ Go(w, "cover", Passed(run[w]))
    /\ Mark(ActivityKey(Head(run[w].entries)), "covered")

\* Seeded bug: a delivery that failed is passed.
MarkFailedPasses(w) ==
    LET r == run[w] IN
    /\ Go(w, "mark failed", IF r.covers THEN [r EXCEPT !.pc = "release"] ELSE Passed(r))
    /\ Mark(VersionKey(Head(r.entries)), "failed")

MarkFailed(w) ==
    LET r == run[w] IN
    /\ Go(w, "mark failed", IF r.covers THEN [r EXCEPT !.pc = "release"] ELSE Stopped(r))
    /\ Mark(VersionKey(Head(r.entries)), "failed")

Release(w) ==
    /\ Go(w, "release", Stopped(run[w]))
    /\ Mark(ActivityKey(Head(run[w].entries)), "failed")

\* A claim whose holder recorded no outcome for STALE_PENDING_MINUTES.
GoesStale(key) ==
    /\ Status(key) = "pending"
    /\ deliveries' = With(key, "stale")
    /\ history' = [history EXCEPT !.lost = @ \cup {key}]
    /\ Trouble
    /\ UNCHANGED run /\ WebhookOnly

\* A worker of before migration 0006: it sends each activity it finds, with
\* the same claim, and is gone when the handoff window ends.
ScannerOnly == UNCHANGED <<feedVars, kind, pageSize, rule, run, scores, handoff, dest>>

ScannerClaims(t) ==
    /\ handoff.open /\ scanner.key = NoKey /\ stored[t].src # 0 /\ t \in Matching
    /\ LET key == <<t, 0, stored[t].src>> IN
        /\ Claimable(key)
        /\ deliveries' = With(key, "pending")
        /\ scanner' = [key |-> key, answer |-> "none"]
    /\ UNCHANGED <<history, troubles>> /\ ScannerOnly

ScannerPosts ==
    /\ scanner.key # NoKey /\ scanner.answer = "none"
    /\ \/ scanner' = [scanner EXCEPT !.answer = "failed"] /\ UNCHANGED history
       \/ scanner' = [scanner EXCEPT !.answer = "delivered"] /\ Answered(scanner.key)
    /\ UNCHANGED <<deliveries, troubles>> /\ ScannerOnly

ScannerMarks ==
    /\ scanner.answer # "none"
    /\ deliveries' = With(scanner.key, scanner.answer)
    /\ scanner' = [key |-> NoKey, answer |-> "none"]
    /\ UNCHANGED <<history, troubles>> /\ ScannerOnly

Lost(key) == history' = [history EXCEPT !.lost = @ \cup {key}]

ScannerDies ==
    /\ scanner.key # NoKey /\ scanner' = [key |-> NoKey, answer |-> "none"]
    /\ Lost(scanner.key) /\ Trouble
    /\ UNCHANGED deliveries /\ ScannerOnly

\* What it found in that day is published by the end of it.
HandoffEnds ==
    /\ handoff.open /\ scanner.key = NoKey /\ PendingTraces(Traces) = {}
    /\ handoff' = [open |-> FALSE, until |-> published]
    /\ UNCHANGED <<feedVars, kind, pageSize, rule, run, deliveries, scores, scanner, dest, history, troubles>>

-----------------------------------------------------------------------------
\* OTLP forwarding: forwardOtlpTraces.

EntryIds(r) == {r.entries[i].trace : i \in DOMAIN r.entries}
Revisions == [t \in Traces |-> stored[t].rev]

\* The observations are read after the page, and not compared with it.
LoadObservations(w) ==
    LET r == run[w] IN
    /\ kind = "otlp"
    /\ Go(w, "load", [r EXCEPT !.tree = Of(EntryIds(r), Revisions), !.pc = "forward"])
    /\ RunOnly

ForwardEntry(w) ==
    LET r == run[w]
        e == Head(r.entries)
        passed == PassedTo(r, "forward")
        sent == PassedTo([r EXCEPT !.sent = @ + 1], "forward")
    IN  /\ r.pc = "forward"
        /\ \/ ~Wanted(e) /\ Go(w, "forward", passed) /\ UNCHANGED <<dest, history>>
           \/ /\ Wanted(e) /\ Go(w, "forward", sent)
              /\ dest' = [dest EXCEPT ![e.trace] = [ver |-> e.ver, rev |-> r.tree[e.trace], score |-> 0]]
              /\ UNCHANGED history
           \* 400, 413, 422: the trace itself is rejected, and passed.
           \/ /\ Wanted(e) /\ Go(w, "forward", passed)
              /\ history' = [history EXCEPT !.rejected = @ \cup {VersionKey(e)}]
              /\ UNCHANGED dest
           \/ Wanted(e) /\ Go(w, "forward", Stopped(r)) /\ UNCHANGED <<dest, history>>
        /\ UNCHANGED <<feedVars, kind, pageSize, rule, deliveries, scores, scanner, handoff, troubles>>

-----------------------------------------------------------------------------
\* Scheduled exports: runExport.

ExportOnly == UNCHANGED <<feedVars, kind, pageSize, rule, deliveries, scores, scanner, handoff, history>>

\* loadExportedTraces: traces, observations and scores in three queries.
LoadRows(w, table) ==
    LET r == run[w]
        got == r.got \cup {table}
    IN  /\ kind = "export" /\ table \in {"traces", "observations", "scores"} \ r.got
        /\ Go(w, "load", [r EXCEPT
              !.got = IF Cardinality(got) = 3 THEN {} ELSE got,
              !.seen = IF table = "traces" THEN Of(EntryIds(r), Summaries) ELSE @,
              !.tree = IF table = "observations" THEN Of(EntryIds(r), Revisions) ELSE @,
              !.score = IF table = "scores" THEN Of(EntryIds(r), [t \in Traces |-> scores[t].rev]) ELSE @,
              !.pc = IF Cardinality(got) = 3 THEN "stage" ELSE @])
        /\ RunOnly

Staged(r, e) ==
    PassedTo([r EXCEPT !.sent = @ + 1, !.staged = Append(@,
        [trace |-> e.trace, ver |-> e.ver, rev |-> r.tree[e.trace], score |-> r.score[e.trace]])],
        "stage")

\* exportTracePass: a trace written or removed since the page was read stops
\* the pass before it.
StageEntry(w) ==
    LET r == run[w]
        e == Head(r.entries)
    IN  /\ Go(w, "stage",
              CASE ~Wanted(e) -> PassedTo(r, "stage")
                [] Wanted(e) /\ r.seen[e.trace] = e.src -> Staged(r, e)
                [] Wanted(e) /\ r.seen[e.trace] # e.src ->
                      [r EXCEPT !.pc = "scores", !.entries = <<>>, !.seen = NoVersions,
                                !.tree = NoVersions, !.score = NoVersions])
        /\ RunOnly

\* exportScorePass: the traces whose scores changed on their own, as far as
\* they are stored, are sent their scores again.
ScorePlace(t) == <<scores[t].ver, t>>
ScoreRows(position) == {t \in Traces : scores[t].ver # 0 /\ Before(position, ScorePlace(t))}

ListScores(w) ==
    LET r == run[w]
        rows == {ScorePlace(t) : t \in ScoreRows(r.sat)}
    IN  /\ Go(w, "scores", [r EXCEPT !.changed = rows, !.pc = IF rows = {} THEN "upload" ELSE "stored"])
        /\ RunOnly

MatchScores(w) ==
    LET r == run[w] IN
    /\ \E last \in r.changed :
          /\ \A p \in r.changed : p = last \/ Before(p, last)
          /\ Go(w, "stored", [r EXCEPT !.pc = "rescore", !.sat = last,
                !.changed = {p \in @ : stored[p[2]].src # 0 /\ p[2] \in Matching}])
    /\ RunOnly

StageScores(w) ==
    LET r == run[w] IN
    /\ Go(w, "rescore", [r EXCEPT !.pc = "upload", !.changed = {}, !.rescored =
          {[trace |-> p[2], score |-> scores[p[2]].rev] : p \in r.changed}])
    /\ RunOnly

\* What a consumer makes of a run's files: the highest version of a trace,
\* the last it got of its scores.
Received(d, r, tables) ==
    [t \in Traces |->
        LET of == {i \in DOMAIN r.staged : r.staged[i].trace = t}
            trees == {i \in of : r.staged[i].ver >= d[t].ver}
            tree == IF trees = {} \/ "trees" \notin tables THEN d[t] ELSE r.staged[Max(trees)]
            again == {s \in r.rescored : s.trace = t}
        IN  [ver |-> tree.ver, rev |-> tree.rev,
             score |-> IF "scores" \notin tables \/ (of = {} /\ again = {}) THEN d[t].score
                       ELSE IF again = {} THEN r.staged[Max(of)].score
                       ELSE (CHOOSE s \in again : TRUE).score]]

Empty(r) == r.staged = <<>> /\ r.rescored = {}

\* The files are put one by one; the positions are stored after the last.
Upload(w) ==
    LET r == run[w] IN
    /\ Go(w, "upload", [r EXCEPT !.pc = "record"])
    /\ dest' = Received(dest, r, {"trees", "scores"})
    /\ UNCHANGED troubles /\ ExportOnly

\* Seeded bug: the positions are stored although the upload failed.
UploadFailsAnyway(w) ==
    LET r == run[w] IN
    /\ Go(w, "upload", [r EXCEPT !.pc = "record"]) /\ ~Empty(r) /\ Trouble
    /\ \E tables \in {{}, {"trees"}} : dest' = Received(dest, r, tables)
    /\ ExportOnly

\* The failure of a run is recorded too, and leaves the positions.
UploadFails(w) ==
    /\ Go(w, "upload", Idle) /\ ~Empty(run[w]) /\ Trouble
    /\ \E tables \in {{}, {"trees"}} : dest' = Received(dest, run[w], tables)
    /\ ExportOnly

-----------------------------------------------------------------------------
\* The end of a run.

\* Seeded bug: the position is stored whatever it is by now.
RecordAnyway(w) ==
    LET r == run[w] IN
    /\ Go(w, "record", Idle)
    /\ rule' = [due |-> rule.due \/ r.again, pos |-> r.at, spos |-> r.sat]
    /\ UNCHANGED <<feedVars, kind, pageSize, deliveries, scores, scanner, handoff, dest, history, troubles>>

\* The position a run stores: its own, if the rule still is where the run
\* started from.
Recorded(pos, from, to) == IF pos = from THEN to ELSE pos

\* recordExportRun, recordOtlpForwardRun, recordWebhookRun.
RecordRun(w) ==
    LET r == run[w] IN
    /\ Go(w, "record", Idle)
    /\ rule' = [due |-> rule.due \/ r.again,
                pos |-> Recorded(rule.pos, r.from, r.at),
                spos |-> Recorded(rule.spos, r.sfrom, r.sat)]
    /\ UNCHANGED <<feedVars, kind, pageSize, deliveries, scores, scanner, handoff, dest, history, troubles>>

\* A call throws: a webhook or OTLP run keeps its progress, an export none.
RunThrows(w) ==
    /\ run[w].pc \notin {"idle", "record"}
    /\ run' = [run EXCEPT ![w] = IF kind = "export" THEN Idle ELSE Stopped(@)]
    /\ Trouble
    /\ UNCHANGED <<feedVars, kind, pageSize, rule, deliveries, scores, scanner, handoff, dest, history>>

WorkerDies(w) ==
    /\ run[w].pc # "idle" /\ run' = [run EXCEPT ![w] = Idle]
    /\ Trouble
    /\ UNCHANGED <<feedVars, kind, pageSize, rule, deliveries, scores, scanner, handoff, dest, history>>

-----------------------------------------------------------------------------
\* Scores change without trace activity: the rows, then the score feed, under
\* the watermark of the trace feed.
ScoresOnly == UNCHANGED <<kind, pageSize, rule, run, deliveries, scanner, handoff, dest, history, troubles>>

WriteScores(t) ==
    /\ kind = "export" /\ ~scores[t].writing /\ Change
    /\ scores' = [scores EXCEPT ![t].rev = @ + 1, ![t].writing = TRUE]
    /\ UNCHANGED <<stored, writing, feedRow, published>> /\ ScoresOnly

PublishScores(t) ==
    /\ scores[t].writing
    /\ published' = published + 1
    /\ scores' = [scores EXCEPT ![t].ver = published', ![t].writing = FALSE]
    /\ UNCHANGED <<stored, writing, feedRow, changes>> /\ ScoresOnly

-----------------------------------------------------------------------------
Advance(w) ==
    \/ ClaimRule(w) \/ ReadPage(w) \/ (\E what \in {"summaries", "pending"} : LookUp(w, what))
    \/ WalkEntry(w) \/ LookAgain(w)
    \/ PassEntry(w) \/ BeginDelivery(w) \/ ScannerStatus(w) \/ ClaimVersion(w) \/ VersionStatus(w)
    \/ (\E ok \in BOOLEAN : Post(w, ok))
    \/ MarkDelivered(w) \/ MarkCovered(w) \/ MarkFailed(w) \/ Release(w)
    \/ LoadObservations(w) \/ ForwardEntry(w)
    \/ (\E table \in {"traces", "observations", "scores"} : LoadRows(w, table))
    \/ StageEntry(w) \/ ListScores(w) \/ MatchScores(w) \/ StageScores(w) \/ Upload(w)
    \/ RecordRun(w)

ScannerNext == (\E t \in Traces : ScannerClaims(t)) \/ ScannerPosts \/ ScannerMarks \/ ScannerDies

DestNext ==
    \/ FeedNext /\ UNCHANGED destVars
    \/ \E w \in Workers : Advance(w) \/ UploadFails(w) \/ RunThrows(w) \/ WorkerDies(w)
    \/ ComesDue \/ ScannerNext \/ HandoffEnds
    \/ \E key \in DOMAIN deliveries : GoesStale(key)
    \/ \E t \in Traces : WriteScores(t) \/ PublishScores(t)

destAll == <<feedVars, destVars>>
DestSpec == DestInit /\ [][DestNext]_destAll

-----------------------------------------------------------------------------
Pcs == {"idle", "list", "look", "walk", "pending again", "trace again", "pending last", "send", "scanner status", "claim", "version status", "post", "mark", "cover",
        "mark failed", "release", "load", "forward", "stage", "scores", "stored", "rescore",
        "upload", "record"}

DestTypeOK ==
    /\ FeedTypeOK
    /\ kind \in Kinds /\ pageSize \in PageSizes
    /\ rule \in [due : BOOLEAN, pos : Positions, spos : Positions]
    /\ \A w \in Workers : run[w].pc \in Pcs /\ run[w].at \in Positions /\ run[w].sent \in 0 .. MaxPerRun
    /\ DOMAIN deliveries \subseteq Keys /\ \A key \in DOMAIN deliveries : deliveries[key] \in KeyStatus
    /\ scanner.key \in Keys \cup {NoKey}
    /\ troubles \in 0 .. MaxTroubles

\* Whatever two overlapping, failing and dying runs do, the position never
\* goes back.
PositionForward ==
    [][~Before(rule'.pos, rule.pos) /\ ~Before(rule'.spos, rule.spos)]_destAll

\* A version that was answered ok is not sent again, by this worker or, when
\* it was published in the handoff window, by the scanner, unless a claim on
\* it was lost without an outcome.
SentOnce ==
    /\ history.twice \subseteq history.lost
    /\ \A a, v \in history.ok :
          /\ a[2] = 0 /\ v[2] # 0 /\ a[1] = v[1] /\ a[3] = v[3]
          /\ handoff.open \/ v[2] <= handoff.until
          => {a, v} \cap history.lost # {}

\* The destination has what the feed names.
Has(t) ==
    LET e == [trace |-> t, ver |-> feedRow[t].ver, src |-> feedRow[t].src] IN
    CASE Webhook -> {VersionKey(e), ActivityKey(e)} \cap history.ok # {}
      [] kind = "otlp" -> \/ dest[t].rev = stored[t].rev
                          \/ VersionKey(e) \in history.rejected
                          \/ history.overlap
      [] kind = "export" -> dest[t].ver = e.ver /\ dest[t].rev = stored[t].rev

\* A trace at rest that the position has passed is at the destination as it
\* is stored now.
TracesAreSent ==
    \A t \in Matching : AtRest(t) /\ ~Before(rule.pos, At(t)) => Has(t)

\* So are the scores of an exported trace, as far as the score position has
\* passed their last change.
ScoresAreSent ==
    \A t \in Matching :
        /\ kind = "export" /\ ~history.overlap
        /\ AtRest(t) /\ ~Before(rule.pos, At(t))
        /\ ~scores[t].writing /\ ~Before(rule.spos, <<scores[t].ver, t>>)
        => dest[t].score = scores[t].rev

\* What the stored positions have passed is at the destination, whatever
\* failed, died or changed while the runs were under way.
PassedIsSent == TracesAreSent /\ ScoresAreSent
=============================================================================
